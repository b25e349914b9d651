--------------------------- MODULE Requests_proofs --------------------------
(***************************************************************************)
(* Theorems about what requests that overlap leave behind, for any number  *)
(* of them at once: the sessions, reset links and pairings of SignIn, for  *)
(* any users and devices, and the link and the page of GamePages.          *)
(*                                                                         *)
(* The properties speak of a state in which the requests concerned are     *)
(* over.  The inductive invariants say, step by step, what a request that  *)
(* is not over has already read or written.                                *)
(***************************************************************************)
EXTENDS SignIn, GamePages, TLAPS

(* What the ways to write a slot do. *)
Elsewhere(q) == req' = [s \in Slots |-> IF s = q THEN req'[q] ELSE req[s]]

LEMMA SlotWrites ==
    ASSUME DOMAIN req = Slots, NEW q \in Slots
    PROVE  /\ \A r : Begin(q, r) => req[q] = Free /\ req'[q] = r /\ Elsewhere(q)
           /\ \A at : Goto(q, at) => req'[q] = [req[q] EXCEPT !.at = at] /\ Elsewhere(q)
           /\ Done(q) => req'[q] = Free /\ Elsewhere(q)
           /\ \A r : req' = [req EXCEPT ![q] = r] => req'[q] = r /\ Elsewhere(q)
BY DEF Begin, Goto, Done, Elsewhere

-----------------------------------------------------------------------------
(* Signing in: the shape of what is stored and of the requests.            *)

Reasons == {"login", "refresh", "pair"}
Links == [user : Users, n : Nat]
Pasts == {"none", "crossing", "pairing"}
RefreshRows == [id : Nat, gen : Nat, past : Pasts]
Accesses == [user : Users \cup {Nobody}, gen : Nat]
Pairings == [status : {"none", "pending", "approved", "claimed"}, user : Users \cup {Nobody},
             gen : Nat, expired : BOOLEAN]

(* A request for tokens, before they are minted and after. *)
ToMint == [op : {"mint"}, at : {"user", "save", "refused"}, why : Reasons, user : Users,
           dev : Devices, gen : Nat, past : Pasts, ended : Nat]
Minted == [op : {"mint"}, at : {"claim", "answer"}, why : Reasons, user : Users,
           dev : Devices, id : Nat \ {0}, gen : Nat]
LinkRequests == [op : {"link"}, at : {"insert"}, user : Users]
Resets == [op : {"reset"}, at : {"consume", "password", "revoke"}, user : Users, link : Links]

SignInRequests == {Free} \cup ToMint \cup Minted \cup LinkRequests \cup Resets

SignInTypes ==
    /\ req \in [Slots -> SignInRequests]
    /\ rows \in [Users \X Devices -> RefreshRows]
    /\ pw \in [Users -> Nat]
    /\ links \subseteq Links
    /\ pair \in [Devices -> Pairings]
    /\ \A d \in Devices : pair[d].status \in {"approved", "claimed"} => pair[d].user \in Users
    /\ held \in [Devices -> [user : Users \cup {Nobody}, id : Nat]]
    /\ \A d \in Devices : held[d] # NoToken => held[d].user \in Users /\ held[d].id # 0
    /\ acc \in [Devices -> Accesses]
    /\ \A d \in Devices : acc[d] # NoAccess => acc[d].user \in Users
    /\ ended \in [Users -> Nat]
    /\ calm \in [Devices -> BOOLEAN]
    /\ served \in [Devices -> Nat]
    /\ nextId \in Nat \ {0} /\ nextLink \in Nat

LEMMA FreeIsFree == Free.op = "free" /\ Free.at = "free"
BY DEF Free

(* Where a request stands tells its shape. *)
LEMMA Shape ==
    ASSUME SignInTypes, NEW q \in Slots
    PROVE  /\ req[q].op = "mint" /\ req[q].at \in {"user", "save", "refused"} => req[q] \in ToMint
           /\ req[q].op = "mint" /\ req[q].at \in {"claim", "answer"} => req[q] \in Minted
           /\ req[q].op = "mint" => req[q] \in ToMint \cup Minted
           /\ req[q].op = "link" => req[q] \in LinkRequests
           /\ req[q].op = "reset" => req[q] \in Resets
           /\ req[q].op = "free" => req[q] = Free
<1>1. req[q] \in SignInRequests
  BY DEF SignInTypes
<1>2. req[q] = Free => req[q].op = "free"
  BY FreeIsFree
<1>3. req[q] \in ToMint => req[q].op = "mint" /\ req[q].at \in {"user", "save", "refused"}
  BY DEF ToMint
<1>4. req[q] \in Minted => req[q].op = "mint" /\ req[q].at \in {"claim", "answer"}
  BY DEF Minted
<1>5. req[q] \in LinkRequests => req[q].op = "link"
  BY DEF LinkRequests
<1>6. req[q] \in Resets => req[q].op = "reset"
  BY DEF Resets
<1>7. QED
  BY <1>1, <1>2, <1>3, <1>4, <1>5, <1>6 DEF SignInRequests

(* A slot written with a request keeps the slots typed. *)
LEMMA SlotsTyped ==
    ASSUME SignInTypes, NEW q \in Slots, Elsewhere(q), req'[q] \in SignInRequests
    PROVE  req' \in [Slots -> SignInRequests]
BY DEF SignInTypes, Elsewhere

LEMMA OthersSame ==
    ASSUME NEW q \in Slots, Elsewhere(q), NEW s \in Slots, s # q
    PROVE  req'[s] = req[s]
BY DEF Elsewhere

(* What deletions leave. *)
LEMMA DeleteTyped ==
    ASSUME SignInTypes, NEW u \in Users, NEW d \in Devices
    PROVE  /\ DeleteRefreshToken(u, d) \in [Users \X Devices -> RefreshRows]
           /\ DeleteRefreshToken(u, d)[<<u, d>>] = NoRow
           /\ \A k \in Users \X Devices : k # <<u, d>> => DeleteRefreshToken(u, d)[k] = rows[k]
BY DEF SignInTypes, DeleteRefreshToken, NoRow, RefreshRows, Pasts

LEMMA DeleteWithin ==
    ASSUME SignInTypes, NEW u \in Users, NEW d \in Devices, rows' = DeleteRefreshToken(u, d)
    PROVE  \A k \in Users \X Devices : rows'[k] \in {rows[k], NoRow}
<1>1. ASSUME NEW k \in Users \X Devices PROVE rows'[k] \in {rows[k], NoRow}
  BY DeleteTyped
<1>2. QED
  BY <1>1

LEMMA DeleteElsewhere ==
    ASSUME SignInTypes, NEW u \in Users, NEW d \in Devices, NEW e \in Devices, e # d,
           rows' = DeleteRefreshToken(u, e)
    PROVE  \A v \in Users : rows'[<<v, d>>] = rows[<<v, d>>]
<1>1. ASSUME NEW v \in Users PROVE rows'[<<v, d>>] = rows[<<v, d>>]
  <2>1. <<v, d>> \in Users \X Devices /\ <<v, d>> # <<u, e>>
    OBVIOUS
  <2>2. QED
    BY <2>1, DeleteTyped
<1>2. QED
  BY <1>1

LEMMA DeleteUserTyped ==
    ASSUME SignInTypes, NEW u \in Users
    PROVE  /\ DeleteUserRefreshTokens(u) \in [Users \X Devices -> RefreshRows]
           /\ \A k \in Users \X Devices :
                 DeleteUserRefreshTokens(u)[k] = IF k[1] = u THEN NoRow ELSE rows[k]
BY DEF SignInTypes, DeleteUserRefreshTokens, NoRow, RefreshRows, Pasts

-----------------------------------------------------------------------------
(* Types, handler by handler. *)

LEMMA BeginMintTyped ==
    ASSUME SignInTypes, NEW q \in Slots, NEW d \in Devices, NEW u \in Users,
           NEW at \in {"user", "save", "refused"}, NEW why \in Reasons, NEW gen \in Nat,
           NEW past \in Pasts, BeginMint(q, d, u, at, why, gen, past)
    PROVE  /\ req' \in [Slots -> SignInRequests] /\ calm' \in [Devices -> BOOLEAN]
           /\ req[q] = Free /\ Elsewhere(q)
           /\ req'[q] = [op |-> "mint", at |-> at, why |-> why, user |-> u, dev |-> d, gen |-> gen,
                         past |-> past, ended |-> ended[u]]
           /\ calm' = [calm EXCEPT ![d] = @ /\ Waiting(d) = {}]
<1> DEFINE n == [op |-> "mint", at |-> at, why |-> why, user |-> u, dev |-> d, gen |-> gen,
                 past |-> past, ended |-> ended[u]]
<1>1. Begin(q, n) /\ calm' = [calm EXCEPT ![d] = @ /\ Waiting(d) = {}]
  BY DEF BeginMint
<1>2. req[q] = Free /\ req'[q] = n /\ Elsewhere(q)
  BY <1>1, SlotWrites DEF SignInTypes
<1>3. n \in ToMint
  BY DEF ToMint, SignInTypes
<1>4. req' \in [Slots -> SignInRequests]
  BY <1>2, <1>3, SlotsTyped DEF SignInRequests
<1>5. calm' \in [Devices -> BOOLEAN]
  BY <1>1 DEF SignInTypes
<1>6. QED
  BY <1>1, <1>2, <1>4, <1>5

LEMMA BegunAs ==
    ASSUME SignInTypes, NEW q \in Slots, NEW d, NEW u, NEW at, NEW why, NEW gen, NEW past,
           BeginMint(q, d, u, at, why, gen, past)
    PROVE  /\ req[q] = Free /\ Elsewhere(q)
           /\ req'[q] = [op |-> "mint", at |-> at, why |-> why, user |-> u, dev |-> d, gen |-> gen,
                         past |-> past, ended |-> ended[u]]
<1> DEFINE n == [op |-> "mint", at |-> at, why |-> why, user |-> u, dev |-> d, gen |-> gen,
                 past |-> past, ended |-> ended[u]]
<1>1. Begin(q, n)
  BY DEF BeginMint
<1>2. QED
  BY <1>1, SlotWrites DEF SignInTypes

(* A request that goes on to another call keeps its shape. *)
Moved(r, at) == [r EXCEPT !.at = at]

LEMMA ShapesKept ==
    /\ \A r \in ToMint, at \in {"user", "save", "refused"} :
          LET n == Moved(r, at)
          IN  /\ n \in ToMint /\ n.at = at /\ n.op = "mint"
              /\ n.user = r.user /\ n.dev = r.dev /\ n.why = r.why /\ n.gen = r.gen
              /\ n.past = r.past /\ n.ended = r.ended
    /\ \A r \in Minted, at \in {"claim", "answer"} :
          LET n == Moved(r, at)
          IN  /\ n \in Minted /\ n.at = at /\ n.op = "mint"
              /\ n.user = r.user /\ n.dev = r.dev /\ n.why = r.why /\ n.id = r.id
    /\ \A r \in Resets, at \in {"consume", "password", "revoke"} :
          LET n == Moved(r, at)
          IN  n \in Resets /\ n.at = at /\ n.op = "reset" /\ n.user = r.user
<1>1. ASSUME NEW r \in ToMint, NEW at \in {"user", "save", "refused"}
      PROVE  LET n == Moved(r, at)
             IN  /\ n \in ToMint /\ n.at = at /\ n.op = "mint"
                 /\ n.user = r.user /\ n.dev = r.dev /\ n.why = r.why /\ n.gen = r.gen
                 /\ n.past = r.past /\ n.ended = r.ended
  BY DEF ToMint, Moved
<1>2. ASSUME NEW r \in Minted, NEW at \in {"claim", "answer"}
      PROVE  LET n == Moved(r, at)
             IN  /\ n \in Minted /\ n.at = at /\ n.op = "mint"
                 /\ n.user = r.user /\ n.dev = r.dev /\ n.why = r.why /\ n.id = r.id
  BY DEF Minted, Moved
<1>3. ASSUME NEW r \in Resets, NEW at \in {"consume", "password", "revoke"}
      PROVE  LET n == Moved(r, at)
             IN  n \in Resets /\ n.at = at /\ n.op = "reset" /\ n.user = r.user
  BY DEF Resets, Moved
<1>4. QED
  BY <1>1, <1>2, <1>3

(* A request moves on within its shape, or ends. *)
Kin(q) == /\ req'[q].gen = req[q].gen /\ req'[q].past = req[q].past
          /\ req'[q].ended = req[q].ended

LEMMA MovesTyped ==
    ASSUME SignInTypes, NEW q \in Slots
    PROVE  /\ Done(q) => req' \in [Slots -> SignInRequests] /\ req'[q] = Free /\ Elsewhere(q)
           /\ \A at : /\ Goto(q, at)
                      /\ \/ req[q] \in ToMint /\ at \in {"user", "save", "refused"}
                         \/ req[q] \in Minted /\ at \in {"claim", "answer"}
                         \/ req[q] \in Resets /\ at \in {"consume", "password", "revoke"}
                      => /\ req' \in [Slots -> SignInRequests] /\ Elsewhere(q)
                         /\ req'[q] = Moved(req[q], at) /\ req'[q].at = at
                         /\ req'[q].op = req[q].op /\ req'[q].user = req[q].user
                         /\ req[q].op = "mint" => /\ req'[q].dev = req[q].dev
                                                  /\ req'[q].why = req[q].why
                         /\ req[q] \in Minted => req'[q].id = req[q].id
                         /\ req[q] \in ToMint => Kin(q)
<1>0. DOMAIN req = Slots
  BY DEF SignInTypes
<1>1. ASSUME Done(q)
      PROVE  req' \in [Slots -> SignInRequests] /\ req'[q] = Free /\ Elsewhere(q)
  BY <1>0, <1>1, SlotWrites, SlotsTyped DEF SignInRequests
<1>2. ASSUME NEW at, Goto(q, at)
      PROVE  Elsewhere(q) /\ req'[q] = Moved(req[q], at)
  BY <1>0, <1>2, SlotWrites DEF Moved
<1>3. ASSUME NEW at \in {"user", "save", "refused"}, Goto(q, at), req[q] \in ToMint
      PROVE  /\ req'[q] \in ToMint /\ req'[q].at = at /\ req'[q].op = req[q].op
             /\ req'[q].user = req[q].user /\ req'[q].dev = req[q].dev
             /\ req'[q].why = req[q].why /\ req[q] \notin Minted /\ Kin(q)
  <2>1. req[q].op = "mint" /\ req[q] \notin Minted
    BY <1>3 DEF ToMint, Minted
  <2>2. req'[q] = Moved(req[q], at)
    BY <1>2, <1>3
  <2>3. QED
    BY <1>3, <2>1, <2>2, ShapesKept DEF Kin
<1>4. ASSUME NEW at \in {"claim", "answer"}, Goto(q, at), req[q] \in Minted
      PROVE  /\ req'[q] \in Minted /\ req'[q].at = at /\ req'[q].op = req[q].op
             /\ req'[q].user = req[q].user /\ req'[q].dev = req[q].dev
             /\ req'[q].why = req[q].why /\ req'[q].id = req[q].id
             /\ req[q] \notin ToMint
  <2>1. req[q].op = "mint" /\ req[q] \notin ToMint
    BY <1>4 DEF Minted, ToMint
  <2>2. req'[q] = Moved(req[q], at)
    BY <1>2, <1>4
  <2>3. QED
    BY <1>4, <2>1, <2>2, ShapesKept
<1>5. ASSUME NEW at \in {"consume", "password", "revoke"}, Goto(q, at), req[q] \in Resets
      PROVE  /\ req'[q] \in Resets /\ req'[q].at = at /\ req'[q].op = req[q].op
             /\ req'[q].user = req[q].user /\ req[q].op # "mint" /\ req[q] \notin Minted
             /\ req[q] \notin ToMint
  <2>1. req[q].op = "reset" /\ req[q] \notin Minted /\ req[q] \notin ToMint
    BY <1>5 DEF Resets, Minted, ToMint
  <2>2. req'[q] = Moved(req[q], at)
    BY <1>2, <1>5
  <2>3. QED
    BY <1>5, <2>1, <2>2, ShapesKept
<1>6. QED
  BY <1>1, <1>2, <1>3, <1>4, <1>5, SlotsTyped DEF SignInRequests

(* The calls of a reset, in their order. *)
LEMMA ResetCalls ==
    ASSUME NEW q \in Slots
    PROVE  /\ ResetOrder[1] = "consume"
           /\ AfterCall(q, "consume") => Goto(q, "password")
           /\ AfterCall(q, "password") => Goto(q, "revoke")
           /\ AfterCall(q, "revoke") => Done(q)
<1>1. ResetOrder[1] = "consume" /\ ResetOrder[2] = "password" /\ ResetOrder[3] = "revoke"
  BY DEF ResetOrder
<1>2. ASSUME NEW at, at = ResetOrder[1]
      PROVE  (CHOOSE i \in 1..2 : ResetOrder[i] = at) = 1
  BY <1>1, <1>2
<1>3. ASSUME NEW at, at = ResetOrder[2]
      PROVE  (CHOOSE i \in 1..2 : ResetOrder[i] = at) = 2
  BY <1>1, <1>3
<1>4. QED
  BY <1>1, <1>2, <1>3 DEF AfterCall


(* What each handler that writes a slot does, beside its other writes. *)
LEMMA MintTyped ==
    ASSUME SignInTypes, NEW q \in Slots, Mint(q)
    PROVE  LET r == req[q] IN
           /\ r \in ToMint /\ req'[q] \in Minted /\ Elsewhere(q)
           /\ req'[q].user = r.user /\ req'[q].dev = r.dev /\ req'[q].why = r.why
           /\ req'[q].id = nextId
           /\ req'[q].at = IF r.why = "pair" THEN "claim" ELSE "answer"
           /\ rows' = [rows EXCEPT ![<<r.user, r.dev>>] =
                         [id |-> nextId, gen |-> r.gen, past |-> Past(r)]]
           /\ Past(r) \in Pasts
<1> DEFINE r == req[q]
           n == [op |-> "mint", dev |-> r.dev, user |-> r.user, why |-> r.why, id |-> nextId,
                 gen |-> r.gen,
                 at |-> IF r.why = "pair" THEN "claim" ELSE "answer"]
<1>1. r \in ToMint
  BY Shape DEF Mint, At
<1>2. n \in Minted
  BY <1>1 DEF ToMint, Minted, SignInTypes
<1>3. req' = [req EXCEPT ![q] = n]
  BY DEF Mint
<1>4. req'[q] = n /\ Elsewhere(q)
  BY <1>3, SlotWrites DEF SignInTypes
<1>5. rows' = [rows EXCEPT ![<<r.user, r.dev>>] =
                 [id |-> nextId, gen |-> r.gen, past |-> Past(r)]]
  BY DEF Mint, SaveRefreshToken
<1>6. Past(r) \in Pasts
  BY <1>1 DEF Past, Pasts, ToMint
<1>7. QED
  BY <1>1, <1>2, <1>4, <1>5, <1>6

LEMMA InsertLinkTyped ==
    ASSUME SignInTypes, NEW q \in Slots, NEW u \in Users, AdminReset(q, u)
    PROVE  /\ req' \in [Slots -> SignInRequests] /\ Elsewhere(q) /\ req[q] = Free
           /\ req'[q] \in LinkRequests
<1> DEFINE n == [op |-> "link", at |-> "insert", user |-> u]
<1>1. req[q] = Free /\ req'[q] = n /\ Elsewhere(q)
  BY SlotWrites DEF AdminReset, SignInTypes
<1>2. n \in LinkRequests
  BY DEF LinkRequests
<1>3. QED
  BY <1>1, <1>2, SlotsTyped DEF SignInRequests

LEMMA DoResetTyped ==
    ASSUME SignInTypes, NEW q \in Slots, NEW l \in links, DoReset(q, l)
    PROVE  /\ req' \in [Slots -> SignInRequests] /\ Elsewhere(q) /\ req[q] = Free
           /\ req'[q] \in Resets /\ req'[q].at = "consume"
<1> DEFINE n == [op |-> "reset", at |-> ResetOrder[1], user |-> l.user, link |-> l]
<1>1. req[q] = Free /\ req'[q] = n /\ Elsewhere(q)
  BY SlotWrites DEF DoReset, SignInTypes
<1>2. l \in Links /\ ResetOrder[1] = "consume"
  BY ResetCalls DEF SignInTypes
<1>3. n \in Resets /\ n.at = "consume"
  BY <1>2 DEF Resets, Links
<1>4. QED
  BY <1>1, <1>3, SlotsTyped DEF SignInRequests

(* A refresh, a poll or a sign-in begins. *)
LEMMA LoginBegins ==
    ASSUME SignInTypes, NEW q \in Slots, NEW d \in Devices, NEW u \in Users, Login(q, d, u)
    PROVE  BeginMint(q, d, u, "save", "login", pw[u], "none") /\ pw[u] \in Nat
BY DEF Login, SignInTypes

LEMMA RefreshBegins ==
    ASSUME SignInTypes, NEW q \in Slots, NEW d \in Devices, Refresh(q, d)
    PROVE  /\ held[d].user \in Users
           /\ \E at \in {"user", "refused"}, gen \in Nat, past \in Pasts :
                 /\ BeginMint(q, d, held[d].user, at, "refresh", gen, past)
                 /\ at = "user" => rows[<<held[d].user, d>>].id = held[d].id
                 /\ LET row == rows[<<held[d].user, d>>] IN gen = row.gen /\ past = row.past
                 /\ at = "user" => rows[<<held[d].user, d>>] # NoRow
<1>1. held[d].user \in Users
  BY DEF Refresh, SignInTypes
<1>2. rows[<<held[d].user, d>>] \in RefreshRows
  BY <1>1 DEF SignInTypes
<1>3. rows[<<held[d].user, d>>].gen \in Nat /\ rows[<<held[d].user, d>>].past \in Pasts
  BY <1>2 DEF RefreshRows
<1>4. rows[<<held[d].user, d>>].id = held[d].id => rows[<<held[d].user, d>>] # NoRow
  BY DEF Refresh, SignInTypes, NoRow
<1>5. QED
  BY <1>1, <1>3, <1>4 DEF Refresh

LEMMA PollBegins ==
    ASSUME SignInTypes, NEW q \in Slots, NEW d \in Devices, PairPoll(q, d)
    PROVE  pair[d].user \in Users /\ pair[d].gen \in Nat
           /\ BeginMint(q, d, pair[d].user, "user", "pair", pair[d].gen, "none")
BY DEF PairPoll, SignInTypes, Pairings

LEMMA MintBegins ==
    ASSUME SignInTypes, NEW q \in Slots, NEW d \in Devices,
           (\E u \in Users : Login(q, d, u)) \/ Refresh(q, d) \/ PairPoll(q, d)
    PROVE  \E u \in Users, at \in {"user", "save", "refused"}, why \in Reasons, gen \in Nat,
              past \in Pasts : BeginMint(q, d, u, at, why, gen, past)
<1>1. ASSUME NEW u \in Users, Login(q, d, u)
      PROVE  BeginMint(q, d, u, "save", "login", pw[u], "none") /\ pw[u] \in Nat
  BY <1>1, LoginBegins
<1>2. ASSUME Refresh(q, d)
      PROVE  held[d].user \in Users /\ \E at \in {"user", "refused"}, gen \in Nat, past \in Pasts :
                BeginMint(q, d, held[d].user, at, "refresh", gen, past)
  BY <1>2, RefreshBegins
<1>3. ASSUME PairPoll(q, d)
      PROVE  pair[d].user \in Users /\ pair[d].gen \in Nat
             /\ BeginMint(q, d, pair[d].user, "user", "pair", pair[d].gen, "none")
  BY <1>3, PollBegins
<1>4. QED
  BY <1>1, <1>2, <1>3 DEF Reasons, Pasts

(* A pairing that changes its status, or expires, is the same user's. *)
Status(p, status) == [p EXCEPT !.status = status]
Expired(p) == [p EXCEPT !.expired = TRUE]

LEMMA PairingChanges ==
    ASSUME NEW p \in Pairings
    PROVE  /\ \A status \in {"pending", "claimed"} :
                 /\ Status(p, status) \in Pairings
                 /\ Status(p, status).status = status /\ Status(p, status).user = p.user
           /\ Expired(p) \in Pairings
           /\ Expired(p).status = p.status /\ Expired(p).user = p.user
BY DEF Pairings, Status, Expired

LEMMA AccessDropped ==
    ASSUME SignInTypes, NEW d \in Devices, acc' = [acc EXCEPT ![d] = NoAccess]
    PROVE  /\ acc' \in [Devices -> Accesses]
           /\ \A e \in Devices : acc'[e] # NoAccess => acc'[e].user \in Users
<1>1. NoAccess \in Accesses
  BY DEF NoAccess, Accesses
<1>2. acc \in [Devices -> Accesses]
  BY DEF SignInTypes
<1>3. \A e \in Devices : acc'[e] = IF e = d THEN NoAccess ELSE acc[e]
  BY <1>2
<1>4. \A e \in Devices : acc[e] # NoAccess => acc[e].user \in Users
  BY DEF SignInTypes
<1>5. QED
  BY <1>1, <1>2, <1>3, <1>4

LEMMA SignInTypesKept == SignInTypes /\ [Next]_vars => SignInTypes'
<1> SUFFICES ASSUME SignInTypes, [Next]_vars PROVE SignInTypes'
  OBVIOUS
<1>1. ASSUME NEW u \in Users, SetUserBanned(u) PROVE SignInTypes'
  BY <1>1 DEF SetUserBanned, SignInTypes
<1>2. ASSUME NEW d \in Devices, Logout(d) PROVE SignInTypes'
  <2>1. rows' \in [Users \X Devices -> RefreshRows]
    <3>1. acc[d] # NoAccess => acc[d].user \in Users
      BY DEF SignInTypes
    <3>2. rows' = rows \/ (acc[d] # NoAccess /\ rows' = DeleteRefreshToken(acc[d].user, d))
      BY <1>2 DEF Logout
    <3>3. rows \in [Users \X Devices -> RefreshRows]
      BY DEF SignInTypes
    <3>4. QED
      BY <3>1, <3>2, <3>3, DeleteTyped
  <2>2. held' \in [Devices -> [user : Users \cup {Nobody}, id : Nat]]
    <3>1. NoToken \in [user : Users \cup {Nobody}, id : Nat]
      BY DEF NoToken
    <3>2. QED
      BY <1>2, <3>1 DEF Logout, SignInTypes
  <2>3. \A e \in Devices : held'[e] # NoToken => held'[e].user \in Users /\ held'[e].id # 0
    BY <1>2 DEF Logout, SignInTypes
  <2>4. calm' \in [Devices -> BOOLEAN]
    BY <1>2 DEF Logout, SignInTypes, Disturbed
  <2>5. /\ acc' \in [Devices -> Accesses]
        /\ \A e \in Devices : acc'[e] # NoAccess => acc'[e].user \in Users
    BY <1>2, AccessDropped DEF Logout
  <2>6. QED
    BY <1>2, <2>1, <2>2, <2>3, <2>4, <2>5 DEF Logout, SignInTypes
<1>3. ASSUME NEW d \in Devices, AccessEnds(d) PROVE SignInTypes'
  <2>1. /\ acc' \in [Devices -> Accesses]
        /\ \A e \in Devices : acc'[e] # NoAccess => acc'[e].user \in Users
    BY <1>3, AccessDropped DEF AccessEnds
  <2>2. QED
    BY <1>3, <2>1 DEF AccessEnds, SignInTypes
<1>4. ASSUME NEW d \in Devices, PairStart(d) \/ PairExpires(d) PROVE SignInTypes'
  <2>1. /\ pair' \in [Devices -> Pairings]
        /\ \A e \in Devices : pair'[e].status \in {"approved", "claimed"}
              => pair[e].status = pair'[e].status /\ pair'[e].user = pair[e].user
    <3>1. /\ pair[d] \in Pairings /\ DOMAIN pair = Devices
      BY DEF SignInTypes
    <3>2. CASE PairStart(d)
      <4>1. pair' = [pair EXCEPT ![d] = Status(pair[d], "pending")]
        BY <3>1, <3>2 DEF PairStart, Status
      <4>2. QED
        BY <3>1, <4>1, PairingChanges DEF SignInTypes
    <3>3. CASE PairExpires(d)
      <4>1. pair' = [pair EXCEPT ![d] = Expired(pair[d])]
        BY <3>1, <3>3 DEF PairExpires, Expired
      <4>2. QED
        BY <3>1, <4>1, PairingChanges DEF SignInTypes
    <3>4. QED
      BY <1>4, <3>2, <3>3
  <2>2. UNCHANGED <<req, rows, pw, links, held, acc, calm, served, ended, nextId, nextLink>>
    BY <1>4 DEF PairStart, PairExpires
  <2>3. QED
    BY <2>1, <2>2 DEF SignInTypes
<1>5. ASSUME NEW d \in Devices, NEW e \in Devices, PairApprove(d, e) PROVE SignInTypes'
  <2> DEFINE n == [status |-> "approved", user |-> acc[e].user, gen |-> acc[e].gen,
                   expired |-> FALSE]
  <2>1. acc[e].user \in Users /\ acc[e].gen \in Nat
    BY <1>5 DEF PairApprove, SignInTypes, Accesses
  <2>2. n \in Pairings /\ n.user \in Users
    BY <2>1 DEF Pairings
  <2>3. pair' = [pair EXCEPT ![d] = n]
    BY <1>5 DEF PairApprove
  <2> HIDE DEF n
  <2>4. QED
    BY <1>5, <2>2, <2>3 DEF PairApprove, SignInTypes
<1>6. ASSUME NEW q \in Slots, NEW u \in Users, AdminReset(q, u) PROVE SignInTypes'
  BY <1>6, InsertLinkTyped DEF AdminReset, SignInTypes
<1>7. ASSUME NEW q \in Slots, NEW u \in Users, NEW d \in Devices, Login(q, d, u)
      PROVE  SignInTypes'
  BY <1>7, LoginBegins, BeginMintTyped DEF Login, SignInTypes, Reasons, Pasts
<1>8. ASSUME NEW q \in Slots, NEW d \in Devices, Refresh(q, d) PROVE SignInTypes'
  <2>1. PICK at \in {"user", "refused"}, gen \in Nat, past \in Pasts :
           held[d].user \in Users /\ BeginMint(q, d, held[d].user, at, "refresh", gen, past)
    BY <1>8, RefreshBegins
  <2>2. req' \in [Slots -> SignInRequests] /\ calm' \in [Devices -> BOOLEAN]
    BY <2>1, BeginMintTyped DEF Reasons
  <2>3. QED
    BY <1>8, <2>2 DEF Refresh, SignInTypes
<1>9. ASSUME NEW q \in Slots, NEW d \in Devices, PairPoll(q, d) PROVE SignInTypes'
  BY <1>9, PollBegins, BeginMintTyped DEF PairPoll, SignInTypes, Reasons, Pasts
<1>10. ASSUME NEW l \in links, LinkExpires(l) PROVE SignInTypes'
  BY <1>10 DEF LinkExpires, SignInTypes
<1>11. ASSUME NEW l \in links, NEW q \in Slots, DoReset(q, l) PROVE SignInTypes'
  BY <1>11, DoResetTyped DEF DoReset, authVars, SignInTypes
<1>12. ASSUME NEW q \in Slots, ReadUser(q) PROVE SignInTypes'
  <2>1. req[q] \in ToMint
    BY <1>12, Shape DEF ReadUser, At
  <2>2. req[q].user \in Users /\ req[q].dev \in Devices
    BY <2>1 DEF ToMint
  <2>3. req' \in [Slots -> SignInRequests]
    BY <1>12, <2>1, MovesTyped DEF ReadUser
  <2>4. rows' = rows \/ rows' = DeleteRefreshToken(req[q].user, req[q].dev)
    BY <1>12 DEF ReadUser
  <2>5. rows' \in [Users \X Devices -> RefreshRows]
    <3>1. rows \in [Users \X Devices -> RefreshRows]
      BY DEF SignInTypes
    <3>2. QED
      BY <2>2, <2>4, <3>1, DeleteTyped
  <2>6. QED
    BY <1>12, <2>3, <2>5 DEF ReadUser, SignInTypes
<1>13. ASSUME NEW q \in Slots, Mint(q) PROVE SignInTypes'
  <2>1. req[q].user \in Users /\ req[q].dev \in Devices /\ req[q].gen \in Nat
    BY <1>13, MintTyped DEF ToMint
  <2>2. [id |-> nextId, gen |-> req[q].gen, past |-> Past(req[q])] \in RefreshRows
    BY <1>13, <2>1, MintTyped DEF RefreshRows, SignInTypes
  <2>3. rows' \in [Users \X Devices -> RefreshRows]
    BY <1>13, <2>1, <2>2, MintTyped DEF SignInTypes
  <2>4. req' \in [Slots -> SignInRequests]
    BY <1>13, MintTyped, SlotsTyped DEF SignInRequests
  <2>5. /\ calm' \in [Devices -> BOOLEAN] /\ served' \in [Devices -> Nat]
        /\ nextId' \in Nat \ {0}
    BY <1>13, <2>1 DEF Mint, SignInTypes
  <2>6. QED
    BY <1>13, <2>3, <2>4, <2>5 DEF Mint, SignInTypes
<1>14. ASSUME NEW q \in Slots, Deliver(q) PROVE SignInTypes'
  <2>1. req' \in [Slots -> SignInRequests]
    BY <1>14, MovesTyped DEF Deliver
  <2>2. NoToken \in [user : Users \cup {Nobody}, id : Nat]
    BY DEF NoToken
  <2>3. CASE At(q, "mint", "answer")
    <3> DEFINE n == [user |-> req[q].user, id |-> req[q].id]
               a == [user |-> req[q].user, gen |-> req[q].gen]
    <3>1. req[q] \in Minted
      BY <2>3, Shape DEF At
    <3>2. req[q].user \in Users /\ req[q].dev \in Devices /\ req[q].gen \in Nat
          /\ req[q].id \in Nat \ {0}
      BY <3>1 DEF Minted
    <3>3. /\ n \in [user : Users \cup {Nobody}, id : Nat] /\ n.user \in Users /\ n.id # 0
          /\ a \in Accesses /\ a.user \in Users
      BY <3>2 DEF Accesses
    <3>4. held' = [held EXCEPT ![req[q].dev] = n] /\ acc' = [acc EXCEPT ![req[q].dev] = a]
      BY <1>14, <2>3 DEF Deliver, At
    <3> HIDE DEF n, a
    <3>5. QED
      BY <1>14, <2>1, <3>2, <3>3, <3>4 DEF Deliver, SignInTypes
  <2>4. CASE At(q, "mint", "refused")
    <3>1. req[q] \in ToMint
      BY <2>4, Shape DEF At
    <3>2. req[q].dev \in Devices
      BY <3>1 DEF ToMint
    <3>3. held' = [held EXCEPT ![req[q].dev] = NoToken] /\ acc' = [acc EXCEPT ![req[q].dev] = NoAccess]
      BY <1>14, <2>4 DEF Deliver, At
    <3>4. /\ acc' \in [Devices -> Accesses]
          /\ \A e \in Devices : acc'[e] # NoAccess => acc'[e].user \in Users
      BY <3>2, <3>3, AccessDropped
    <3>5. QED
      BY <1>14, <2>1, <2>2, <3>2, <3>3, <3>4 DEF Deliver, SignInTypes
  <2>5. QED
    BY <1>14, <2>3, <2>4 DEF Deliver
<1>15. ASSUME NEW q \in Slots, Claim(q) PROVE SignInTypes'
  <2>1. req[q] \in Minted
    BY <1>15, Shape DEF Claim, At
  <2>2. req' \in [Slots -> SignInRequests]
    BY <1>15, <2>1, MovesTyped DEF Claim
  <2>3. /\ pair' \in [Devices -> Pairings]
        /\ \A e \in Devices : pair'[e].status \in {"approved", "claimed"}
              => pair[e].status \in {"approved", "claimed"} /\ pair'[e].user = pair[e].user
    <3>1. req[q].dev \in Devices /\ pair[req[q].dev] \in Pairings
      BY <2>1 DEF Minted, SignInTypes
    <3>2. \/ pair' = pair
          \/ /\ pair' = [pair EXCEPT ![req[q].dev] = Status(@, "claimed")]
             /\ pair[req[q].dev].status = "approved"
      BY <1>15, <3>1 DEF Claim, ClaimPairing, Status
    <3>3. PICK p \in Pairings : /\ pair' = pair \/ pair' = [pair EXCEPT ![req[q].dev] = p]
                                /\ p.user = pair[req[q].dev].user
                                /\ pair' # pair => pair[req[q].dev].status = "approved"
      <4>1. Status(pair[req[q].dev], "claimed") \in Pairings
        BY <3>1, PairingChanges
      <4>2. Status(pair[req[q].dev], "claimed").user = pair[req[q].dev].user
        BY <3>1, PairingChanges
      <4>3. QED
        BY <3>1, <3>2, <4>1, <4>2
    <3>4. QED
      BY <3>1, <3>3 DEF SignInTypes
  <2>4. QED
    BY <1>15, <2>2, <2>3 DEF Claim, SignInTypes
<1>16. ASSUME NEW q \in Slots, Stop(q) PROVE SignInTypes'
  BY <1>16, MovesTyped DEF Stop, SignInTypes, Disturbed
<1>17. ASSUME NEW q \in Slots, InsertLink(q) PROVE SignInTypes'
  <2>1. req[q] \in LinkRequests
    BY <1>17, Shape DEF InsertLink, At
  <2>2. [user |-> req[q].user, n |-> nextLink] \in Links
    BY <2>1 DEF LinkRequests, Links, SignInTypes
  <2>3. QED
    BY <1>17, <2>2, MovesTyped DEF InsertLink, SignInTypes
<1>18. ASSUME NEW q \in Slots, ConsumeLink(q) \/ SetUserPassword(q) \/ Revoke(q)
       PROVE  SignInTypes'
  <2>1. req[q] \in Resets
    BY <1>18, Shape DEF ConsumeLink, SetUserPassword, Revoke, At
  <2>2. req[q].user \in Users
    BY <2>1 DEF Resets
  <2>3. req' \in [Slots -> SignInRequests]
    BY <1>18, <2>1, MovesTyped, ResetCalls DEF ConsumeLink, SetUserPassword, Revoke
  <2>4. CASE ConsumeLink(q)
    BY <2>3, <2>4 DEF ConsumeLink, SignInTypes
  <2>5. CASE SetUserPassword(q)
    BY <2>2, <2>3, <2>5 DEF SetUserPassword, SignInTypes
  <2>6. CASE Revoke(q)
    <3>1. /\ rows \in [Users \X Devices -> RefreshRows] /\ calm \in [Devices -> BOOLEAN]
          /\ ended \in [Users -> Nat]
      BY DEF SignInTypes
    <3>2. rows' = rows \/ rows' = DeleteUserRefreshTokens(req[q].user)
      BY <2>6 DEF Revoke
    <3>3. rows' \in [Users \X Devices -> RefreshRows]
      BY <2>2, <3>1, <3>2, DeleteUserTyped
    <3>4. calm' = calm \/ calm' = Disturbed(DevicesOf(req[q].user))
      BY <2>6 DEF Revoke
    <3>5. calm' \in [Devices -> BOOLEAN]
      BY <3>1, <3>4 DEF Disturbed
    <3>6. ended' = ended \/ ended' = [ended EXCEPT ![req[q].user] = @ + 1]
      BY <2>6 DEF Revoke
    <3>7. ended' \in [Users -> Nat]
      BY <2>2, <3>1, <3>6
    <3>8. QED
      BY <2>3, <2>6, <3>3, <3>5, <3>7 DEF Revoke, SignInTypes
  <2>7. QED
    BY <1>18, <2>4, <2>5, <2>6
<1>19. ASSUME NEW q \in Slots, RefreshFails(q) PROVE SignInTypes'
  <2>1. req[q] \in ToMint /\ Goto(q, "refused")
    BY <1>19, Shape DEF RefreshFails, At
  <2>2. req' \in [Slots -> SignInRequests]
    BY <2>1, MovesTyped
  <2>3. QED
    BY <1>19, <2>2 DEF RefreshFails, authVars, SignInTypes
<1>20. CASE UNCHANGED vars
  BY <1>20 DEF vars, authVars, SignInTypes
<1>21. QED
  BY <1>1, <1>2, <1>3, <1>4, <1>5, <1>6, <1>7, <1>8, <1>9, <1>10, <1>11, <1>12, <1>13, <1>14,
     <1>15, <1>16, <1>17, <1>18, <1>19, <1>20 DEF Next

-----------------------------------------------------------------------------
(* Pairings: what the polls of one device have in hand.                    *)

Polls(d) ==
    {q \in Slots : /\ req[q].op = "mint" /\ req[q].dev = d
                   /\ req[q].why = "pair" \/ req[q].at = "claim"}

Excused(d) == {<<"poll", d>>, <<"unclaimed", d>>} \cap slips # {}

PairInv(d) ==
    /\ Polls(d) # {} => pair[d].status \in {"approved", "claimed"}
    /\ pair[d].status = "claimed" => served[d] >= 1
    /\ \A q \in Polls(d) :
          req[q].why = "pair" /\ (req[q].at = "claim" => served[d] >= 1)
    /\ ~Excused(d) =>
          /\ \A p, q \in Polls(d) : p = q
          /\ served[d] <= 1
          /\ \A q \in Polls(d) : req[q].at \in {"user", "save"} => served[d] = 0
          /\ served[d] = 1 => \/ pair[d].status = "claimed"
                              \/ \E q \in Polls(d) : req[q].at = "claim"

(* Steps that neither begin a poll nor take one over a write.              *)
PairFramed(d) ==
    /\ UNCHANGED <<pair[d].status, served[d]>> /\ slips \subseteq slips'
    /\ \A q \in Polls(d)' :
          /\ q \in Polls(d) /\ req'[q].why = req[q].why
          /\ req'[q].at = "claim" => req[q].at = "claim"
          /\ req'[q].at \in {"user", "save"} => req[q].at \in {"user", "save"}
    /\ \A q \in Polls(d) :
          req[q].at = "claim" => Excused(d)' \/ (q \in Polls(d)' /\ req'[q].at = "claim")

LEMMA PairFrame ==
    ASSUME NEW d \in Devices, PairInv(d), PairFramed(d)
    PROVE  PairInv(d)'
<1>1. Excused(d) => Excused(d)'
  BY DEF PairFramed, Excused
<1>2. QED
  BY <1>1 DEF PairFramed, PairInv

(* A slot that no poll of d holds before or after. *)
LEMMA ElsewhereFramesPair ==
    ASSUME SignInTypes, NEW d \in Devices, NEW q \in Slots, Elsewhere(q),
           q \notin Polls(d), q \notin Polls(d)',
           UNCHANGED <<pair[d].status, served[d]>>, slips \subseteq slips'
    PROVE  PairFramed(d)
<1>1. \A s \in Slots : s # q => req'[s] = req[s]
  BY OthersSame
<1>2. Polls(d)' = Polls(d) /\ \A s \in Polls(d) : req'[s] = req[s]
  BY <1>1 DEF Polls
<1>3. QED
  BY <1>2 DEF PairFramed

LEMMA PairInvKept ==
    ASSUME SignInTypes, [Next]_vars, NEW d \in Devices, PairInv(d)
    PROVE  PairInv(d)'
<1>0. SignInTypes' /\ DOMAIN req = Slots
  BY SignInTypesKept DEF SignInTypes
<1>a. ASSUME UNCHANGED <<req, slips, served>>, UNCHANGED pair[d].status PROVE PairInv(d)'
  BY <1>a, PairFrame DEF PairFramed, Polls, Excused
<1>b. ASSUME NEW q \in Slots, Elsewhere(q), q \notin Polls(d), q \notin Polls(d)',
             UNCHANGED <<pair[d].status, served[d]>>, slips \subseteq slips'
      PROVE  PairInv(d)'
  BY <1>b, ElsewhereFramesPair, PairFrame
<1>1. ASSUME NEW u \in Users, SetUserBanned(u) PROVE PairInv(d)'
  BY <1>1, <1>a DEF SetUserBanned
<1>2. ASSUME NEW e \in Devices, Logout(e) \/ AccessEnds(e) PROVE PairInv(d)'
  BY <1>2, <1>a DEF Logout, AccessEnds
<1>3. ASSUME NEW e \in Devices, PairStart(e) PROVE PairInv(d)'
  <2>1. UNCHANGED <<req, slips, served>>
    BY <1>3 DEF PairStart
  <2>2. CASE e # d
    BY <1>3, <1>a, <2>1, <2>2 DEF PairStart, SignInTypes
  <2>3. CASE e = d
    <3>1. pair[d].status = "none" /\ pair'[d].status = "pending"
      BY <1>3, <2>3 DEF PairStart, SignInTypes, Pairings
    <3>2. QED
      BY <2>1, <3>1 DEF PairInv, Polls, Excused
  <2>4. QED
    BY <2>2, <2>3
<1>4. ASSUME NEW e \in Devices, PairExpires(e) PROVE PairInv(d)'
  <2>1. UNCHANGED <<req, slips, served>> /\ UNCHANGED pair[d].status
    BY <1>4 DEF PairExpires, SignInTypes, Pairings
  <2>2. QED
    BY <1>a, <2>1
<1>5. ASSUME NEW e \in Devices, NEW f \in Devices, PairApprove(e, f) PROVE PairInv(d)'
  <2>1. UNCHANGED <<req, slips, served>>
    BY <1>5 DEF PairApprove
  <2>2. CASE e # d
    BY <1>5, <1>a, <2>1, <2>2 DEF PairApprove, SignInTypes
  <2>3. CASE e = d
    <3>1. pair[d].status = "pending" /\ pair'[d].status = "approved"
      BY <1>5, <2>3 DEF PairApprove, SignInTypes
    <3>2. QED
      BY <2>1, <3>1 DEF PairInv, Polls, Excused
  <2>4. QED
    BY <2>2, <2>3
<1>6. ASSUME NEW q \in Slots, NEW u \in Users, AdminReset(q, u) PROVE PairInv(d)'
  <2>1. Elsewhere(q) /\ req[q].op = "free" /\ req'[q].op = "link"
    BY <1>6, InsertLinkTyped, FreeIsFree DEF LinkRequests
  <2>2. QED
    BY <1>6, <1>b, <2>1 DEF AdminReset, Polls
<1>7. ASSUME NEW q \in Slots, NEW e \in Devices, NEW u \in Users, Login(q, e, u)
      PROVE  PairInv(d)'
  <2>1. Elsewhere(q) /\ req[q].op = "free" /\ req'[q].why = "login" /\ req'[q].at = "save"
    <3>1. /\ Elsewhere(q) /\ req[q] = Free
          /\ req'[q] = [op |-> "mint", at |-> "save", why |-> "login", user |-> u, dev |-> e,
                        gen |-> pw[u], past |-> "none", ended |-> ended[u]]
      BY <1>7, LoginBegins, BegunAs
    <3>2. QED
      BY <3>1, FreeIsFree
  <2>2. QED
    BY <1>7, <1>b, <2>1 DEF Login, Polls
<1>8. ASSUME NEW q \in Slots, NEW e \in Devices, Refresh(q, e) PROVE PairInv(d)'
  <2>1. PICK at \in {"user", "refused"}, gen \in Nat, past \in Pasts :
           held[e].user \in Users /\ BeginMint(q, e, held[e].user, at, "refresh", gen, past)
    BY <1>8, RefreshBegins
  <2>2. Elsewhere(q) /\ req[q].op = "free" /\ req'[q].why = "refresh" /\ req'[q].at # "claim"
    <3>1. /\ Elsewhere(q) /\ req[q] = Free
          /\ req'[q] = [op |-> "mint", at |-> at, why |-> "refresh", user |-> held[e].user,
                        dev |-> e, gen |-> gen, past |-> past, ended |-> ended[held[e].user]]
      BY <2>1, BeginMintTyped DEF Reasons
    <3>2. QED
      BY <3>1, FreeIsFree
  <2>3. QED
    BY <1>8, <1>b, <2>2 DEF Refresh, Polls
<1>9. ASSUME NEW q \in Slots, NEW e \in Devices, PairPoll(q, e) PROVE PairInv(d)'
  <2>1. /\ Elsewhere(q) /\ req[q].op = "free"
        /\ req'[q].op = "mint" /\ req'[q].dev = e /\ req'[q].why = "pair" /\ req'[q].at = "user"
    <3>1. /\ Elsewhere(q) /\ req[q] = Free
          /\ req'[q] = [op |-> "mint", at |-> "user", why |-> "pair", user |-> pair[e].user,
                        dev |-> e, gen |-> pair[e].gen, past |-> "none",
                        ended |-> ended[pair[e].user]]
      BY <1>9, PollBegins, BegunAs
    <3>2. QED
      BY <3>1, FreeIsFree
  <2>2. /\ UNCHANGED <<pair, served>> /\ slips \subseteq slips'
        /\ pair[e].status = "approved"
        /\ (\E s \in Polls(e) : req[s].why = "pair") => <<"poll", e>> \in slips'
    BY <1>9 DEF PairPoll, Waiting, Polls
  <2>3. CASE e # d
    BY <1>b, <2>1, <2>2, <2>3 DEF Polls
  <2>4. CASE e = d
    <3>1. \A s \in Slots : s # q => req'[s] = req[s]
      BY <2>1, OthersSame
    <3>2. Polls(d)' = Polls(d) \cup {q} /\ q \notin Polls(d)
          /\ \A s \in Polls(d) : req'[s] = req[s]
      BY <2>1, <2>4, <3>1 DEF Polls
    <3>3. ~Excused(d)' => ~Excused(d) /\ Polls(d) = {}
      BY <2>2, <2>4 DEF Excused, PairInv
    <3>4. served[d] \in Nat
      BY DEF SignInTypes
    <3>5. QED
      BY <2>1, <2>2, <2>4, <3>2, <3>3, <3>4 DEF PairInv
  <2>5. QED
    BY <2>3, <2>4
<1>10. ASSUME NEW l \in links, LinkExpires(l) PROVE PairInv(d)'
  BY <1>10, <1>a DEF LinkExpires
<1>11. ASSUME NEW l \in links, NEW q \in Slots, DoReset(q, l) PROVE PairInv(d)'
  <2>1. Elsewhere(q) /\ req[q].op = "free" /\ req'[q].op = "reset"
    BY <1>11, DoResetTyped, FreeIsFree DEF Resets
  <2>2. UNCHANGED <<pair, served, slips>>
    BY <1>11 DEF DoReset, authVars
  <2>3. QED
    BY <1>b, <2>1, <2>2 DEF Polls
<1>12. ASSUME NEW q \in Slots, ReadUser(q) \/ RefreshFails(q) PROVE PairInv(d)'
  <2>1. req[q] \in ToMint /\ req[q].op = "mint" /\ req[q].at \in {"user", "save"}
    BY <1>12, Shape DEF ReadUser, RefreshFails, At
  <2>2. UNCHANGED <<pair, served, slips>> /\ Elsewhere(q)
    BY <1>12, <2>1, MovesTyped DEF ReadUser, RefreshFails, authVars
  <2>3. \/ req'[q] = Free
        \/ /\ req'[q].op = "mint" /\ req'[q].dev = req[q].dev /\ req'[q].why = req[q].why
           /\ req'[q].at \in {"save", "refused"}
    BY <1>12, <2>1, MovesTyped DEF ReadUser, RefreshFails
  <2>4. \A s \in Slots : s # q => req'[s] = req[s]
    BY <2>2, OthersSame
  <2>5. PairFramed(d)
    BY <2>1, <2>2, <2>3, <2>4, FreeIsFree DEF PairFramed, Polls
  <2>6. QED
    BY <2>5, PairFrame
<1>13. ASSUME NEW q \in Slots, Mint(q) PROVE PairInv(d)'
  <2>1. /\ req[q].op = "mint" /\ req[q].at = "save" /\ Elsewhere(q) /\ req'[q].op = "mint"
        /\ req'[q].dev = req[q].dev /\ req'[q].why = req[q].why /\ req[q].dev \in Devices
        /\ req'[q].at = IF req[q].why = "pair" THEN "claim" ELSE "answer"
    BY <1>13, MintTyped DEF Mint, At, ToMint, Minted
  <2>2. UNCHANGED <<pair, slips>>
    BY <1>13 DEF Mint
  <2>3. served' = IF req[q].why = "pair" THEN [served EXCEPT ![req[q].dev] = @ + 1] ELSE served
    BY <1>13 DEF Mint
  <2>4. served \in [Devices -> Nat]
    BY DEF SignInTypes
  <2>5. CASE q \notin Polls(d)
    <3>1. q \notin Polls(d)' /\ served'[d] = served[d]
      BY <2>1, <2>3, <2>4, <2>5 DEF Polls
    <3>2. QED
      BY <1>b, <2>1, <2>2, <2>5, <3>1
  <2>6. CASE q \in Polls(d)
    <3>1. req[q].why = "pair" /\ req[q].dev = d
      BY <2>1, <2>6 DEF Polls
    <3>2. served'[d] = served[d] + 1 /\ req'[q].at = "claim"
      BY <2>1, <2>3, <2>4, <3>1
    <3>3. \A s \in Slots : s # q => req'[s] = req[s]
      BY <2>1, OthersSame
    <3>4. Polls(d)' = Polls(d)
      BY <2>1, <3>1, <3>3 DEF Polls
    <3>5. Excused(d)' <=> Excused(d)
      BY <2>2 DEF Excused
    <3>6. ~Excused(d) => served[d] = 0 /\ Polls(d) = {q}
      BY <2>1, <2>6 DEF PairInv
    <3>7. /\ pair[d].status \in {"approved", "claimed"}
          /\ \A s \in Polls(d)' : s \in Polls(d) /\ req'[s].why = "pair"
      <4>1. \A s \in Polls(d) : s \in Slots /\ req[s].why = "pair"
        BY DEF PairInv, Polls
      <4>2. pair[d].status \in {"approved", "claimed"}
        BY <2>6 DEF PairInv
      <4>3. QED
        BY <2>1, <3>1, <3>3, <3>4, <4>1, <4>2
    <3>8. ~Excused(d)' => /\ served'[d] = 1
                          /\ \A s \in Polls(d)' : s = q
                          /\ q \in Polls(d)' /\ req'[q].at = "claim"
      BY <2>6, <3>2, <3>4, <3>5, <3>6
    <3>9. served'[d] >= 1
      BY <2>4, <3>2
    <3>10. QED
      <4>1. pair'[d].status \in {"approved", "claimed"}
        BY <2>2, <3>7
      <4>2. ~Excused(d)' => \A s \in Polls(d)' : req'[s].at \notin {"user", "save"}
        BY <3>8
      <4>3. ~Excused(d)' =>
                /\ \A s, t \in Polls(d)' : s = t
                /\ served'[d] <= 1
                /\ \A s \in Polls(d)' : req'[s].at \in {"user", "save"} => served'[d] = 0
                /\ \E s \in Polls(d)' : req'[s].at = "claim"
        <5> SUFFICES ASSUME ~Excused(d)'
                     PROVE  /\ \A s, t \in Polls(d)' : s = t
                            /\ served'[d] <= 1
                            /\ \A s \in Polls(d)' :
                                  req'[s].at \in {"user", "save"} => served'[d] = 0
                            /\ \E s \in Polls(d)' : req'[s].at = "claim"
          OBVIOUS
        <5>1. \A s, t \in Polls(d)' : s = t
          BY <3>8
        <5>2. served'[d] <= 1
          BY <3>8
        <5>3. \A s \in Polls(d)' : req'[s].at \in {"user", "save"} => served'[d] = 0
          BY <4>2
        <5>4. \E s \in Polls(d)' : req'[s].at = "claim"
          BY <3>8
        <5>5. QED
          BY <5>1, <5>2, <5>3, <5>4
      <4>4. \A s \in Polls(d)' : req'[s].why = "pair" /\ (req'[s].at = "claim" => served'[d] >= 1)
        BY <3>7, <3>8, <3>9
      <4>5. QED
        BY <3>9, <4>1, <4>3, <4>4 DEF PairInv
  <2>7. QED
    BY <2>5, <2>6
<1>14. ASSUME NEW q \in Slots, Deliver(q) PROVE PairInv(d)'
  <2>1. /\ req[q].op = "mint" /\ req[q].at \in {"answer", "refused"}
        /\ Elsewhere(q) /\ req'[q] = Free /\ UNCHANGED <<pair, served, slips>>
    BY <1>14, MovesTyped DEF Deliver, At
  <2>2. \A s \in Slots : s # q => req'[s] = req[s]
    BY <2>1, OthersSame
  <2>3. PairFramed(d)
    BY <2>1, <2>2, FreeIsFree DEF PairFramed, Polls
  <2>4. QED
    BY <2>3, PairFrame
<1>15. ASSUME NEW q \in Slots, Claim(q) PROVE PairInv(d)'
  <2>1. /\ req[q].op = "mint" /\ req[q].at = "claim" /\ Elsewhere(q) /\ req'[q].op = "mint"
        /\ req'[q].at = "answer" /\ req'[q].dev = req[q].dev /\ req'[q].why = req[q].why
        /\ req[q].dev \in Devices /\ UNCHANGED served
    <3>1. req[q] \in Minted /\ req[q].op = "mint" /\ req[q].at = "claim"
      BY <1>15, Shape DEF Claim, At
    <3>2. Goto(q, "answer") /\ UNCHANGED served
      BY <1>15 DEF Claim
    <3>3. QED
      BY <3>1, <3>2, MovesTyped DEF Minted
  <2>2. \/ pair' = ClaimPairing(req[q].dev) /\ UNCHANGED slips
        \/ slips' = slips \cup {<<"unclaimed", req[q].dev>>} /\ UNCHANGED pair
    BY <1>15 DEF Claim
  <2>3. \A s \in Slots : s # q => req'[s] = req[s]
    BY <2>1, OthersSame
  <2>4. CASE req[q].dev # d
    <3>1. pair'[d].status = pair[d].status /\ slips \subseteq slips'
      BY <2>1, <2>2, <2>4 DEF ClaimPairing, SignInTypes
    <3>2. q \notin Polls(d) /\ q \notin Polls(d)'
      BY <2>1, <2>4 DEF Polls
    <3>3. QED
      BY <1>b, <2>1, <3>1, <3>2
  <2>5. CASE req[q].dev = d
    <3>1. q \in Polls(d) /\ served[d] >= 1 /\ pair[d].status \in {"approved", "claimed"}
      BY <2>1, <2>5 DEF Polls, PairInv
    <3>2. \/ pair'[d].status = "claimed" /\ UNCHANGED slips
          \/ <<"unclaimed", d>> \in slips' /\ slips \subseteq slips' /\ UNCHANGED pair
      <4>1. pair \in [Devices -> Pairings] /\ pair[d] \in Pairings
        BY DEF SignInTypes
      <4>2. Status(pair[d], "claimed").status = "claimed"
        BY <4>1, PairingChanges
      <4>3. pair' = ClaimPairing(d) => pair'[d].status = "claimed"
        BY <3>1, <4>1, <4>2 DEF ClaimPairing, Status
      <4>4. QED
        BY <2>2, <2>5, <4>3
    <3>3. \A s \in Polls(d)' : s \in Polls(d) /\ (s # q => req'[s] = req[s])
      BY <2>1, <2>3, <2>5, <3>1 DEF Polls
    <3>4. ~Excused(d)' => ~Excused(d) /\ pair'[d].status = "claimed"
      BY <3>2 DEF Excused
    <3>5. pair'[d].status \in {"approved", "claimed"}
      BY <3>1, <3>2
    <3>6. served'[d] = served[d] /\ req'[q].at = "answer"
      BY <2>1
    <3>7. QED
      <4>1. ~Excused(d) => /\ \A s \in Polls(d) : s = q
                           /\ served[d] <= 1
        BY <3>1 DEF PairInv
      <4>2. \A s \in Polls(d)' : req'[s].at = "claim" => served'[d] >= 1
        BY <3>1, <3>6
      <4>3. \A s \in Polls(d)' : req'[s].why = "pair"
        BY <2>1, <3>1, <3>3 DEF PairInv
      <4>4. ~Excused(d)' => /\ \A s \in Polls(d)' : s = q
                            /\ served'[d] <= 1 /\ pair'[d].status = "claimed"
                            /\ req'[q].at = "answer"
        BY <3>3, <3>4, <3>6, <4>1
      <4>5. QED
        BY <3>1, <3>5, <3>6, <4>2, <4>3, <4>4 DEF PairInv
  <2>6. QED
    BY <2>4, <2>5
<1>16. ASSUME NEW q \in Slots, Stop(q) PROVE PairInv(d)'
  <2>1. /\ Elsewhere(q) /\ req'[q] = Free /\ UNCHANGED <<pair, served>>
        /\ slips' = slips \cup Unfinished(q)
    BY <1>16, MovesTyped DEF Stop
  <2>2. \A s \in Slots : s # q => req'[s] = req[s]
    BY <2>1, OthersSame
  <2>3. q \in Polls(d) /\ req[q].at = "claim" => <<"unclaimed", d>> \in Unfinished(q)
    BY DEF Polls, Unfinished, At
  <2>4. PairFramed(d)
    <3>1. \A s \in Polls(d)' : s \in Polls(d) /\ req'[s] = req[s]
      BY <2>1, <2>2, FreeIsFree DEF Polls
    <3>2. \A s \in Polls(d) : s # q => s \in Polls(d)' /\ req'[s] = req[s]
      BY <2>2 DEF Polls
    <3>3. q \in Polls(d) /\ req[q].at = "claim" => Excused(d)'
      BY <2>1, <2>3 DEF Excused
    <3>4. QED
      BY <2>1, <3>1, <3>2, <3>3 DEF PairFramed
  <2>5. QED
    BY <2>4, PairFrame
<1>17. ASSUME NEW q \in Slots, InsertLink(q) PROVE PairInv(d)'
  <2>1. /\ req[q].op = "link" /\ Elsewhere(q) /\ req'[q].op = "free"
        /\ UNCHANGED <<pair, served, slips>>
    BY <1>17, MovesTyped, FreeIsFree DEF InsertLink, At
  <2>2. QED
    BY <1>b, <2>1 DEF Polls
<1>18. ASSUME NEW q \in Slots, ConsumeLink(q) \/ SetUserPassword(q) \/ Revoke(q)
       PROVE  PairInv(d)'
  <2>1. req[q] \in Resets /\ req[q].op = "reset"
    BY <1>18, Shape DEF ConsumeLink, SetUserPassword, Revoke, At
  <2>2. UNCHANGED <<pair, served>> /\ slips \subseteq slips'
    BY <1>18 DEF ConsumeLink, SetUserPassword, Revoke
  <2>3. Done(q) \/ Goto(q, "password") \/ Goto(q, "revoke")
    BY <1>18, ResetCalls DEF ConsumeLink, SetUserPassword, Revoke
  <2>4. Elsewhere(q) /\ req'[q].op \in {"free", "reset"}
    BY <2>1, <2>3, MovesTyped, FreeIsFree
  <2>5. QED
    BY <1>b, <2>1, <2>2, <2>4 DEF Polls
<1>19. CASE UNCHANGED vars
  BY <1>19, <1>a DEF vars, authVars
<1>20. QED
  BY <1>1, <1>2, <1>3, <1>4, <1>5, <1>6, <1>7, <1>8, <1>9, <1>10, <1>11, <1>12, <1>13, <1>14,
     <1>15, <1>16, <1>17, <1>18, <1>19 DEF Next

-----------------------------------------------------------------------------
(* Sessions and resets.  The property is inductive once a request that has *)
(* read the password, or a session, but not saved its token yet is told    *)
(* about as well: if what it read is of a replaced password, either the    *)
(* revocation is to come or it came in between.                            *)

Keys == Users \X Devices

Revoking(q) == At(q, "reset", "revoke")

RowKnown(k) ==
    rows[k].gen < pw[k[1]] /\ rows[k] # NoRow => rows[k].past # "none" \/ Unrevoked(k[1])

(* The token r would save is one that only a revocation to come excuses.   *)
Outdated(r) ==
    /\ r.at \in {"user", "save"} /\ r.why # "pair"
    /\ r.gen < pw[r.user] /\ r.past = "none" /\ r.ended = ended[r.user]

RequestKnown(q) ==
    req[q] \in ToMint => /\ req[q].ended <= ended[req[q].user]
                         /\ Outdated(req[q]) => Unrevoked(req[q].user)

ResetInv ==
    /\ \A k \in Keys : RowKnown(k)
    /\ \A q \in Slots : RequestKnown(q)

(* Steps after which no session is newer, no password changed, nothing     *)
(* was revoked, and a revocation under way is still under way or is known  *)
(* to have failed.                                                         *)
ResetFramed ==
    /\ \A k \in Keys : rows'[k] \in {rows[k], NoRow}
    /\ UNCHANGED <<pw, ended>>
    /\ \A u \in Users : Unrevoked(u) => Unrevoked(u)'

LEMMA RowsFrame ==
    ASSUME ResetInv, ResetFramed
    PROVE  \A k \in Keys : RowKnown(k)'
<1> SUFFICES ASSUME NEW k \in Keys PROVE RowKnown(k)'
  OBVIOUS
<1>1. RowKnown(k) /\ k[1] \in Users
  BY DEF ResetInv, Keys
<1>2. rows'[k] \in {rows[k], NoRow} /\ pw' = pw /\ (Unrevoked(k[1]) => Unrevoked(k[1])')
  BY <1>1 DEF ResetFramed
<1>3. QED
  BY <1>1, <1>2 DEF RowKnown

(* A request that another slot's step leaves alone. *)
LEMMA RequestFrame ==
    ASSUME ResetInv, ResetFramed, NEW q \in Slots, req'[q] = req[q]
    PROVE  RequestKnown(q)'
<1>1. RequestKnown(q) /\ (req[q] \in ToMint => req[q].user \in Users)
  BY DEF ResetInv, ToMint
<1>2. UNCHANGED <<pw, ended>> /\ \A u \in Users : Unrevoked(u) => Unrevoked(u)'
  BY DEF ResetFramed
<1>3. Outdated(req[q])' <=> Outdated(req[q])
  BY <1>2 DEF Outdated
<1>4. QED
  BY <1>1, <1>2, <1>3 DEF RequestKnown

(* A slot is written, and what it holds now is known. *)
LEMMA SlotFrame ==
    ASSUME ResetInv, ResetFramed, NEW q \in Slots, Elsewhere(q), RequestKnown(q)'
    PROVE  ResetInv'
<1>1. \A s \in Slots : s # q => RequestKnown(s)'
  BY OthersSame, RequestFrame
<1>2. QED
  BY <1>1, RowsFrame DEF ResetInv

(* Where nothing was being revoked, a revocation under way goes on. *)
LEMMA ElsewhereRevokes ==
    ASSUME NEW q \in Slots, Elsewhere(q), ~Revoking(q), slips \subseteq slips', NEW u
    PROVE  Unrevoked(u) => Unrevoked(u)'
<1>1. \A s \in Slots : Revoking(s) => req'[s] = req[s]
  BY OthersSame
<1>2. QED
  BY <1>1 DEF Unrevoked, Revoking, At

(* What ends, or is not there to mint, is known. *)
LEMMA OtherKnown ==
    ASSUME NEW q \in Slots, req'[q] \notin ToMint
    PROVE  RequestKnown(q)'
BY DEF RequestKnown

LEMMA NotToMint ==
    ASSUME NEW r, r = Free \/ r \in Minted \/ r \in LinkRequests \/ r \in Resets
    PROVE  r \notin ToMint
<1>1. r \in ToMint => r.op = "mint" /\ r.at \in {"user", "save", "refused"}
  BY DEF ToMint
<1>2. r = Free => r.op # "mint"
  BY FreeIsFree
<1>3. r \in Minted => r.at \notin {"user", "save", "refused"}
  BY DEF Minted
<1>4. r \in LinkRequests \cup Resets => r.op # "mint"
  BY DEF LinkRequests, Resets
<1>5. QED
  BY <1>1, <1>2, <1>3, <1>4

(* A request goes on with what it read. *)
LEMMA GoesOnKnown ==
    ASSUME SignInTypes, ResetInv, ResetFramed, NEW q \in Slots,
           At(q, "mint", "user") \/ At(q, "mint", "save"), NEW at \in {"save", "refused"}, Goto(q, at)
    PROVE  RequestKnown(q)' /\ Elsewhere(q)
<1>1. /\ req[q] \in ToMint /\ req[q].user \in Users /\ req[q].at \in {"user", "save"}
      /\ RequestKnown(q)
  BY Shape DEF At, ToMint, ResetInv
<1>2. PICK u \in Users : u = req[q].user
  BY <1>1
<1>3. /\ Elsewhere(q) /\ req'[q].at = at /\ req'[q].user = u
      /\ req'[q].why = req[q].why /\ Kin(q)
  BY <1>1, <1>2, MovesTyped DEF At
<1>4. /\ UNCHANGED <<pw, ended>> /\ (Unrevoked(u) => Unrevoked(u)')
      /\ req[q].ended <= ended[u] /\ (Outdated(req[q]) => Unrevoked(u))
  BY <1>1, <1>2 DEF ResetFramed, RequestKnown
<1>5. Outdated(req[q])' => Outdated(req[q])
  BY <1>1, <1>2, <1>3, <1>4 DEF Outdated, Kin
<1>6. QED
  BY <1>2, <1>3, <1>4, <1>5 DEF RequestKnown, Kin

(* A request that begins has read the password of the day, comes of a      *)
(* session that is known, or is a poll.                                    *)
LEMMA BegunKnown ==
    ASSUME SignInTypes, ResetInv, ResetFramed, NEW q \in Slots, NEW d \in Devices,
           (\E u \in Users : Login(q, d, u)) \/ Refresh(q, d) \/ PairPoll(q, d)
    PROVE  RequestKnown(q)'
<1>0. UNCHANGED <<pw, ended>> /\ \A u \in Users : Unrevoked(u) => Unrevoked(u)'
  BY DEF ResetFramed
<1>a. ended \in [Users -> Nat]
  BY DEF SignInTypes
<1>1. ASSUME NEW u \in Users, Login(q, d, u) PROVE RequestKnown(q)'
  <2>1. req'[q].user = u /\ req'[q].gen = pw[u] /\ req'[q].ended = ended[u] /\ pw[u] \in Nat
    <3>1. BeginMint(q, d, u, "save", "login", pw[u], "none") /\ pw[u] \in Nat
      BY <1>1, LoginBegins
    <3>2. req'[q] = [op |-> "mint", at |-> "save", why |-> "login", user |-> u, dev |-> d,
                     gen |-> pw[u], past |-> "none", ended |-> ended[u]]
      BY <3>1, BegunAs
    <3>3. QED
      BY <3>1, <3>2
  <2>2. ~Outdated(req[q])' /\ req'[q].ended <= ended'[req'[q].user]
    BY <1>0, <1>a, <2>1 DEF Outdated
  <2>3. QED
    BY <2>2 DEF RequestKnown
<1>2. ASSUME PairPoll(q, d) PROVE RequestKnown(q)'
  <2>1. req'[q].user = pair[d].user /\ req'[q].why = "pair"
        /\ req'[q].ended = ended[pair[d].user] /\ pair[d].user \in Users
    <3>1. pair[d].user \in Users /\ pair[d].gen \in Nat
          /\ BeginMint(q, d, pair[d].user, "user", "pair", pair[d].gen, "none")
      BY <1>2, PollBegins
    <3>2. req'[q] = [op |-> "mint", at |-> "user", why |-> "pair", user |-> pair[d].user, dev |-> d,
                     gen |-> pair[d].gen, past |-> "none", ended |-> ended[pair[d].user]]
      BY <3>1, BegunAs
    <3>3. QED
      BY <3>1, <3>2
  <2>2. ~Outdated(req[q])' /\ req'[q].ended <= ended'[req'[q].user]
    BY <1>0, <1>a, <2>1 DEF Outdated
  <2>3. QED
    BY <2>2 DEF RequestKnown
<1>3. ASSUME Refresh(q, d) PROVE RequestKnown(q)'
  <2>1. PICK u \in Users : u = held[d].user
    BY <1>3, RefreshBegins
  <2>2. PICK at \in {"user", "refused"}, gen \in Nat, past \in Pasts :
           /\ BeginMint(q, d, u, at, "refresh", gen, past)
           /\ gen = rows[<<u, d>>].gen /\ past = rows[<<u, d>>].past
           /\ at = "user" => rows[<<u, d>>] # NoRow
    BY <1>3, <2>1, RefreshBegins
  <2>3. req'[q] = [op |-> "mint", at |-> at, why |-> "refresh", user |-> u, dev |-> d,
                   gen |-> gen, past |-> past, ended |-> ended[u]]
    BY <2>2, BegunAs
  <2>4. RowKnown(<<u, d>>)
    BY DEF ResetInv, Keys
  <2>5. at = "user" /\ gen < pw[u] /\ past = "none" => Unrevoked(u)
    BY <2>2, <2>4 DEF RowKnown
  <2>6. /\ req'[q].user = u /\ req'[q].at = at /\ req'[q].gen = gen /\ req'[q].past = past
        /\ req'[q].ended = ended[u]
    BY <2>3
  <2>7. Outdated(req[q])' => Unrevoked(u)'
    BY <1>0, <2>2, <2>5, <2>6 DEF Outdated
  <2>8. req'[q].ended <= ended'[req'[q].user]
    BY <1>0, <1>a, <2>6
  <2>9. QED
    BY <2>6, <2>7, <2>8 DEF RequestKnown
<1>4. QED
  BY <1>1, <1>2, <1>3

LEMMA ResetInvKept ==
    ASSUME SignInTypes, [Next]_vars, ResetInv
    PROVE  ResetInv'
<1>0. SignInTypes' /\ DOMAIN req = Slots
  BY SignInTypesKept DEF SignInTypes
<1>a. ASSUME UNCHANGED <<req, slips, pw, ended>>, \A k \in Keys : rows'[k] \in {rows[k], NoRow}
      PROVE  ResetInv'
  <2>1. \A u \in Users : Unrevoked(u) => Unrevoked(u)'
    BY <1>a DEF Unrevoked, At
  <2>2. ResetFramed
    BY <1>a, <2>1 DEF ResetFramed
  <2>3. \A q \in Slots : RequestKnown(q)'
    BY <1>a, <2>2, RequestFrame
  <2>4. QED
    BY <2>2, <2>3, RowsFrame DEF ResetInv
<1>b. ASSUME NEW q \in Slots, Elsewhere(q), ~Revoking(q), UNCHANGED <<pw, ended>>,
             slips \subseteq slips', \A k \in Keys : rows'[k] \in {rows[k], NoRow}
      PROVE  ResetFramed
  BY <1>b, ElsewhereRevokes DEF ResetFramed
<1>c. ASSUME NEW q \in Slots, Elsewhere(q), ~Revoking(q), UNCHANGED <<pw, ended>>,
             slips \subseteq slips', \A k \in Keys : rows'[k] \in {rows[k], NoRow},
             req'[q] \notin ToMint
      PROVE  ResetInv'
  BY <1>b, <1>c, OtherKnown, SlotFrame
<1>1. ASSUME NEW u \in Users, SetUserBanned(u) PROVE ResetInv'
  BY <1>1, <1>a DEF SetUserBanned
<1>2. ASSUME NEW d \in Devices, Logout(d) PROVE ResetInv'
  <2>1. rows' = rows \/ (acc[d].user \in Users /\ rows' = DeleteRefreshToken(acc[d].user, d))
    BY <1>2 DEF Logout, SignInTypes
  <2>2. \A k \in Keys : rows'[k] \in {rows[k], NoRow}
    BY <2>1, DeleteWithin DEF Keys
  <2>3. QED
    BY <1>2, <1>a, <2>2 DEF Logout
<1>3. ASSUME NEW d \in Devices, AccessEnds(d) \/ PairStart(d) \/ PairExpires(d)
      PROVE  ResetInv'
  BY <1>3, <1>a DEF AccessEnds, PairStart, PairExpires
<1>4. ASSUME NEW d \in Devices, NEW e \in Devices, PairApprove(d, e) PROVE ResetInv'
  BY <1>4, <1>a DEF PairApprove
<1>5. ASSUME NEW q \in Slots, NEW u \in Users, AdminReset(q, u) PROVE ResetInv'
  <2>1. Elsewhere(q) /\ ~Revoking(q) /\ req'[q] \notin ToMint
    BY <1>5, InsertLinkTyped, FreeIsFree, NotToMint DEF Revoking, At
  <2>2. QED
    BY <1>5, <1>c, <2>1 DEF AdminReset
<1>6. ASSUME NEW q \in Slots, NEW d \in Devices,
             (\E u \in Users : Login(q, d, u)) \/ Refresh(q, d) \/ PairPoll(q, d)
      PROVE  ResetInv'
  <2>1. Elsewhere(q) /\ req[q] = Free
    BY <1>6, MintBegins, BegunAs
  <2>2. ~Revoking(q)
    BY <2>1, FreeIsFree DEF Revoking, At
  <2>3. UNCHANGED <<pw, ended, rows>> /\ slips \subseteq slips'
    BY <1>6 DEF Login, Refresh, PairPoll
  <2>4. ResetFramed
    BY <1>b, <2>1, <2>2, <2>3
  <2>5. QED
    BY <1>6, <2>1, <2>4, BegunKnown, SlotFrame
<1>7. ASSUME NEW l \in links, LinkExpires(l) PROVE ResetInv'
  BY <1>7, <1>a DEF LinkExpires
<1>8. ASSUME NEW l \in links, NEW q \in Slots, DoReset(q, l) PROVE ResetInv'
  <2>1. Elsewhere(q) /\ ~Revoking(q) /\ req'[q] \notin ToMint
    BY <1>8, DoResetTyped, FreeIsFree, NotToMint DEF Revoking, At
  <2>2. UNCHANGED <<rows, pw, ended, slips>>
    BY <1>8 DEF DoReset, authVars
  <2>3. QED
    BY <1>c, <2>1, <2>2
<1>9. ASSUME NEW q \in Slots, ReadUser(q) \/ RefreshFails(q) PROVE ResetInv'
  <2>1. /\ req[q] \in ToMint /\ ~Revoking(q) /\ req[q].user \in Users /\ req[q].dev \in Devices
        /\ At(q, "mint", "user") \/ At(q, "mint", "save")
    BY <1>9, Shape DEF ReadUser, RefreshFails, At, Revoking, ToMint
  <2>2. UNCHANGED <<pw, ended, slips>>
    BY <1>9 DEF ReadUser, RefreshFails, authVars
  <2>3. rows' = rows \/ rows' = DeleteRefreshToken(req[q].user, req[q].dev)
    BY <1>9 DEF ReadUser, RefreshFails, authVars
  <2>4. \A k \in Keys : rows'[k] \in {rows[k], NoRow}
    BY <2>1, <2>3, DeleteWithin DEF Keys
  <2>5. CASE Done(q)
    BY <1>c, <2>1, <2>2, <2>4, <2>5, MovesTyped, NotToMint
  <2>6. ASSUME NEW at \in {"save", "refused"}, Goto(q, at) PROVE ResetInv'
    <3>1. Elsewhere(q)
      BY <1>0, <2>6, SlotWrites
    <3>2. ResetFramed
      BY <1>b, <2>1, <2>2, <2>4, <3>1
    <3>3. QED
      BY <2>1, <2>6, <3>1, <3>2, GoesOnKnown, SlotFrame
  <2>7. Done(q) \/ Goto(q, "save") \/ Goto(q, "refused")
    BY <1>9 DEF ReadUser, RefreshFails
  <2>8. QED
    BY <2>5, <2>6, <2>7
<1>10. ASSUME NEW q \in Slots, Mint(q) PROVE ResetInv'
  <2>1. PICK r \in ToMint : /\ r = req[q] /\ req'[q] \in Minted /\ Elsewhere(q)
           /\ rows' = [rows EXCEPT ![<<r.user, r.dev>>] =
                         [id |-> nextId, gen |-> r.gen, past |-> Past(r)]]
    BY <1>10, MintTyped
  <2>2. PICK u \in Users : u = r.user
    BY <2>1 DEF ToMint
  <2>3. PICK key \in Keys : key = <<u, r.dev>>
    BY <2>1, <2>2 DEF ToMint, Keys
  <2>4. r.at = "save" /\ ~Revoking(q) /\ UNCHANGED <<pw, ended, slips>>
    BY <1>10, <2>1 DEF Mint, At, Revoking
  <2>5. \A v \in Users : Unrevoked(v) => Unrevoked(v)'
    BY <2>1, <2>4, ElsewhereRevokes
  <2>6. /\ rows'[key].gen = r.gen /\ rows'[key].past = Past(r)
        /\ \A k \in Keys : k # key => rows'[k] = rows[k]
    BY <2>1, <2>2, <2>3 DEF SignInTypes, Keys
  <2>7. RowKnown(key)'
    <3>1. r.gen \in Nat /\ pw[u] \in Nat
      BY DEF ToMint, SignInTypes
    <3>2. r.gen < pw[u] /\ Past(r) = "none" => Outdated(r)
      BY <2>2, <2>4, <3>1 DEF Past, Outdated
    <3>3. Outdated(r) => Unrevoked(u)
      BY <2>1, <2>2 DEF ResetInv, RequestKnown
    <3>4. key[1] = u
      BY <2>3
    <3>5. QED
      BY <2>4, <2>5, <2>6, <3>2, <3>3, <3>4 DEF RowKnown
  <2>8. ASSUME NEW k \in Keys, k # key PROVE RowKnown(k)'
    <3>1. RowKnown(k) /\ k[1] \in Users /\ rows'[k] = rows[k]
      BY <2>6, <2>8 DEF ResetInv, Keys
    <3>2. QED
      BY <2>4, <2>5, <3>1 DEF RowKnown
  <2>9. ASSUME NEW s \in Slots, s # q PROVE RequestKnown(s)'
    <3>1. RequestKnown(s) /\ (req[s] \in ToMint => req[s].user \in Users)
      BY DEF ResetInv, ToMint
    <3>2. req'[s] = req[s]
      BY <2>1, <2>9, OthersSame
    <3>3. Outdated(req[s])' <=> Outdated(req[s])
      BY <2>4, <3>2 DEF Outdated
    <3>4. QED
      BY <2>4, <2>5, <3>1, <3>2, <3>3 DEF RequestKnown
  <2>10. RequestKnown(q)'
    BY <2>1, NotToMint, OtherKnown
  <2>11. QED
    BY <2>7, <2>8, <2>9, <2>10 DEF ResetInv
<1>11. ASSUME NEW q \in Slots, Deliver(q) \/ Claim(q) PROVE ResetInv'
  <2>1. req[q].op = "mint" /\ ~Revoking(q)
    BY <1>11 DEF Deliver, Claim, At, Revoking
  <2>2. Elsewhere(q) /\ req'[q] \notin ToMint
    <3>1. CASE Deliver(q)
      BY <3>1, MovesTyped, NotToMint DEF Deliver
    <3>2. CASE Claim(q)
      <4>1. req[q] \in Minted /\ Goto(q, "answer")
        BY <3>2, Shape DEF Claim, At
      <4>2. Elsewhere(q) /\ req'[q].at = "answer"
        BY <4>1, MovesTyped
      <4>3. QED
        BY <4>2 DEF ToMint
    <3>3. QED
      BY <1>11, <3>1, <3>2
  <2>3. UNCHANGED <<pw, ended, rows>> /\ slips \subseteq slips'
    BY <1>11 DEF Deliver, Claim
  <2>4. QED
    BY <1>c, <2>1, <2>2, <2>3
<1>12. ASSUME NEW q \in Slots, Stop(q) PROVE ResetInv'
  <2>1. Elsewhere(q) /\ req'[q] = Free /\ UNCHANGED <<pw, ended, rows>>
        /\ slips' = slips \cup Unfinished(q)
    BY <1>12, MovesTyped DEF Stop
  <2>2. Revoking(q) => <<"unrevoked", req[q].user>> \in slips'
    BY <2>1 DEF Unfinished, Revoking, At
  <2>3. \A s \in Slots : s # q => req'[s] = req[s]
    BY <2>1, OthersSame
  <2>4. \A u \in Users : Unrevoked(u) => Unrevoked(u)'
    BY <2>1, <2>2, <2>3 DEF Unrevoked, Revoking, At
  <2>5. ResetFramed
    BY <2>1, <2>4 DEF ResetFramed
  <2>6. QED
    BY <2>1, <2>5, NotToMint, OtherKnown, SlotFrame
<1>13. ASSUME NEW q \in Slots, InsertLink(q) \/ ConsumeLink(q) PROVE ResetInv'
  <2>1. ~Revoking(q)
    BY <1>13 DEF InsertLink, ConsumeLink, At, Revoking
  <2>2. Done(q) \/ (req[q] \in Resets /\ Goto(q, "password"))
    BY <1>13, Shape, ResetCalls DEF InsertLink, ConsumeLink, At
  <2>3. Elsewhere(q) /\ req'[q] \notin ToMint
    <3>1. CASE Done(q)
      BY <3>1, MovesTyped, NotToMint
    <3>2. CASE req[q] \in Resets /\ Goto(q, "password")
      <4>1. Elsewhere(q) /\ req'[q].at = "password"
        BY <3>2, MovesTyped
      <4>2. QED
        BY <4>1 DEF ToMint
    <3>3. QED
      BY <2>2, <3>1, <3>2
  <2>4. UNCHANGED <<pw, ended, rows>> /\ slips \subseteq slips'
    BY <1>13 DEF InsertLink, ConsumeLink
  <2>5. QED
    BY <1>c, <2>1, <2>3, <2>4
<1>14. ASSUME NEW q \in Slots, SetUserPassword(q) PROVE ResetInv'
  <2>1. req[q] \in Resets /\ At(q, "reset", "password") /\ Goto(q, "revoke")
    BY <1>14, Shape, ResetCalls DEF SetUserPassword, At
  <2>u. PICK u \in Users : u = req[q].user
    BY <2>1 DEF Resets
  <2>2. Elsewhere(q) /\ Revoking(q)' /\ req'[q].user = u /\ req'[q] \notin ToMint
    BY <2>1, <2>u, MovesTyped DEF Revoking, At, ToMint
  <2>3. /\ UNCHANGED <<rows, ended, slips>>
        /\ \A v \in Users : v # u => pw'[v] = pw[v]
    BY <1>14, <2>u DEF SetUserPassword, SignInTypes
  <2>4. Unrevoked(u)'
    BY <2>2 DEF Unrevoked, Revoking, At
  <2>5. \A v \in Users : Unrevoked(v) => Unrevoked(v)'
    <3>1. ~Revoking(q)
      BY <2>1 DEF Revoking, At
    <3>2. QED
      BY <2>2, <2>3, <3>1, ElsewhereRevokes
  <2>6. ASSUME NEW k \in Keys PROVE RowKnown(k)'
    <3>1. RowKnown(k) /\ k[1] \in Users
      BY DEF ResetInv, Keys
    <3>2. CASE k[1] = u
      BY <2>4, <3>2 DEF RowKnown
    <3>3. CASE k[1] # u
      BY <2>3, <2>5, <3>1, <3>3 DEF RowKnown
    <3>4. QED
      BY <3>2, <3>3
  <2>7. ASSUME NEW s \in Slots, s # q PROVE RequestKnown(s)'
    <3>1. RequestKnown(s) /\ req'[s] = req[s] /\ (req[s] \in ToMint => req[s].user \in Users)
      BY <2>2, <2>7, OthersSame DEF ResetInv, ToMint
    <3>2. CASE req[s].user = u
      BY <2>3, <2>4, <3>1, <3>2 DEF RequestKnown
    <3>3. CASE req[s].user # u
      <4>1. req[s] \in ToMint => (Outdated(req[s])' <=> Outdated(req[s]))
        BY <2>3, <3>1, <3>3 DEF Outdated
      <4>2. QED
        BY <2>3, <2>5, <3>1, <4>1 DEF RequestKnown
    <3>4. QED
      BY <3>2, <3>3
  <2>8. QED
    BY <2>2, <2>6, <2>7, OtherKnown DEF ResetInv
<1>15. ASSUME NEW q \in Slots, Revoke(q) PROVE ResetInv'
  <2>1. req[q] \in Resets /\ Revoking(q) /\ Done(q) /\ UNCHANGED pw
    BY <1>15, Shape, ResetCalls DEF Revoke, Revoking, At
  <2>u. PICK u \in Users : u = req[q].user
    BY <2>1 DEF Resets
  <2>2. Elsewhere(q) /\ RequestKnown(q)'
    BY <2>1, MovesTyped, NotToMint, OtherKnown
  <2>3. \A s \in Slots : s # q => req'[s] = req[s]
    BY <2>2, OthersSame
  <2>4. CASE UNCHANGED <<rows, ended>> /\ slips' = slips \cup {<<"unrevoked", u>>}
    <3>1. \A v \in Users : Unrevoked(v) => Unrevoked(v)'
      BY <2>u, <2>3, <2>4 DEF Unrevoked, Revoking, At
    <3>2. ResetFramed
      BY <2>1, <2>4, <3>1 DEF ResetFramed
    <3>3. QED
      BY <2>2, <3>2, SlotFrame
  <2>5. CASE /\ UNCHANGED slips /\ rows' = DeleteUserRefreshTokens(u)
             /\ ended' = [ended EXCEPT ![u] = @ + 1]
    <3>1. \A k \in Keys : rows'[k] = IF k[1] = u THEN NoRow ELSE rows[k]
      BY <2>1, <2>5, DeleteUserTyped DEF Keys
    <3>2. /\ ended[u] \in Nat /\ ended'[u] = ended[u] + 1
          /\ \A v \in Users : v # u => ended'[v] = ended[v]
      BY <2>1, <2>5 DEF SignInTypes
    <3>3. ASSUME NEW v, v # u, Unrevoked(v) PROVE Unrevoked(v)'
      <4>1. \A s \in Slots : Revoking(s) /\ req[s].user = v => Revoking(s)' /\ req'[s].user = v
        BY <2>u, <2>3, <3>3 DEF Revoking, At
      <4>2. QED
        BY <2>5, <3>3, <4>1 DEF Unrevoked, Revoking
    <3>4. ASSUME NEW k \in Keys PROVE RowKnown(k)'
      <4>1. RowKnown(k)
        BY DEF ResetInv
      <4>2. CASE k[1] = u
        BY <3>1, <4>2 DEF RowKnown
      <4>3. CASE k[1] # u
        BY <2>1, <3>1, <3>3, <4>1, <4>3 DEF RowKnown
      <4>4. QED
        BY <4>2, <4>3
    <3>5. ASSUME NEW s \in Slots, s # q PROVE RequestKnown(s)'
      <4>1. /\ RequestKnown(s) /\ req'[s] = req[s]
            /\ req[s] \in ToMint => req[s].user \in Users /\ req[s].ended \in Nat
        BY <2>3, <3>5 DEF ResetInv, ToMint
      <4>2. CASE req[s].user = u
        <5>1. req[s] \in ToMint => req[s].ended <= ended[u]
          BY <4>1, <4>2 DEF RequestKnown
        <5>2. req[s] \in ToMint => ~Outdated(req[s])' /\ req[s].ended <= ended'[u]
          BY <3>2, <4>1, <4>2, <5>1 DEF Outdated
        <5>3. QED
          BY <4>1, <4>2, <5>2 DEF RequestKnown
      <4>3. CASE req[s].user # u
        <5>1. req[s] \in ToMint => ended'[req[s].user] = ended[req[s].user]
          BY <3>2, <4>1, <4>3
        <5>2. req[s] \in ToMint => (Outdated(req[s])' <=> Outdated(req[s]))
          BY <2>1, <4>1, <5>1 DEF Outdated
        <5>3. QED
          BY <3>3, <4>1, <4>3, <5>1, <5>2 DEF RequestKnown
      <4>4. QED
        BY <4>2, <4>3
    <3>6. QED
      BY <2>2, <3>4, <3>5 DEF ResetInv
  <2>6. QED
    BY <1>15, <2>u, <2>4, <2>5 DEF Revoke
<1>16. CASE UNCHANGED vars
  BY <1>16, <1>a DEF vars, authVars
<1>17. QED
  BY <1>1, <1>2, <1>3, <1>4, <1>5, <1>6, <1>7, <1>8, <1>9, <1>10, <1>11, <1>12, <1>13, <1>14,
     <1>15, <1>16 DEF Next

LEMMA ResetInvIsEnough == SignInTypes /\ ResetInv => ResetEndsSessions
<1>1. SignInTypes => DOMAIN rows = Keys
  BY DEF SignInTypes, Keys
<1>2. QED
  BY <1>1 DEF ResetInv, RowKnown, ResetEndsSessions

-----------------------------------------------------------------------------
(* A device left alone: the one request it waits for holds the row that    *)
(* its client will be told of, and while it waits for none the client      *)
(* holds the row itself.                                                   *)

Matches(d) == held[d] # NoToken => rows[<<held[d].user, d>>].id = held[d].id

CalmInv(d) == calm[d] =>
    /\ \A p, q \in Waiting(d) : p = q
    /\ Waiting(d) = {} => Matches(d)
    /\ \A q \in Waiting(d) :
          /\ req[q].at = "user" => Matches(d)
          /\ req[q].at \in {"claim", "answer"} => rows[<<req[q].user, d>>].id = req[q].id

(* Steps of others, that leave alone the rows d has a part in.             *)
CalmFramed(d) ==
    /\ calm'[d] => calm[d]
    /\ held'[d] = held[d]
    /\ Waiting(d)' = Waiting(d)
    /\ \A q \in Waiting(d) : /\ req'[q] = req[q]
                             /\ rows'[<<req[q].user, d>>] = rows[<<req[q].user, d>>]
    /\ held[d] # NoToken => rows'[<<held[d].user, d>>] = rows[<<held[d].user, d>>]

LEMMA CalmFrame ==
    ASSUME NEW d \in Devices, CalmInv(d), CalmFramed(d)
    PROVE  CalmInv(d)'
<1>1. Matches(d) => Matches(d)'
  BY DEF Matches, CalmFramed
<1>2. QED
  BY <1>1 DEF CalmInv, CalmFramed

(* The users of the requests and of the tokens are accounts. *)
LEMMA WaitingTyped ==
    ASSUME SignInTypes, NEW d \in Devices
    PROVE  /\ \A q \in Waiting(d) : q \in Slots /\ req[q].user \in Users /\ req[q].dev = d
           /\ held[d] # NoToken => held[d].user \in Users
<1>1. ASSUME NEW q \in Waiting(d)
      PROVE  q \in Slots /\ req[q].user \in Users /\ req[q].dev = d
  <2>1. q \in Slots /\ req[q].op = "mint" /\ req[q].dev = d
    BY DEF Waiting
  <2>2. req[q] \in ToMint \cup Minted
    BY <2>1, Shape
  <2>3. QED
    BY <2>1, <2>2 DEF ToMint, Minted
<1>2. held[d] # NoToken => held[d].user \in Users
  BY DEF SignInTypes
<1>3. QED
  BY <1>1, <1>2

(* A slot is written in which d waits for nothing. *)
LEMMA ElsewhereFramesCalm ==
    ASSUME SignInTypes, NEW d \in Devices, NEW q \in Slots, Elsewhere(q),
           q \notin Waiting(d), q \notin Waiting(d)',
           calm'[d] => calm[d], held'[d] = held[d],
           \A u \in Users : rows'[<<u, d>>] = rows[<<u, d>>]
    PROVE  CalmFramed(d)
<1>1. \A s \in Slots : s # q => req'[s] = req[s]
  BY OthersSame
<1>2. Waiting(d)' = Waiting(d) /\ \A s \in Waiting(d) : req'[s] = req[s]
  BY <1>1 DEF Waiting
<1>3. QED
  BY <1>2, WaitingTyped DEF CalmFramed

(* A request of d is over, or goes on, and it was the only one.            *)
LEMMA OnlyOne ==
    ASSUME SignInTypes, NEW d \in Devices, CalmInv(d), calm[d],
           NEW q \in Slots, Elsewhere(q), q \in Waiting(d)
    PROVE  /\ Waiting(d) = {q}
           /\ Waiting(d)' = IF q \in Waiting(d)' THEN {q} ELSE {}
<1>1. Waiting(d) = {q}
  BY DEF CalmInv
<1>2. \A s \in Slots : s # q => req'[s] = req[s]
  BY OthersSame
<1>3. \A s \in Waiting(d)' : s = q
  BY <1>1, <1>2 DEF Waiting
<1>4. QED
  BY <1>1, <1>3

LEMMA CalmInvKept ==
    ASSUME SignInTypes, [Next]_vars, NEW d \in Devices, CalmInv(d)
    PROVE  CalmInv(d)'
<1>0. SignInTypes' /\ DOMAIN req = Slots
  BY SignInTypesKept DEF SignInTypes
<1>a. ASSUME UNCHANGED <<req, rows, held, calm>> PROVE CalmInv(d)'
  <2>1. Waiting(d)' = Waiting(d)
    BY <1>a DEF Waiting
  <2>2. QED
    BY <1>a, <2>1, CalmFrame DEF CalmFramed
<1>b. ASSUME NEW q \in Slots, Elsewhere(q), q \notin Waiting(d), q \notin Waiting(d)',
             calm'[d] => calm[d], held'[d] = held[d],
             \A u \in Users : rows'[<<u, d>>] = rows[<<u, d>>]
      PROVE  CalmInv(d)'
  BY <1>b, ElsewhereFramesCalm, CalmFrame
<1>c. ASSUME ~calm'[d] PROVE CalmInv(d)'
  BY <1>c DEF CalmInv
<1>1. ASSUME NEW u \in Users, SetUserBanned(u) PROVE CalmInv(d)'
  BY <1>1, <1>a DEF SetUserBanned
<1>2. ASSUME NEW e \in Devices, Logout(e) PROVE CalmInv(d)'
  <2>1. CASE e = d
    BY <1>2, <1>c, <2>1 DEF Logout, Disturbed
  <2>2. CASE e # d
    <3>1. /\ UNCHANGED req /\ calm'[d] = calm[d] /\ held'[d] = held[d]
      BY <1>2, <2>2 DEF Logout, Disturbed, SignInTypes
    <3>2. rows' = rows \/ (acc[e].user \in Users /\ rows' = DeleteRefreshToken(acc[e].user, e))
      BY <1>2 DEF Logout, SignInTypes
    <3>3. \A u \in Users : rows'[<<u, d>>] = rows[<<u, d>>]
      BY <2>2, <3>2, DeleteElsewhere
    <3>4. Waiting(d)' = Waiting(d)
      BY <3>1 DEF Waiting
    <3>5. QED
      BY <3>1, <3>3, <3>4, WaitingTyped, CalmFrame DEF CalmFramed
  <2>3. QED
    BY <2>1, <2>2
<1>3. ASSUME NEW e \in Devices, AccessEnds(e) \/ PairStart(e) \/ PairExpires(e)
      PROVE  CalmInv(d)'
  BY <1>3, <1>a DEF AccessEnds, PairStart, PairExpires
<1>4. ASSUME NEW e \in Devices, NEW f \in Devices, PairApprove(e, f) PROVE CalmInv(d)'
  BY <1>4, <1>a DEF PairApprove
<1>5. ASSUME NEW q \in Slots, NEW u \in Users, AdminReset(q, u) PROVE CalmInv(d)'
  <2>1. Elsewhere(q) /\ req[q].op = "free" /\ req'[q].op = "link"
    BY <1>5, InsertLinkTyped, FreeIsFree DEF LinkRequests
  <2>2. QED
    BY <1>5, <1>b, <2>1 DEF AdminReset, Waiting
<1>6. ASSUME NEW q \in Slots, NEW e \in Devices,
             (\E u \in Users : Login(q, e, u)) \/ Refresh(q, e) \/ PairPoll(q, e)
      PROVE  CalmInv(d)'
  <2>1. PICK u \in Users, at \in {"user", "save", "refused"}, why \in Reasons, gen \in Nat,
             past \in Pasts : BeginMint(q, e, u, at, why, gen, past)
    BY <1>6, MintBegins
  <2>2. /\ Begin(q, [op |-> "mint", at |-> at, why |-> why, user |-> u, dev |-> e, gen |-> gen,
                     past |-> past, ended |-> ended[u]])
        /\ calm' = [calm EXCEPT ![e] = @ /\ Waiting(e) = {}]
    BY <2>1 DEF BeginMint
  <2>3. /\ Elsewhere(q) /\ req[q].op = "free"
        /\ req'[q].op = "mint" /\ req'[q].dev = e /\ req'[q].at \in {"user", "save", "refused"}
    <3>1. /\ Elsewhere(q) /\ req[q] = Free
          /\ req'[q] = [op |-> "mint", at |-> at, why |-> why, user |-> u, dev |-> e, gen |-> gen,
                        past |-> past, ended |-> ended[u]]
      BY <1>0, <2>2, SlotWrites
    <3>2. QED
      BY <3>1, FreeIsFree
  <2>4. UNCHANGED <<rows, held>>
    BY <1>6 DEF Login, Refresh, PairPoll
  <2>5. calm \in [Devices -> BOOLEAN]
    BY DEF SignInTypes
  <2>6. CASE e # d
    <3>1. calm'[d] = calm[d] /\ q \notin Waiting(d) /\ q \notin Waiting(d)'
      BY <2>2, <2>3, <2>5, <2>6 DEF Waiting
    <3>2. QED
      BY <1>b, <2>3, <2>4, <3>1
  <2>7. CASE e = d
    <3>1. calm'[d] => calm[d] /\ Waiting(d) = {}
      BY <2>2, <2>5, <2>7
    <3>2. \A s \in Slots : s # q => req'[s] = req[s]
      BY <2>3, OthersSame
    <3>3. Waiting(d) = {} => Waiting(d)' = {q}
      BY <2>3, <2>7, <3>2 DEF Waiting
    <3>4. calm'[d] => Matches(d)'
      BY <2>4, <3>1 DEF CalmInv, Matches
    <3>5. QED
      BY <2>3, <3>1, <3>3, <3>4 DEF CalmInv
  <2>8. QED
    BY <2>6, <2>7
<1>7. ASSUME NEW l \in links, LinkExpires(l) PROVE CalmInv(d)'
  BY <1>7, <1>a DEF LinkExpires
<1>8. ASSUME NEW l \in links, NEW q \in Slots, DoReset(q, l) PROVE CalmInv(d)'
  <2>1. Elsewhere(q) /\ req[q].op = "free" /\ req'[q].op = "reset"
    BY <1>8, DoResetTyped, FreeIsFree DEF Resets
  <2>2. UNCHANGED <<rows, held, calm>>
    BY <1>8 DEF DoReset, authVars
  <2>3. QED
    BY <1>b, <2>1, <2>2 DEF Waiting
<1>9. ASSUME NEW q \in Slots, ReadUser(q) \/ RefreshFails(q) PROVE CalmInv(d)'
  <2>1. req[q] \in ToMint /\ req[q].op = "mint" /\ req[q].at \in {"user", "save"}
        /\ req[q].user \in Users /\ req[q].dev \in Devices
    BY <1>9, Shape DEF ReadUser, RefreshFails, At, ToMint
  <2>2. UNCHANGED <<held, calm>> /\ Elsewhere(q)
    BY <1>9, <2>1, MovesTyped DEF ReadUser, RefreshFails, authVars
  <2>3. \/ Goto(q, "save") /\ req[q].at = "user" /\ UNCHANGED rows
        \/ Goto(q, "refused") /\ rows' \in {rows, DeleteRefreshToken(req[q].user, req[q].dev)}
        \/ Done(q) /\ req[q].at = "user" /\ UNCHANGED rows
    BY <1>9 DEF ReadUser, RefreshFails, At, authVars
  <2>4. \/ req'[q] = Free /\ req[q].at = "user" /\ UNCHANGED rows
        \/ /\ req'[q].op = "mint" /\ req'[q].dev = req[q].dev
           /\ req'[q].at \in {"save", "refused"}
    BY <2>1, <2>3, MovesTyped
  <2>5. CASE req[q].dev # d
    <3>1. \A u \in Users : rows'[<<u, d>>] = rows[<<u, d>>]
      BY <2>1, <2>3, <2>5, DeleteElsewhere
    <3>2. q \notin Waiting(d) /\ q \notin Waiting(d)'
      BY <2>4, <2>5, FreeIsFree DEF Waiting
    <3>3. QED
      BY <1>b, <2>2, <3>1, <3>2
  <2>6. CASE req[q].dev = d
    <3> SUFFICES ASSUME calm'[d] PROVE CalmInv(d)'
      BY <1>c
    <3>1. calm[d] /\ q \in Waiting(d)
      BY <2>1, <2>2, <2>6 DEF Waiting
    <3>2. Waiting(d)' = IF q \in Waiting(d)' THEN {q} ELSE {}
      BY <2>1, <2>2, <3>1, OnlyOne
    <3>3. CASE q \in Waiting(d)'
      <4>1. req'[q].at \in {"save", "refused"}
        BY <2>4, <3>3, FreeIsFree DEF Waiting
      <4>2. QED
        BY <3>2, <3>3, <4>1 DEF CalmInv
    <3>4. CASE q \notin Waiting(d)'
      <4>1. UNCHANGED rows /\ Matches(d)
        BY <2>4, <2>6, <3>1, <3>4 DEF Waiting, CalmInv
      <4>2. Matches(d)'
        BY <2>2, <4>1 DEF Matches
      <4>3. QED
        BY <3>2, <3>4, <4>2 DEF CalmInv
    <3>5. QED
      BY <3>3, <3>4
  <2>7. QED
    BY <2>5, <2>6
<1>10. ASSUME NEW q \in Slots, Mint(q) PROVE CalmInv(d)'
  <2> DEFINE u == req[q].user
             e == req[q].dev
             row == [id |-> nextId, gen |-> req[q].gen, past |-> Past(req[q])]
  <2>1. /\ req[q].op = "mint" /\ u \in Users /\ e \in Devices
        /\ Elsewhere(q) /\ req'[q].op = "mint" /\ req'[q].user = u /\ req'[q].dev = e
        /\ req'[q].id = nextId /\ rows' = [rows EXCEPT ![<<u, e>>] = row]
    BY <1>10, MintTyped DEF Mint, At, ToMint, Minted
  <2>2. /\ held' = held
        /\ calm' = IF req[q].why = "refresh" THEN calm
                   ELSE [calm EXCEPT ![e] = Waiting(e) = {q}]
    BY <1>10 DEF Mint
  <2>3. calm \in [Devices -> BOOLEAN] /\ rows \in [Users \X Devices -> RefreshRows]
    BY DEF SignInTypes
  <2>4. CASE e # d
    <3>1. \A v \in Users : rows'[<<v, d>>] = rows[<<v, d>>]
      BY <2>1, <2>3, <2>4
    <3>2. calm'[d] = calm[d] /\ q \notin Waiting(d) /\ q \notin Waiting(d)'
      BY <2>1, <2>2, <2>3, <2>4 DEF Waiting
    <3>3. QED
      BY <1>b, <2>1, <2>2, <3>1, <3>2
  <2>5. CASE e = d
    <3> SUFFICES ASSUME calm'[d] PROVE CalmInv(d)'
      BY <1>c
    <3>1. q \in Waiting(d) /\ q \in Waiting(d)'
      BY <2>1, <2>5 DEF Waiting
    <3>2. Waiting(d) = {q}
      BY <2>1, <2>2, <2>3, <2>5, <3>1, OnlyOne
    <3>3. \A s \in Slots : s # q => req'[s] = req[s]
      BY <2>1, OthersSame
    <3>4. Waiting(d)' = {q}
      BY <3>1, <3>2, <3>3 DEF Waiting
    <3>5. rows'[<<req'[q].user, d>>].id = req'[q].id /\ req'[q].at # "user"
      <4>1. rows'[<<u, d>>].id = nextId
        BY <2>1, <2>3, <2>5
      <4>2. req'[q].at # "user"
        BY <1>10, MintTyped
      <4>3. QED
        BY <2>1, <4>1, <4>2
    <3>6. QED
      BY <3>4, <3>5 DEF CalmInv
  <2>6. QED
    BY <2>4, <2>5
<1>11. ASSUME NEW q \in Slots, Deliver(q) PROVE CalmInv(d)'
  <2>1. /\ req[q].op = "mint" /\ Elsewhere(q) /\ req'[q] = Free /\ UNCHANGED <<rows, calm>>
    BY <1>11, MovesTyped DEF Deliver, At
  <2>2. held \in [Devices -> [user : Users \cup {Nobody}, id : Nat]] /\ req[q].dev \in Devices
    <3>1. req[q] \in ToMint \cup Minted
      BY <2>1, Shape
    <3>2. QED
      BY <3>1 DEF SignInTypes, ToMint, Minted
  <2>3. \/ req[q].at = "answer"
           /\ held' = [held EXCEPT ![req[q].dev] = [user |-> req[q].user, id |-> req[q].id]]
        \/ held' = [held EXCEPT ![req[q].dev] = NoToken]
    BY <1>11 DEF Deliver, At
  <2>4. q \notin Waiting(d)'
    BY <2>1, FreeIsFree DEF Waiting
  <2>5. CASE req[q].dev # d
    <3>1. held'[d] = held[d] /\ q \notin Waiting(d)
      BY <2>2, <2>3, <2>5 DEF Waiting
    <3>2. QED
      BY <1>b, <2>1, <2>4, <3>1
  <2>6. CASE req[q].dev = d
    <3> SUFFICES ASSUME calm'[d] PROVE CalmInv(d)'
      BY <1>c
    <3>1. calm[d] /\ q \in Waiting(d)
      BY <2>1, <2>6 DEF Waiting
    <3>2. Waiting(d)' = {}
      BY <2>1, <2>4, <3>1, OnlyOne
    <3>3. Matches(d)'
      <4>1. CASE held' = [held EXCEPT ![req[q].dev] = NoToken]
        BY <2>2, <2>6, <4>1 DEF Matches
      <4>2. CASE /\ req[q].at = "answer"
                 /\ held' = [held EXCEPT ![req[q].dev] = [user |-> req[q].user, id |-> req[q].id]]
        <5>1. rows[<<req[q].user, d>>].id = req[q].id
          BY <3>1, <4>2 DEF CalmInv
        <5>2. held'[d].user = req[q].user /\ held'[d].id = req[q].id
          BY <2>2, <2>6, <4>2
        <5>3. QED
          BY <2>1, <5>1, <5>2 DEF Matches
      <4>3. QED
        BY <2>3, <4>1, <4>2
    <3>4. QED
      BY <3>2, <3>3 DEF CalmInv
  <2>7. QED
    BY <2>5, <2>6
<1>12. ASSUME NEW q \in Slots, Claim(q) PROVE CalmInv(d)'
  <2>1. /\ req[q].op = "mint" /\ req[q].at = "claim" /\ Elsewhere(q) /\ req'[q].op = "mint"
        /\ req'[q].at = "answer" /\ req'[q].dev = req[q].dev /\ req'[q].user = req[q].user
        /\ req'[q].id = req[q].id /\ req[q].dev \in Devices
    <3>1. req[q] \in Minted /\ req[q].op = "mint" /\ req[q].at = "claim"
      BY <1>12, Shape DEF Claim, At
    <3>2. Goto(q, "answer")
      BY <1>12 DEF Claim
    <3>3. QED
      BY <3>1, <3>2, MovesTyped DEF Minted
  <2>2. UNCHANGED <<rows, held, calm>>
    BY <1>12 DEF Claim
  <2>3. CASE req[q].dev # d
    BY <1>b, <2>1, <2>2, <2>3 DEF Waiting
  <2>4. CASE req[q].dev = d
    <3> SUFFICES ASSUME calm'[d] PROVE CalmInv(d)'
      BY <1>c
    <3>1. calm[d] /\ q \in Waiting(d) /\ q \in Waiting(d)'
      BY <2>1, <2>2, <2>4 DEF Waiting
    <3>2. Waiting(d)' = {q}
      BY <2>1, <3>1, OnlyOne
    <3>3. rows[<<req[q].user, d>>].id = req[q].id
      BY <2>1, <3>1 DEF CalmInv
    <3>4. rows'[<<req'[q].user, d>>].id = req'[q].id
      BY <2>1, <2>2, <3>3
    <3>5. QED
      BY <2>1, <3>2, <3>4 DEF CalmInv
  <2>5. QED
    BY <2>3, <2>4
<1>13. ASSUME NEW q \in Slots, Stop(q) PROVE CalmInv(d)'
  <2>1. /\ Elsewhere(q) /\ req'[q] = Free /\ UNCHANGED <<rows, held>>
        /\ calm' = Disturbed({e \in Devices : q \in Waiting(e)})
    BY <1>13, MovesTyped DEF Stop
  <2>2. CASE q \in Waiting(d)
    BY <1>c, <2>1, <2>2 DEF Disturbed
  <2>3. CASE q \notin Waiting(d)
    <3>1. calm'[d] => calm[d]
      BY <2>1 DEF Disturbed
    <3>2. q \notin Waiting(d)'
      BY <2>1, FreeIsFree DEF Waiting
    <3>3. QED
      BY <1>b, <2>1, <2>3, <3>1, <3>2
  <2>4. QED
    BY <2>2, <2>3
<1>14. ASSUME NEW q \in Slots, InsertLink(q) PROVE CalmInv(d)'
  <2>1. /\ req[q].op = "link" /\ Elsewhere(q) /\ req'[q].op = "free"
        /\ UNCHANGED <<rows, held, calm>>
    BY <1>14, MovesTyped, FreeIsFree DEF InsertLink, At
  <2>2. QED
    BY <1>b, <2>1 DEF Waiting
<1>15. ASSUME NEW q \in Slots, ConsumeLink(q) \/ SetUserPassword(q) \/ Revoke(q)
       PROVE  CalmInv(d)'
  <2>1. req[q] \in Resets /\ req[q].op = "reset" /\ req[q].user \in Users
    BY <1>15, Shape DEF ConsumeLink, SetUserPassword, Revoke, At, Resets
  <2>2. Done(q) \/ Goto(q, "password") \/ Goto(q, "revoke")
    BY <1>15, ResetCalls DEF ConsumeLink, SetUserPassword, Revoke
  <2>3. Elsewhere(q) /\ req'[q].op \in {"free", "reset"} /\ UNCHANGED held
    BY <1>15, <2>1, <2>2, MovesTyped, FreeIsFree DEF ConsumeLink, SetUserPassword, Revoke
  <2>4. q \notin Waiting(d) /\ q \notin Waiting(d)'
    BY <2>1, <2>3 DEF Waiting
  <2>5. CASE UNCHANGED <<rows, calm>>
    BY <1>b, <2>3, <2>4, <2>5
  <2>6. CASE /\ rows' = DeleteUserRefreshTokens(req[q].user)
             /\ calm' = Disturbed(DevicesOf(req[q].user))
    <3>1. CASE d \in DevicesOf(req[q].user)
      BY <1>c, <2>6, <3>1 DEF Disturbed
    <3>2. CASE d \notin DevicesOf(req[q].user)
      <4>1. held[d].user # req[q].user /\ \A s \in Waiting(d) : req[s].user # req[q].user
        BY <3>2 DEF DevicesOf
      <4>2. \A v \in Users : v # req[q].user => rows'[<<v, d>>] = rows[<<v, d>>]
        BY <2>1, <2>6, DeleteUserTyped
      <4>3. calm'[d] => calm[d]
        BY <2>6 DEF Disturbed
      <4>4. \A s \in Slots : s # q => req'[s] = req[s]
        BY <2>3, OthersSame
      <4>5. Waiting(d)' = Waiting(d) /\ \A s \in Waiting(d) : req'[s] = req[s]
        BY <2>4, <4>4 DEF Waiting
      <4>6. QED
        BY <2>3, <4>1, <4>2, <4>3, <4>5, WaitingTyped, CalmFrame DEF CalmFramed
    <3>3. QED
      BY <3>1, <3>2
  <2>7. QED
    BY <1>15, <2>5, <2>6 DEF ConsumeLink, SetUserPassword, Revoke
<1>16. CASE UNCHANGED vars
  BY <1>16, <1>a DEF vars, authVars
<1>17. QED
  BY <1>1, <1>2, <1>3, <1>4, <1>5, <1>6, <1>7, <1>8, <1>9, <1>10, <1>11, <1>12, <1>13, <1>14,
     <1>15, <1>16 DEF Next

-----------------------------------------------------------------------------
SignInInv ==
    /\ SignInTypes /\ ResetInv
    /\ \A d \in Devices : PairInv(d) /\ CalmInv(d)

LEMMA SignInInvInit == Init => SignInInv
<1> SUFFICES ASSUME Init PROVE SignInInv
  OBVIOUS
<1>1. \A q \in Slots : req[q] = Free /\ req[q].op = "free"
  BY FreeIsFree DEF Init
<1>2. SignInTypes
  <2>1. /\ NoRow \in RefreshRows /\ NoToken \in [user : Users \cup {Nobody}, id : Nat]
        /\ NoAccess \in Accesses
    BY DEF NoRow, NoToken, NoAccess, RefreshRows, Pasts, Accesses
  <2>2. [status |-> "none", user |-> Nobody, gen |-> 0, expired |-> FALSE] \in Pairings
    BY DEF Pairings
  <2>3. req \in [Slots -> SignInRequests]
    BY DEF Init, SignInRequests
  <2>4. rows \in [Users \X Devices -> RefreshRows] /\ pw \in [Users -> Nat]
    BY <2>1 DEF Init
  <2>5. /\ pair \in [Devices -> Pairings]
        /\ \A d \in Devices : pair[d].status = "none"
    BY <2>2 DEF Init
  <2>6. /\ held \in [Devices -> [user : Users \cup {Nobody}, id : Nat]]
        /\ \A d \in Devices : held[d] = NoToken
    BY <2>1 DEF Init
  <2>7. /\ acc \in [Devices -> Accesses] /\ ended \in [Users -> Nat]
        /\ \A d \in Devices : acc[d] = NoAccess
    BY <2>1 DEF Init
  <2>8. /\ links \subseteq Links /\ calm \in [Devices -> BOOLEAN] /\ served \in [Devices -> Nat]
        /\ nextId \in Nat \ {0} /\ nextLink \in Nat
    BY DEF Init
  <2>9. QED
    BY <2>3, <2>4, <2>5, <2>6, <2>7, <2>8 DEF SignInTypes
<1>3. ResetInv
  <2>1. \A k \in Keys : rows[k] = NoRow
    BY DEF Init, Keys
  <2>2. \A q \in Slots : req[q] \notin ToMint
    BY <1>1, NotToMint
  <2>3. QED
    BY <2>1, <2>2 DEF ResetInv, RowKnown, RequestKnown
<1>4. ASSUME NEW d \in Devices PROVE PairInv(d) /\ CalmInv(d)
  <2>1. Polls(d) = {} /\ Waiting(d) = {}
    BY <1>1 DEF Polls, Waiting
  <2>2. served[d] = 0 /\ pair[d].status = "none" /\ held[d] = NoToken
    BY DEF Init
  <2>3. QED
    BY <2>1, <2>2 DEF PairInv, CalmInv, Matches
<1>5. QED
  BY <1>2, <1>3, <1>4 DEF SignInInv

LEMMA SignInInvKept == SignInInv /\ [Next]_vars => SignInInv'
  BY SignInTypesKept, ResetInvKept, PairInvKept, CalmInvKept DEF SignInInv

(* What is stored has its types, and every request under way is where its  *)
(* reads and writes so far leave it, in every state of the handlers of     *)
(* auth.go, pairing.go and reset.go.                                       *)
THEOREM SignInInvariant == Spec => []SignInInv
  BY SignInInvInit, SignInInvKept, PTL DEF Spec

(* A pairing gives its tokens once, unless two of its polls overlapped or  *)
(* its claim failed or stopped, and is not used up before it gave them:    *)
(* what pairPoll's order of calls, mint and then claim, comes to.          *)
THEOREM PairingServes == Spec => []ServedOnce
<1>1. ASSUME SignInInv, NEW d \in Devices
      PROVE  /\ pair[d].status = "claimed" => served[d] >= 1
             /\ served[d] > 1 => <<"poll", d>> \in slips \/ <<"unclaimed", d>> \in slips
  <2>1. PairInv(d) /\ served[d] \in Nat
    BY <1>1 DEF SignInInv, SignInTypes
  <2>2. Excused(d) <=> <<"poll", d>> \in slips \/ <<"unclaimed", d>> \in slips
    BY DEF Excused
  <2>3. ~Excused(d) => served[d] <= 1
    BY <2>1 DEF PairInv
  <2>4. pair[d].status = "claimed" => served[d] >= 1
    BY <2>1 DEF PairInv
  <2>5. QED
    BY <2>1, <2>2, <2>3, <2>4
<1>2. SignInInv => ServedOnce
  BY <1>1 DEF ServedOnce
<1>3. QED
  BY <1>2, SignInInvariant, PTL

(* A session of a replaced password is left by a reset only if a request    *)
(* under way across the revocation minted it, a pairing that an access     *)
(* token of the old time approved gave it, it was refreshed from one of    *)
(* these, or the revocation is to come or failed: doReset's order of       *)
(* calls, the password first.                                              *)
THEOREM ResetEnds == Spec => []ResetEndsSessions
<1>1. SignInInv => ResetEndsSessions
  BY ResetInvIsEnough DEF SignInInv
<1>2. QED
  BY <1>1, SignInInvariant, PTL

(* A client whose requests are one at a time and none lost holds the token *)
(* the server stores, whatever the other devices do and whatever resets    *)
(* end for other accounts, until a reset revokes its own: the rotation of  *)
(* refresh tokens.                                                         *)
THEOREM ClientStaysSignedIn == Spec => []StaysSignedIn
<1>1. SignInInv => StaysSignedIn
  BY DEF SignInInv, CalmInv, Matches, StaysSignedIn
<1>2. QED
  BY <1>1, SignInInvariant, PTL

-----------------------------------------------------------------------------
(* One page of one game: the shape of its requests.                        *)

Views == [op : {"view"}, at : {"throttle", "fetch", "count", "write", "mark"},
          rows : SUBSET {"retail", "classic1x", "classic", "profile"}]
Linkings == [op : {"connect"}, at : {"identity", "routing", "undo"}]
            \cup [op : {"disconnect"}, at : {"first", "second"}]
            \cup [op : {"region"}, at : {"write"}]
Switches == [op : {"switch"}, at : {"table", "cache"}, on : BOOLEAN]

PageRequests == {Free} \cup Views \cup Linkings \cup Switches

PageTypes ==
    /\ game \in {"wow", "classic", "profile", "lol"}
    /\ req \in [Slots -> PageRequests]
    /\ \A q \in Slots : req[q] \in Linkings => IsRiot

(* A request about to write either half of a Riot link, having written the *)
(* other or found that it could not.                                       *)
Repairing(q) == \/ At(q, "connect", "routing") \/ At(q, "connect", "undo")
                \/ At(q, "disconnect", "second")

LinkInv ==
    IsRiot /\ link # "none" /\ "half" \notin slips
    => routing # "none" \/ \E q \in Slots : Repairing(q)

(* An empty answer about to be stored replaces nothing, or is excused.     *)
StoresNothing(q) == At(q, "view", "write") /\ req[q].rows = {}

Uncertain == {"uncounted", "straddled"} \cap slips # {}

RosterInv == \A q \in Slots : StoresNothing(q) => kept = {} \/ Uncertain

LEMMA PageShape ==
    ASSUME PageTypes, NEW q \in Slots
    PROVE  /\ req[q].op = "view" => req[q] \in Views
           /\ req[q].op \in {"connect", "disconnect", "region"} => req[q] \in Linkings
           /\ req[q].op = "switch" => req[q] \in Switches
           /\ req[q].op = "free" => req[q] = Free
<1>1. req[q] \in PageRequests
  BY DEF PageTypes
<1>2. req[q] = Free => req[q].op = "free"
  BY FreeIsFree
<1>3. /\ req[q] \in Views => req[q].op = "view"
      /\ req[q] \in Linkings => req[q].op \in {"connect", "disconnect", "region"}
      /\ req[q] \in Switches => req[q].op = "switch"
  BY DEF Views, Linkings, Switches
<1>4. QED
  BY <1>1, <1>2, <1>3 DEF PageRequests

(* A slot is written with a request of some shape.                         *)
LEMMA PageTyped ==
    ASSUME PageTypes, NEW q \in Slots, Elsewhere(q), req'[q] \in PageRequests,
           req'[q] \in Linkings => IsRiot, UNCHANGED game
    PROVE  PageTypes'
<1>1. req' \in [Slots -> PageRequests]
  BY DEF PageTypes, Elsewhere
<1>2. \A s \in Slots : s # q => req'[s] = req[s]
  BY OthersSame
<1>3. IsRiot' <=> IsRiot
  BY DEF IsRiot
<1>4. QED
  BY <1>1, <1>2, <1>3 DEF PageTypes

LEMMA PageMoves ==
    /\ \A r \in Views, at \in {"throttle", "fetch", "count", "write", "mark"} :
          LET n == Moved(r, at)
          IN  n \in Views /\ n.at = at /\ n.op = "view" /\ n.rows = r.rows
    /\ \A r \in Linkings, at \in {"routing", "undo", "second"} :
          LET n == Moved(r, at)
          IN  n.at = at /\ n.op = r.op
    /\ \A r \in Linkings, at \in {"routing", "undo"} :
          r.op = "connect" => Moved(r, at) \in Linkings
    /\ \A r \in Linkings : r.op = "disconnect" => Moved(r, "second") \in Linkings
    /\ \A r \in Switches, at \in {"table", "cache"} :
          LET n == Moved(r, at)
          IN  n \in Switches /\ n.at = at /\ n.op = "switch"
<1>1. \A r \in Views, at \in {"throttle", "fetch", "count", "write", "mark"} :
         LET n == Moved(r, at)
         IN  n \in Views /\ n.at = at /\ n.op = "view" /\ n.rows = r.rows
  BY DEF Views, Moved
<1>2. \A r \in Linkings, at \in {"routing", "undo", "second"} :
         LET n == Moved(r, at)
         IN  n.at = at /\ n.op = r.op
  BY DEF Linkings, Moved
<1>3. ASSUME NEW r \in Linkings, NEW at \in {"routing", "undo"}, r.op = "connect"
      PROVE  Moved(r, at) \in Linkings
  <2>1. r \in [op : {"connect"}, at : {"identity", "routing", "undo"}]
    BY <1>3 DEF Linkings
  <2>2. Moved(r, at) \in [op : {"connect"}, at : {"identity", "routing", "undo"}]
    BY <2>1 DEF Moved
  <2>3. QED
    BY <2>2 DEF Linkings
<1>4. ASSUME NEW r \in Linkings, r.op = "disconnect" PROVE Moved(r, "second") \in Linkings
  <2>1. r \in [op : {"disconnect"}, at : {"first", "second"}]
    BY <1>4 DEF Linkings
  <2>2. Moved(r, "second") \in [op : {"disconnect"}, at : {"first", "second"}]
    BY <2>1 DEF Moved
  <2>3. QED
    BY <2>2 DEF Linkings
<1>5. \A r \in Switches, at \in {"table", "cache"} :
         LET n == Moved(r, at)
         IN  n \in Switches /\ n.at = at /\ n.op = "switch"
  BY DEF Switches, Moved
<1>6. QED
  BY <1>1, <1>2, <1>3, <1>4, <1>5

(* What a step of a slot shows of the request in it. *)
LEMMA PageSlot ==
    ASSUME PageTypes, NEW q \in Slots
    PROVE  /\ \A r : Begin(q, r) => req[q] = Free /\ req'[q] = r /\ Elsewhere(q)
           /\ \A at : Goto(q, at) => req'[q] = Moved(req[q], at) /\ Elsewhere(q)
           /\ Done(q) => req'[q] = Free /\ Elsewhere(q)
BY SlotWrites DEF PageTypes, Moved

LEMMA PartsTyped ==
    ASSUME PageTypes
    PROVE  /\ Parts[game] \subseteq {"retail", "classic1x", "classic", "profile"}
           /\ ~IsWoW => Parts[game] # {}
<1>1. CASE game = "wow"
  BY <1>1 DEF Parts, IsWoW
<1>2. CASE game = "classic"
  BY <1>2 DEF Parts, IsWoW
<1>3. CASE game = "profile"
  BY <1>3 DEF Parts, IsWoW
<1>4. CASE game = "lol"
  BY <1>4 DEF Parts, IsWoW
<1>5. QED
  BY <1>1, <1>2, <1>3, <1>4 DEF PageTypes

(* An answer is kept with the request that fetched it. *)
Answered(r, rs, at) == [r EXCEPT !.at = at, !.rows = rs]

LEMMA FetchedTyped ==
    ASSUME PageTypes, NEW q \in Slots, req[q] \in Views,
           NEW rs \in SUBSET {"retail", "classic1x", "classic", "profile"},
           NEW at \in {"count", "write"}, Fetched(q, rs, at)
    PROVE  Elsewhere(q) /\ req'[q] \in Views /\ req'[q].at = at /\ req'[q].rows = rs
<1>1. req'[q] = Answered(req[q], rs, at) /\ Elsewhere(q)
  BY DEF Fetched, Answered, PageTypes, Elsewhere
<1>2. Answered(req[q], rs, at) \in Views /\ Answered(req[q], rs, at).at = at
      /\ Answered(req[q], rs, at).rows = rs
  BY DEF Answered, Views
<1>3. QED
  BY <1>1, <1>2

(* A view stores nothing only after it counted nothing, or could not.      *)
LEMMA ViewSteps ==
    ASSUME PageTypes, NEW q \in Slots, ViewStep(q)
    PROVE  /\ Elsewhere(q) /\ req'[q] \in {Free} \cup Views
           /\ req[q] \in {Free} \cup Views
           /\ slips \subseteq slips' /\ UNCHANGED <<game, link, routing>>
           /\ kept' = kept \/ Write(q)
           /\ Write(q) => req'[q] = Free \/ req'[q].at = "mark"
           /\ StoresNothing(q)' => kept' = {} \/ "uncounted" \in slips'
<1>0. ~StoresNothing(q)' \/ req'[q] # Free
  BY FreeIsFree DEF StoresNothing, At
<1>1. CASE View(q)
  <2> DEFINE n == [op |-> "view", at |-> "throttle", rows |-> {}]
  <2>1. req[q] = Free /\ req'[q] = n /\ Elsewhere(q)
    BY <1>1, PageSlot DEF View
  <2>2. n \in Views /\ n.at = "throttle"
    BY DEF Views
  <2>3. UNCHANGED <<game, pageVars, slips>>
    BY <1>1 DEF View
  <2> HIDE DEF n
  <2>4. QED
    BY <2>1, <2>2, <2>3, FreeIsFree DEF pageVars, StoresNothing, At, Write
<1>2. CASE ReadStamp(q)
  <2>1. req[q] \in Views /\ req[q].at = "throttle" /\ (Done(q) \/ Goto(q, "fetch"))
    BY <1>2, PageShape DEF ReadStamp, At
  <2>2. Elsewhere(q) /\ (req'[q] = Free \/ (req'[q] \in Views /\ req'[q].at = "fetch"))
    BY <2>1, PageSlot, PageMoves
  <2>3. UNCHANGED <<game, pageVars, slips>>
    BY <1>2 DEF ReadStamp
  <2>4. QED
    BY <1>0, <2>1, <2>2, <2>3 DEF pageVars, StoresNothing, At, Write
<1>3. CASE FetchRoster(q)
  <2>1. req[q] \in Views /\ req[q].at = "fetch"
    BY <1>3, PageShape DEF FetchRoster, At
  <2>2. UNCHANGED <<game, pageVars, slips>>
    BY <1>3 DEF FetchRoster
  <2>3. Done(q) \/ \E rs \in SUBSET Parts[game] :
                       Fetched(q, rs, IF rs = {} THEN "count" ELSE "write")
    BY <1>3 DEF FetchRoster
  <2>4. CASE Done(q)
    BY <1>0, <2>1, <2>2, <2>4, PageSlot DEF pageVars, Write, At
  <2>5. CASE \E rs \in SUBSET Parts[game] : Fetched(q, rs, IF rs = {} THEN "count" ELSE "write")
    <3>1. PICK rs \in SUBSET Parts[game] : Fetched(q, rs, IF rs = {} THEN "count" ELSE "write")
      BY <2>5
    <3>2. rs \in SUBSET {"retail", "classic1x", "classic", "profile"}
      BY PartsTyped
    <3>3. Elsewhere(q) /\ req'[q] \in Views /\ req'[q].rows = rs
          /\ req'[q].at = IF rs = {} THEN "count" ELSE "write"
      BY <2>1, <3>1, <3>2, FetchedTyped
    <3>4. QED
      BY <2>1, <2>2, <3>3 DEF pageVars, StoresNothing, At, Write
  <2>6. QED
    BY <2>3, <2>4, <2>5
<1>4. CASE FetchProfile(q)
  <2>1. req[q] \in Views /\ req[q].at = "fetch" /\ ~IsWoW
    BY <1>4, PageShape DEF FetchProfile, At
  <2>2. UNCHANGED <<game, pageVars, slips>>
    BY <1>4 DEF FetchProfile
  <2>3. Done(q) \/ Goto(q, "mark") \/ Fetched(q, Parts[game], "write")
    BY <1>4 DEF FetchProfile
  <2>4. CASE Done(q)
    BY <1>0, <2>1, <2>2, <2>4, PageSlot DEF pageVars, Write, At
  <2>5. CASE Goto(q, "mark")
    <3>1. Elsewhere(q) /\ req'[q] \in Views /\ req'[q].at = "mark"
      BY <2>1, <2>5, PageSlot, PageMoves
    <3>2. QED
      BY <2>1, <2>2, <3>1 DEF pageVars, StoresNothing, At, Write
  <2>6. CASE Fetched(q, Parts[game], "write")
    <3>1. Elsewhere(q) /\ req'[q] \in Views /\ req'[q].rows = Parts[game]
      BY <2>1, <2>6, PartsTyped, FetchedTyped
    <3>2. QED
      BY <2>1, <2>2, <3>1, PartsTyped DEF pageVars, StoresNothing, At, Write
  <2>7. QED
    BY <2>3, <2>4, <2>5, <2>6
<1>5. CASE Count(q)
  <2>1. req[q] \in Views /\ req[q].at = "count"
    BY <1>5, PageShape DEF Count, At
  <2>2. UNCHANGED <<game, pageVars>> /\ slips \subseteq slips'
    BY <1>5 DEF Count
  <2>3. \/ Goto(q, "mark")
        \/ Goto(q, "write") /\ (kept = {} \/ "uncounted" \in slips')
    BY <1>5 DEF Count, Spared
  <2>4. CASE Goto(q, "mark")
    <3>1. Elsewhere(q) /\ req'[q] \in Views /\ req'[q].at = "mark"
      BY <2>1, <2>4, PageSlot, PageMoves
    <3>2. QED
      BY <2>1, <2>2, <3>1 DEF pageVars, StoresNothing, At, Write
  <2>5. CASE Goto(q, "write") /\ (kept = {} \/ "uncounted" \in slips')
    <3>1. Elsewhere(q) /\ req'[q] \in Views
      BY <2>1, <2>5, PageSlot, PageMoves
    <3>2. QED
      BY <2>1, <2>2, <2>5, <3>1 DEF pageVars, Write, At
  <2>6. QED
    BY <2>3, <2>4, <2>5
<1>6. CASE Write(q)
  <2>1. req[q] \in Views /\ (Done(q) \/ Goto(q, "mark"))
    BY <1>6, PageShape DEF Write, At
  <2>2. Elsewhere(q) /\ (req'[q] = Free \/ (req'[q] \in Views /\ req'[q].at = "mark"))
    BY <2>1, PageSlot, PageMoves
  <2>3. slips \subseteq slips' /\ UNCHANGED <<game, link, routing>>
    BY <1>6 DEF Write
  <2>4. QED
    BY <1>0, <1>6, <2>1, <2>2, <2>3 DEF StoresNothing, At
<1>7. CASE Mark(q)
  <2>1. req[q] \in Views /\ Done(q) /\ req[q].at = "mark"
    BY <1>7, PageShape DEF Mark, At
  <2>2. UNCHANGED <<game, link, routing, kept, slips>>
    BY <1>7 DEF Mark
  <2>3. QED
    BY <1>0, <2>1, <2>2, PageSlot DEF Write, At
<1>8. QED
  BY <1>1, <1>2, <1>3, <1>4, <1>5, <1>6, <1>7 DEF ViewStep

(* Whoever breaks the link, or stops repairing it, leaves it to someone.   *)
LEMMA LinkFrame ==
    ASSUME LinkInv, NEW q \in Slots, Elsewhere(q), UNCHANGED game, slips \subseteq slips',
           link' # "none" => link # "none" \/ Repairing(q)',
           routing # "none" => routing' # "none" \/ Repairing(q)',
           Repairing(q) => \/ Repairing(q)' \/ routing' # "none" \/ link' = "none"
                           \/ "half" \in slips'
    PROVE  LinkInv'
<1>1. \A s \in Slots : s # q => (Repairing(s)' <=> Repairing(s))
  BY OthersSame DEF Repairing, At
<1>2. SUFFICES ASSUME IsRiot', link' # "none", "half" \notin slips', ~Repairing(q)'
               PROVE  routing' # "none" \/ \E s \in Slots : Repairing(s)'
  BY DEF LinkInv
<1>3. IsRiot /\ link # "none" /\ "half" \notin slips
  BY <1>2 DEF IsRiot
<1>4. routing # "none" \/ \E s \in Slots : Repairing(s)
  BY <1>3 DEF LinkInv
<1>5. QED
  BY <1>1, <1>2, <1>4

(* A slot is written; what another is about to store stays excused.        *)
LEMMA RosterFrame ==
    ASSUME RosterInv, NEW q \in Slots, Elsewhere(q), slips \subseteq slips',
           \/ kept' = kept \/ kept' = {}
           \/ \A s \in Slots \ {q} : StoresNothing(s) => Uncertain',
           StoresNothing(q)' => kept' = {} \/ Uncertain'
    PROVE  RosterInv'
<1>1. \A s \in Slots : s # q => (StoresNothing(s)' <=> StoresNothing(s))
  BY OthersSame DEF StoresNothing, At
<1>2. Uncertain => Uncertain'
  BY DEF Uncertain
<1>3. QED
  BY <1>1, <1>2 DEF RosterInv

LEMMA LinkSteps ==
    ASSUME PageTypes, NEW q \in Slots, LinkStep(q)
    PROVE  /\ Elsewhere(q) /\ req'[q] \in {Free} \cup Linkings /\ IsRiot
           /\ UNCHANGED <<game, slips>> /\ (kept' = kept \/ kept' = {})
           /\ link' # "none" => link # "none" \/ Repairing(q)'
           /\ routing # "none" => routing' # "none" \/ Repairing(q)'
           /\ Repairing(q) => Repairing(q)' \/ routing' # "none" \/ link' = "none"
<1>1. ASSUME req[q].op \in {"connect", "disconnect", "region"} PROVE IsRiot /\ req[q] \in Linkings
  BY <1>1, PageShape DEF PageTypes
<1>2. ASSUME NEW r \in Linkings, Begin(q, r), IsRiot, UNCHANGED <<game, pageVars, slips>>
      PROVE  /\ Elsewhere(q) /\ req'[q] \in Linkings /\ ~Repairing(q)
             /\ UNCHANGED <<game, slips, kept, link, routing>>
  BY <1>2, PageSlot, FreeIsFree DEF Repairing, At, pageVars
<1>3. CASE Connect(q)
  <2>1. [op |-> "connect", at |-> "identity"] \in Linkings
    BY DEF Linkings
  <2>2. QED
    BY <1>2, <1>3, <2>1 DEF Connect
<1>4. CASE WriteIdentity(q)
  <2>1. req[q] \in Linkings /\ IsRiot /\ req[q].op = "connect" /\ Goto(q, "routing")
    BY <1>1, <1>4 DEF WriteIdentity, At
  <2>2. Elsewhere(q) /\ req'[q] \in Linkings /\ req'[q].op = "connect" /\ req'[q].at = "routing"
    BY <2>1, PageSlot, PageMoves
  <2>3. UNCHANGED <<game, slips, kept, routing>>
    BY <1>4 DEF WriteIdentity
  <2>4. QED
    BY <2>1, <2>2, <2>3 DEF Repairing, At
<1>5. CASE WriteRouting(q)
  <2>1. req[q] \in Linkings /\ IsRiot /\ req[q].op = "connect"
    BY <1>1, <1>5 DEF WriteRouting, At
  <2>2. UNCHANGED <<game, slips, kept, link>>
    BY <1>5 DEF WriteRouting
  <2>3. \/ routing' # "none" /\ Done(q)
        \/ UNCHANGED routing /\ Goto(q, "undo")
    BY <1>5 DEF WriteRouting, Routed
  <2>4. CASE routing' # "none" /\ Done(q)
    BY <2>1, <2>2, <2>4, PageSlot
  <2>5. CASE UNCHANGED routing /\ Goto(q, "undo")
    <3>1. Elsewhere(q) /\ req'[q] \in Linkings /\ req'[q].op = "connect" /\ req'[q].at = "undo"
      BY <2>1, <2>5, PageSlot, PageMoves
    <3>2. QED
      BY <2>1, <2>2, <2>5, <3>1 DEF Repairing, At
  <2>6. QED
    BY <2>3, <2>4, <2>5
<1>6. CASE UndoIdentity(q)
  <2>1. IsRiot /\ Done(q) /\ link' = "none" /\ UNCHANGED <<game, slips, kept, routing>>
    BY <1>1, <1>6 DEF UndoIdentity, DeleteIdentity, At
  <2>2. QED
    BY <2>1, PageSlot
<1>7. CASE Disconnect(q)
  <2>1. [op |-> "disconnect", at |-> "first"] \in Linkings
    BY DEF Linkings
  <2>2. QED
    BY <1>2, <1>7, <2>1 DEF Disconnect
<1>8. CASE DisconnectStep(q, "first")
  <2>1. req[q] \in Linkings /\ IsRiot /\ req[q].op = "disconnect" /\ Goto(q, "second")
    BY <1>1, <1>8 DEF DisconnectStep, At
  <2>2. Elsewhere(q) /\ req'[q] \in Linkings /\ req'[q].op = "disconnect" /\ req'[q].at = "second"
    BY <2>1, PageSlot, PageMoves
  <2>3. UNCHANGED <<game, slips, link>> /\ kept' = {}
    BY <1>8 DEF DisconnectStep, DisconnectOrder
  <2>4. QED
    BY <2>1, <2>2, <2>3 DEF Repairing, At
<1>9. CASE DisconnectStep(q, "second")
  <2>1. IsRiot /\ Done(q) /\ link' = "none" /\ UNCHANGED <<game, slips, kept, routing>>
    BY <1>1, <1>9 DEF DisconnectStep, DisconnectOrder, At
  <2>2. QED
    BY <2>1, PageSlot
<1>10. CASE CorrectRegion(q)
  <2>1. [op |-> "region", at |-> "write"] \in Linkings
    BY DEF Linkings
  <2>2. QED
    BY <1>2, <1>10, <2>1 DEF CorrectRegion
<1>11. CASE WriteRegion(q)
  <2>1. IsRiot /\ Done(q) /\ routing' # "none" /\ UNCHANGED <<game, slips, kept, link>>
    BY <1>1, <1>11 DEF WriteRegion, Routed, At
  <2>2. QED
    BY <2>1, PageSlot
<1>12. QED
  BY <1>3, <1>4, <1>5, <1>6, <1>7, <1>8, <1>9, <1>10, <1>11 DEF LinkStep

LEMMA SwitchSteps ==
    ASSUME PageTypes, NEW q \in Slots, SwitchStep(q)
    PROVE  /\ Elsewhere(q) /\ req'[q] \in {Free} \cup Switches
           /\ req[q] \in {Free} \cup Switches
           /\ UNCHANGED <<game, slips, kept, link, routing>>
<1>1. ASSUME NEW on \in BOOLEAN, SetPlugin(q, on)
      PROVE  /\ Elsewhere(q) /\ req'[q] \in Switches /\ req[q] = Free
             /\ UNCHANGED <<game, slips, kept, link, routing>>
  <2>1. [op |-> "switch", at |-> "table", on |-> on] \in Switches
    BY DEF Switches
  <2>2. QED
    BY <1>1, <2>1, PageSlot DEF SetPlugin, pageVars
<1>2. CASE WriteFlag(q)
  <2>1. req[q] \in Switches /\ Goto(q, "cache") /\ UNCHANGED <<game, slips, kept, link, routing>>
    BY <1>2, PageShape DEF WriteFlag, At
  <2>2. QED
    BY <2>1, PageSlot, PageMoves
<1>3. CASE WriteCache(q)
  <2>1. req[q] \in Switches /\ Done(q) /\ UNCHANGED <<game, slips, kept, link, routing>>
    BY <1>3, PageShape DEF WriteCache, At
  <2>2. QED
    BY <2>1, PageSlot
<1>4. QED
  BY <1>1, <1>2, <1>3 DEF SwitchStep

-----------------------------------------------------------------------------
PageInv == PageTypes /\ LinkInv /\ RosterInv

LEMMA PageInvInit == PageInit => PageInv
<1> SUFFICES ASSUME PageInit PROVE PageInv
  OBVIOUS
<1>1. \A q \in Slots : req[q] = Free /\ req[q].op = "free"
  BY FreeIsFree DEF PageInit
<1>2. game \in {"wow", "classic", "profile", "lol"}
  BY DEF PageInit, Parts
<1>3. PageTypes
  BY <1>1, <1>2 DEF PageInit, PageTypes, PageRequests, Linkings
<1>4. LinkInv /\ RosterInv
  BY <1>1 DEF PageInit, LinkInv, RosterInv, StoresNothing, At
<1>5. QED
  BY <1>3, <1>4 DEF PageInv

(* A request that never is to do with the link, or stores nothing.         *)
LEMMA Bystanders ==
    ASSUME NEW q \in Slots
    PROVE  /\ req[q] \in {Free} \cup Views \cup Switches => ~Repairing(q)
           /\ req[q] \in {Free} \cup Linkings \cup Switches => ~StoresNothing(q)
           /\ req[q] \in {Free} \cup Views \cup Switches => req[q] \notin Linkings
<1>1. Free.op = "free"
  BY FreeIsFree
<1>2. QED
  BY <1>1 DEF Repairing, StoresNothing, At, Views, Switches, Linkings

LEMMA PageInvKept == PageInv /\ [PageNext]_allVars => PageInv'
<1> SUFFICES ASSUME PageInv, [PageNext]_allVars PROVE PageInv'
  OBVIOUS
<1> USE DEF PageInv
<1>1. ASSUME NEW q \in Slots, ViewStep(q) PROVE PageInv'
  <2>1. /\ Elsewhere(q) /\ req'[q] \in {Free} \cup Views /\ ~Repairing(q)
        /\ slips \subseteq slips' /\ UNCHANGED <<game, link, routing>>
        /\ kept' = kept \/ Write(q)
        /\ StoresNothing(q)' => kept' = {} \/ Uncertain'
    BY <1>1, ViewSteps, Bystanders DEF Uncertain
  <2>2. PageTypes'
    <3>1. req'[q] \notin Linkings
      BY <2>1, FreeIsFree DEF Views, Linkings
    <3>2. QED
      BY <2>1, <3>1, PageTyped DEF PageRequests
  <2>3. LinkInv'
    BY <2>1, LinkFrame
  <2>4. ASSUME Write(q), NEW s \in Slots \ {q}, StoresNothing(s) PROVE Uncertain'
    <3>1. s \in InFlight(q, "view") /\ req[s].at = "write"
      BY <2>4 DEF InFlight, StoresNothing, At
    <3>2. "straddled" \in slips'
      BY <2>4, <3>1 DEF Write, Straddled
    <3>3. QED
      BY <3>2 DEF Uncertain
  <2>5. RosterInv'
    BY <2>1, <2>4, RosterFrame
  <2>6. QED
    BY <2>2, <2>3, <2>5
<1>2. ASSUME NEW q \in Slots, LinkStep(q) PROVE PageInv'
  <2>1. PageTypes'
    BY <1>2, LinkSteps, PageTyped DEF PageRequests
  <2>2. LinkInv'
    BY <1>2, LinkSteps, LinkFrame
  <2>3. ~StoresNothing(q)'
    <3>1. req'[q] \in {Free} \cup Linkings
      BY <1>2, LinkSteps
    <3>2. QED
      BY <3>1, FreeIsFree DEF StoresNothing, At, Linkings
  <2>4. RosterInv'
    BY <1>2, <2>3, LinkSteps, RosterFrame
  <2>5. QED
    BY <2>1, <2>2, <2>4
<1>3. ASSUME NEW q \in Slots, SwitchStep(q) PROVE PageInv'
  <2>1. /\ Elsewhere(q) /\ req'[q] \in {Free} \cup Switches /\ ~Repairing(q)
        /\ UNCHANGED <<game, slips, kept, link, routing>>
    BY <1>3, SwitchSteps, Bystanders
  <2>2. req'[q] \notin Linkings /\ ~StoresNothing(q)'
    BY <2>1, FreeIsFree DEF Switches, Linkings, StoresNothing, At
  <2>3. PageTypes'
    BY <2>1, <2>2, PageTyped DEF PageRequests
  <2>4. LinkInv' /\ RosterInv'
    BY <2>1, <2>2, LinkFrame, RosterFrame
  <2>5. QED
    BY <2>3, <2>4
<1>4. ASSUME NEW q \in Slots, Fail(q) PROVE PageInv'
  <2>1. /\ Elsewhere(q) /\ req'[q] = Free /\ UNCHANGED <<game, link, routing, kept>>
        /\ slips' = IF Halfway(q) THEN slips \cup {"half"} ELSE slips
    BY <1>4, PageSlot DEF Fail, pageVars
  <2>2. req'[q] \notin Linkings /\ ~StoresNothing(q)'
    BY <2>1, FreeIsFree DEF Linkings, StoresNothing, At
  <2>3. Repairing(q) => "half" \in slips'
    BY <1>4, <2>1 DEF Fail, Repairing, Halfway, At
  <2>4. slips \subseteq slips'
    BY <2>1
  <2>5. PageTypes'
    BY <2>1, <2>2, PageTyped DEF PageRequests
  <2>6. LinkInv' /\ RosterInv'
    BY <2>1, <2>2, <2>3, <2>4, LinkFrame, RosterFrame
  <2>7. QED
    BY <2>5, <2>6
<1>5. CASE LinkBattlenet
  <2>1. ~IsRiot /\ ~IsRiot' /\ UNCHANGED <<game, kept, req, slips>>
    BY <1>5 DEF LinkBattlenet, IsRiot
  <2>2. QED
    BY <2>1 DEF PageTypes, LinkInv, RosterInv, StoresNothing, Uncertain, At
<1>6. CASE Restart
  <2>1. /\ \A q \in Slots : req'[q] = Free /\ req'[q].op = "free"
        /\ req' \in [Slots -> PageRequests]
        /\ UNCHANGED <<game, link, routing, kept>>
    BY <1>6, FreeIsFree DEF Restart, PageRequests
  <2>2. /\ slips \subseteq slips'
        /\ (\E q \in Slots : Repairing(q)) => "half" \in slips'
    BY <1>6 DEF Restart, Repairing, Halfway
  <2>3. PageTypes'
    BY <2>1 DEF PageTypes, Linkings
  <2>4. LinkInv'
    BY <2>1, <2>2 DEF LinkInv, IsRiot
  <2>5. RosterInv'
    BY <2>1 DEF RosterInv, StoresNothing, At
  <2>6. QED
    BY <2>3, <2>4, <2>5
<1>7. CASE Elapse \/ UNCHANGED allVars
  <2>1. /\ UNCHANGED <<game, req, slips, kept, routing>>
        /\ UNCHANGED link \/ ~IsRiot
    BY <1>7 DEF Elapse, allVars, pageVars
  <2>2. QED
    BY <2>1 DEF PageTypes, LinkInv, RosterInv, StoresNothing, Uncertain, At, Repairing, IsRiot
<1>8. QED
  BY <1>1, <1>2, <1>3, <1>4, <1>5, <1>6, <1>7 DEF PageNext

(* The same of the page of a game: a link that lacks its routing is being   *)
(* repaired by the handler that wrote it, and an empty answer about to be  *)
(* stored replaces nothing (connect_riot.go, bnetsync/syncer.go).          *)
THEOREM PageInvariant == PageSpec => []PageInv
  BY PageInvInit, PageInvKept, PTL DEF PageSpec

(* Identity and routing of a Riot account are there together whenever no    *)
(* request is in flight, however many linked, unlinked or corrected it at   *)
(* once, unless a handler broke off halfway (connect_riot.go).              *)
THEOREM LinkStaysWhole == PageSpec => []LinkWhole
<1>1. PageInv => LinkWhole
  <2>1. (\A q \in Slots : req[q] = Free) => \A q \in Slots : ~Repairing(q)
    BY FreeIsFree DEF Repairing, At
  <2>2. QED
    BY <2>1 DEF PageInv, LinkInv, LinkWhole
<1>2. QED
  BY <1>1, PageInvariant, PTL

(* An empty answer of Blizzard replaces no stored roster, with any number   *)
(* of views at once, unless the count failed or another view stored one     *)
(* after it (bnetsync/syncer.go).                                           *)
THEOREM RosterStays == PageSpec => RosterKept
<1>1. PageInv /\ [PageNext]_allVars
      => [kept # {} /\ kept' = {} => IsRiot \/ {"uncounted", "straddled"} \cap slips # {}]_allVars
  <2> SUFFICES ASSUME PageInv, [PageNext]_allVars, kept # {}, kept' = {}
               PROVE  IsRiot \/ Uncertain
    BY DEF Uncertain
  <2>1. ASSUME NEW q \in Slots, ViewStep(q) PROVE Uncertain
    <3>1. Write(q)
      BY <2>1, ViewSteps DEF PageInv
    <3>2. StoresNothing(q)
      BY <3>1 DEF Write, StoresNothing
    <3>3. QED
      BY <3>2 DEF PageInv, RosterInv
  <2>2. ASSUME NEW q \in Slots, LinkStep(q) PROVE IsRiot
    BY <2>2, LinkSteps DEF PageInv
  <2>3. ASSUME NEW q \in Slots, SwitchStep(q) \/ Fail(q) PROVE FALSE
    BY <2>3, SwitchSteps DEF PageInv, Fail, pageVars
  <2>4. CASE LinkBattlenet \/ Restart \/ Elapse \/ UNCHANGED allVars
    BY <2>4 DEF LinkBattlenet, Restart, Elapse, allVars, pageVars
  <2>5. QED
    BY <2>1, <2>2, <2>3, <2>4 DEF PageNext
<1>2. QED
  BY <1>1, PageInvariant, PTL DEF PageSpec, RosterKept
=============================================================================
