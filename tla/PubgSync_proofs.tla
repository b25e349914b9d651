-------------------------- MODULE PubgSync_proofs --------------------------
(* Type correctness of PubgSync, the collection of every match in time     *)
(* and, with one request at a time per member, links that resolve: for any *)
(* members, accounts, retention, requests and restarts.                    *)
EXTENDS PubgSync, TLAPS

(* What the pass read about a member whose link was not written today is   *)
(* still the case.                                                         *)
SameLink(t) ==
    since[t.member] < day => link[t.member] = t.account /\ shard[t.member] = t.shard

LinksKnown == (\A t \in todo : SameLink(t)) /\ (at = "walk" => SameLink(cur))

(* The pass of the day will still come to this match. *)
Coming(m, x) ==
    \/ due
    \/ \E t \in todo : t.member = m
    \/ at = "walk" /\ cur.member = m /\ x \in left

Late(m, x) == Owed(m, x) /\ x.day < day /\ <<m, x>> \notin stored

(* Fewer calls fail than there are passes within the retention. *)
Slack == MaxTrouble < Retention - 1

(* A match that is still missing has cost a failure on every day it was    *)
(* there to be collected; today's counts once its turn has passed.         *)
FailuresPaid ==
    \A m \in Members, x \in played :
        Late(m, x) => /\ trouble >= Age(x) - 1
                      /\ Coming(m, x) \/ trouble >= Age(x)

IInv == TypeOK /\ LinksKnown /\ (Slack => FailuresPaid)

OneAtATime == \A q, r \in Requests : Caller[q] = Caller[r] => q = r

(* The second write of a link is about the account of the first, and a     *)
(* link between whose writes nothing stands resolves.                      *)
Pending ==
    \A r \in Requests : step[r] \in {"routing", "rerouting"} => link[Caller[r]] = typed[r]

Whole(m) == \A r \in Requests : Caller[r] = m => ~Halfway(r)

WholeResolve ==
    \A m \in Members \ torn : Whole(m) /\ Linked(m) => ShardOf[link[m]] = shard[m]

RInv == TypeOK /\ Pending /\ WholeResolve

USE MembersAssumption, ShardAssumption, LinkAssumption, RetentionAssumption, PubgBounds

-----------------------------------------------------------------------------
(* Types                                                                   *)

LEMMA InitType == Init => TypeOK
  BY DEF Init, TypeOK, Steps

(* The steps of the pass keep the types. *)
LEMMA PassType == TypeOK /\ (PassGoesOn \/ PassStumbles) => TypeOK'
<1> SUFFICES ASSUME TypeOK, PassGoesOn \/ PassStumbles PROVE TypeOK'
  OBVIOUS
<1>1. CASE BeginPass
  <2>1. \A m \in Members : Linked(m) => LinkOf(m) \in Links
    BY DEF TypeOK, Linked, LinkOf, Links
  <2>2. todo' \subseteq Links
    BY <1>1, <2>1 DEF BeginPass
  <2>3. due' \in BOOLEAN /\ ~due'
    BY <1>1 DEF BeginPass
  <2>4. /\ at = "idle" /\ at' = "pass"
        /\ UNCHANGED <<day, played, stored, rows, cur, left, requests, torn, trouble, links>>
    BY <1>1 DEF BeginPass
  <2>5. QED
    BY <2>2, <2>3, <2>4 DEF TypeOK, rows, requests
<1>2. CASE PassFails
  <2>1. due' \in BOOLEAN /\ ~due'
    BY <1>2 DEF PassFails
  <2>2. /\ trouble < MaxTrouble /\ trouble' = trouble + 1
        /\ UNCHANGED <<day, played, stored, rows, pass, requests, torn, links>>
    BY <1>2 DEF PassFails, Trouble
  <2>3. QED
    BY <2>1, <2>2 DEF TypeOK, pass, rows, requests
<1>3. ASSUME NEW t \in todo, ListMatches(t) PROVE TypeOK'
  <2>1. t \in Links /\ t.account \in Accounts
    BY <1>3 DEF TypeOK, Links
  <2>2. left' \subseteq played
    <3>1. PICK S \in SUBSET Fading(t.account) :
              left' = Missing(t.member, Kept(t.account) \cup S)
      BY <1>3 DEF ListMatches
    <3>2. left' \subseteq Kept(t.account) \cup Fading(t.account)
      BY <3>1 DEF Missing
    <3>3. QED
      BY <3>2 DEF Kept, Fading
  <2>3. /\ at' = "walk" /\ cur' = t /\ todo' \subseteq todo /\ ~due
        /\ UNCHANGED <<day, due, played, stored, rows, requests, torn, trouble, links>>
    BY <1>3 DEF ListMatches, TypeOK
  <2>4. QED
    BY <2>1, <2>2, <2>3 DEF TypeOK, rows, requests
<1>4. ASSUME NEW t \in todo, Unresolved(t) PROVE TypeOK'
  BY <1>4 DEF Unresolved, TypeOK, rows, requests
<1>5. ASSUME NEW t \in todo, SkipMember(t) PROVE TypeOK'
  BY <1>5 DEF SkipMember, Trouble, TypeOK, rows, requests
<1>6. ASSUME NEW x \in left, StoreMatch(x) PROVE TypeOK'
  <2>1. cur.member \in Members /\ x \in played
    BY <1>6 DEF StoreMatch, TypeOK, Links
  <2>2. stored' \subseteq Members \X played'
    BY <1>6, <2>1 DEF StoreMatch, TypeOK
  <2>3. QED
    BY <1>6, <2>2 DEF StoreMatch, TypeOK, rows, requests
<1>7. ASSUME NEW x \in left, SkipMatch(x) PROVE TypeOK'
  BY <1>7 DEF SkipMatch, TypeOK, rows, requests
<1>8. ASSUME NEW x \in left, LeaveMatch(x) PROVE TypeOK'
  BY <1>8 DEF LeaveMatch, Trouble, TypeOK, rows, requests
<1>9. CASE MemberDone
  BY <1>9 DEF MemberDone, WalkOver, TypeOK, rows, requests
<1>10. CASE PassDone
  BY <1>10 DEF PassDone, TypeOK, rows, requests
<1>11. QED
  BY <1>1, <1>2, <1>3, <1>4, <1>5, <1>6, <1>7, <1>8, <1>9, <1>10 DEF PassGoesOn, PassStumbles

(* Requests keep the types, and write about their caller alone. *)
LEMMA RequestType == TypeOK /\ (\E r \in Requests : Request(r)) => TypeOK'
<1> SUFFICES ASSUME TypeOK, NEW r \in Requests, Request(r) PROVE TypeOK'
  OBVIOUS
<1> USE DEF rows, pass, requests, Steps
<1>0. Caller[r] \in Members
  OBVIOUS
<1>1. ASSUME NEW a \in Accounts, NEW s \in {"identity", "correction"}, Resolved(r, a, s)
      PROVE  TypeOK'
  BY <1>1 DEF Resolved, TypeOK
<1>2. CASE WriteIdentity(r)
  <2>1. CASE Ends(r) /\ UNCHANGED <<link, since>>
    BY <1>2, <2>1 DEF WriteIdentity, Ends, TypeOK
  <2>2. CASE /\ link' = [link EXCEPT ![Caller[r]] = typed[r]]
             /\ Write(Caller[r])
             /\ At(r, IF step[r] = "identity" THEN "routing" ELSE "rerouting")
    <3>1. typed[r] \in Accounts /\ UNCHANGED typed
      BY <1>2, <2>2 DEF WriteIdentity, At, TypeOK
    <3>2. /\ step' \in [Requests -> Steps]
          /\ \A q \in Requests : step'[q] \notin {"idle", "unlink"} => typed[q] # Nothing
      BY <2>2, <3>1 DEF At, TypeOK
    <3>3. since' \in [Members -> 0..day] /\ link' \in [Members -> Accounts \cup {Nothing}]
      BY <2>2, <3>1, <1>0 DEF Write, TypeOK
    <3>4. QED
      BY <1>2, <3>1, <3>2, <3>3 DEF WriteIdentity, TypeOK
  <2>3. QED
    BY <1>2, <2>1, <2>2 DEF WriteIdentity
<1>3. CASE WriteRouting(r)
  <2>1. typed[r] \in Accounts /\ ShardOf[typed[r]] \in Shards
    BY <1>3 DEF WriteRouting, TypeOK
  <2>2. since' \in [Members -> 0..day] /\ shard' \in [Members -> Shards \cup {Nothing}]
    BY <1>3, <2>1, <1>0 DEF WriteRouting, Write, TypeOK
  <2>3. QED
    BY <1>3, <2>2 DEF WriteRouting, Ends, TypeOK
<1>4. CASE RoutingFails(r)
  <2>1. CASE step[r] = "routing" /\ RollsBack(r) /\ UNCHANGED torn
    BY <1>4, <2>1 DEF RoutingFails, RollsBack, At, Trouble, TypeOK
  <2>2. CASE Ends(r) /\ torn' = torn \cup {Caller[r]}
    BY <1>4, <2>2, <1>0 DEF RoutingFails, Ends, Trouble, TypeOK
  <2>3. QED
    BY <1>4, <2>1, <2>2 DEF RoutingFails
<1>5. CASE Disconnect(r)
  <2>1. since' \in [Members -> 0..day] /\ shard' \in [Members -> Shards \cup {Nothing}]
    BY <1>5, <1>0 DEF Disconnect, Write, TypeOK
  <2>2. QED
    BY <1>5, <2>1 DEF Disconnect, At, TypeOK
<1>6. CASE Unlink(r)
  <2>1. since' \in [Members -> 0..day] /\ link' \in [Members -> Accounts \cup {Nothing}]
    BY <1>6, <1>0 DEF Unlink, Write, TypeOK
  <2>2. QED
    BY <1>6, <2>1 DEF Unlink, Ends, TypeOK
<1>7. CASE RequestFails(r)
  BY <1>7, <1>0 DEF RequestFails, Ends, Trouble, TypeOK
<1>8. QED
  BY <1>1, <1>2, <1>3, <1>4, <1>5, <1>6, <1>7 DEF Request, Connect, Correct

(* Every step keeps the types. *)
LEMMA NextType == TypeOK /\ [Next]_vars => TypeOK'
<1> SUFFICES ASSUME TypeOK, [Next]_vars PROVE TypeOK'
  OBVIOUS
<1>1. ASSUME NEW a \in Accounts, Play(a) PROVE TypeOK'
  <2>1. [account |-> a, day |-> day] \in Matches
    BY DEF Matches, TypeOK
  <2>2. QED
    BY <1>1, <2>1 DEF Play, TypeOK, rows, pass, requests
<1>2. CASE Restart
  <2>1. torn' \subseteq Members
    BY <1>2 DEF Restart, TypeOK
  <2>2. QED
    BY <1>2, <2>1 DEF Restart, WalkOver, TypeOK, rows, Steps
<1>3. CASE Tick
  <2>1. \A x \in played : x \in Matches /\ x.day \in Nat
    BY DEF TypeOK, Matches
  <2>2. since' \in [Members -> 0..day']
    BY <1>3 DEF Tick, TypeOK, rows
  <2>3. QED
    BY <1>3, <2>1, <2>2 DEF Tick, TypeOK, rows, pass, requests
<1>4. CASE UNCHANGED vars
  BY <1>4 DEF vars, TypeOK, rows, pass, requests
<1>5. QED
  BY <1>1, <1>2, <1>3, <1>4, PassType, RequestType DEF Next

-----------------------------------------------------------------------------
(* Collection in time                                                      *)

(* A request touches no more than its caller's link, and dates it. *)
LEMMA RequestWrites ==
    ASSUME TypeOK, NEW r \in Requests, Request(r)
    PROVE  /\ UNCHANGED <<day, due, played, stored, at, todo, cur, left>>
           /\ trouble' >= trouble
           /\ \A m \in Members :
                 \/ since'[m] = day
                 \/ link'[m] = link[m] /\ shard'[m] = shard[m] /\ since'[m] = since[m]
<1> USE DEF pass, rows
<1>1. CASE \E a \in Accounts : Connect(r, a) \/ Correct(r, a)
  BY <1>1 DEF Connect, Correct, Resolved, TypeOK
<1>2. CASE WriteIdentity(r)
  BY <1>2 DEF WriteIdentity, Write, TypeOK
<1>3. CASE WriteRouting(r)
  BY <1>3 DEF WriteRouting, Write, TypeOK
<1>4. CASE RoutingFails(r)
  BY <1>4 DEF RoutingFails, Trouble, TypeOK
<1>5. CASE Disconnect(r)
  BY <1>5 DEF Disconnect, Write, TypeOK
<1>6. CASE Unlink(r)
  BY <1>6 DEF Unlink, Write, TypeOK
<1>7. CASE RequestFails(r)
  BY <1>7 DEF RequestFails, Trouble, TypeOK
<1>8. QED
  BY <1>1, <1>2, <1>3, <1>4, <1>5, <1>6, <1>7 DEF Request

(* The pass writes no link and moves no clock. *)
LEMMA PassWrites ==
    ASSUME TypeOK, PassGoesOn \/ PassStumbles
    PROVE  /\ UNCHANGED <<day, played, link, shard, since>>
           /\ trouble' >= trouble /\ stored \subseteq stored'
<1> USE DEF rows
<1>1. CASE BeginPass \/ MemberDone \/ PassDone
  BY <1>1 DEF BeginPass, MemberDone, PassDone, TypeOK
<1>2. CASE \E t \in todo : ListMatches(t) \/ Unresolved(t)
  BY <1>2 DEF ListMatches, Unresolved, TypeOK
<1>3. CASE \E x \in left : StoreMatch(x) \/ SkipMatch(x)
  BY <1>3 DEF StoreMatch, SkipMatch, TypeOK
<1>4. CASE PassStumbles
  BY <1>4 DEF PassStumbles, PassFails, SkipMember, LeaveMatch, Trouble, TypeOK
<1>5. QED
  BY <1>1, <1>2, <1>3, <1>4 DEF PassGoesOn

(* What the pass read stays true of links that are not written. *)
LEMMA LinksStayKnown ==
    ASSUME TypeOK, LinksKnown, [Next]_vars
    PROVE  LinksKnown'
<1> USE DEF LinksKnown, SameLink
<1>1. CASE PassGoesOn \/ PassStumbles
  <2>1. UNCHANGED <<day, link, shard, since>>
    BY <1>1, PassWrites
  <2>2. CASE BeginPass
    <3>1. at' = "pass" /\ \A t \in todo' : \E m \in Members : t = LinkOf(m)
      BY <2>2 DEF BeginPass
    <3>2. QED
      BY <2>1, <3>1 DEF LinkOf
  <2>3. CASE PassFails
    BY <2>1, <2>3 DEF PassFails, pass
  <2>4. ASSUME NEW t \in todo, ListMatches(t) \/ Unresolved(t) \/ SkipMember(t)
        PROVE  LinksKnown'
    <3>1. /\ todo' \subseteq todo
          /\ (at' = "walk" /\ cur' = t) \/ UNCHANGED <<at, cur>>
      BY <2>4 DEF ListMatches, Unresolved, SkipMember
    <3>2. QED
      BY <2>1, <3>1
  <2>5. ASSUME NEW x \in left, StoreMatch(x) \/ SkipMatch(x) \/ LeaveMatch(x)
        PROVE  LinksKnown'
    BY <2>1, <2>5 DEF StoreMatch, SkipMatch, LeaveMatch
  <2>6. CASE MemberDone \/ PassDone
    BY <2>1, <2>6 DEF MemberDone, PassDone
  <2>7. QED
    BY <1>1, <2>2, <2>3, <2>4, <2>5, <2>6 DEF PassGoesOn, PassStumbles
<1>2. ASSUME NEW r \in Requests, Request(r) PROVE LinksKnown'
  <2>1. /\ \A t \in todo : t.member \in Members
        /\ at = "walk" => cur.member \in Members
    BY DEF TypeOK, Links
  <2>2. /\ UNCHANGED <<day, at, todo, cur>>
        /\ \A m \in Members :
              \/ since'[m] = day
              \/ link'[m] = link[m] /\ shard'[m] = shard[m] /\ since'[m] = since[m]
    BY <1>2, RequestWrites
  <2>3. \A t : t.member \in Members /\ SameLink(t) => SameLink(t)'
    BY <2>2 DEF TypeOK
  <2>4. QED
    BY <2>1, <2>2, <2>3
<1>3. ASSUME NEW a \in Accounts, Play(a) PROVE LinksKnown'
  BY <1>3 DEF Play, rows, pass
<1>4. CASE Restart
  BY <1>4 DEF Restart
<1>5. CASE Tick
  BY <1>5 DEF Tick, TypeOK, pass
<1>6. CASE UNCHANGED vars
  BY <1>6 DEF vars, rows, pass
<1>7. QED
  BY <1>1, <1>2, <1>3, <1>4, <1>5, <1>6 DEF Next

(* With slack, whatever is still missing is still kept by the publisher.   *)
LEMMA StillKept ==
    ASSUME Slack, IInv, NEW m \in Members, NEW x \in played, Late(m, x)
    PROVE  /\ Age(x) \in Int /\ trouble \in Int
           /\ trouble >= Age(x) - 1 /\ Age(x) < Retention
           /\ Coming(m, x) \/ trouble >= Age(x)
<1>1. /\ x.day \in Nat /\ day \in Nat /\ trouble \in 0..MaxTrouble
  BY DEF IInv, TypeOK, Matches
<1>2. trouble >= Age(x) - 1 /\ (Coming(m, x) \/ trouble >= Age(x))
  BY DEF IInv, FailuresPaid
<1>3. QED
  BY <1>1, <1>2 DEF Slack, Age

(* Every step of the pass pays for what it leaves. *)
LEMMA PassPays ==
    ASSUME Slack, IInv, PassGoesOn \/ PassStumbles
    PROVE  FailuresPaid'
<1>1. /\ UNCHANGED <<day, played, link, shard, since>>
      /\ trouble' >= trouble /\ stored \subseteq stored' /\ TypeOK /\ TypeOK'
  BY PassWrites, PassType DEF IInv
<1> SUFFICES ASSUME NEW m \in Members, NEW x \in played, Late(m, x)'
             PROVE  trouble' >= Age(x) - 1 /\ (Coming(m, x)' \/ trouble' >= Age(x))
  BY <1>1 DEF FailuresPaid, Age
<1>2. Late(m, x)
  BY <1>1 DEF Late, Owed, Resolves, Linked
<1>3. /\ Age(x) \in Int /\ trouble \in Int /\ trouble' \in Int
      /\ trouble >= Age(x) - 1 /\ Age(x) < Retention
      /\ Coming(m, x) \/ trouble >= Age(x)
  BY <1>1, <1>2, StillKept DEF TypeOK
<1>4. trouble' >= Age(x) - 1
  BY <1>1, <1>3
<1>5. since[m] < day
  BY <1>1, <1>2 DEF Late, Owed, TypeOK, Matches
<1>6. CASE trouble >= Age(x) \/ trouble' = trouble + 1
  BY <1>1, <1>3, <1>4, <1>6
<1>7. ASSUME Coming(m, x), PassGoesOn PROVE Coming(m, x)'
  <2>1. CASE BeginPass
    <3>1. Linked(m) /\ LinkOf(m).member = m
      BY <1>2 DEF Late, Owed, Resolves, LinkOf
    <3>2. LinkOf(m) \in todo'
      BY <2>1, <3>1 DEF BeginPass
    <3>3. QED
      BY <3>1, <3>2 DEF Coming
  <2>2. CASE MemberDone
    BY <1>7, <2>2 DEF MemberDone, Coming
  <2>3. CASE PassDone
    BY <1>7, <2>3 DEF PassDone, Coming
  <2>4. ASSUME NEW t \in todo, ListMatches(t) PROVE Coming(m, x)'
    <3>1. ~due /\ at # "walk" /\ todo' = todo \ {t} /\ at' = "walk" /\ cur' = t
      BY <2>4, <1>1 DEF ListMatches, TypeOK
    <3>2. CASE t.member = m
      <4>1. link[m] = t.account
        BY <3>2, <1>5 DEF IInv, LinksKnown, SameLink
      <4>2. x \in Kept(t.account) /\ <<m, x>> \notin stored
        BY <4>1, <1>2, <1>3 DEF Late, Owed, Kept
      <4>3. x \in left'
        BY <2>4, <3>2, <4>2 DEF ListMatches, Missing
      <4>4. QED
        BY <3>1, <3>2, <4>3 DEF Coming
    <3>3. CASE t.member # m
      BY <3>1, <3>3, <1>7 DEF Coming
    <3>4. QED
      BY <3>2, <3>3
  <2>5. ASSUME NEW t \in todo, Unresolved(t) PROVE Coming(m, x)'
    <3>1. t.member # m
      BY <2>5, <1>2, <1>5 DEF Unresolved, IInv, LinksKnown, SameLink, Late, Owed, Resolves
    <3>2. QED
      BY <2>5, <3>1, <1>7 DEF Unresolved, Coming
  <2>6. ASSUME NEW y \in left, StoreMatch(y) PROVE Coming(m, x)'
    <3>1. cur.member = m => x # y
      BY <2>6, <1>1 DEF StoreMatch, Late
    <3>2. QED
      BY <2>6, <3>1, <1>7 DEF StoreMatch, Coming
  <2>7. ASSUME NEW y \in left, SkipMatch(y) PROVE Coming(m, x)'
    <3>1. x # y
      BY <2>7, <1>2, <1>3 DEF SkipMatch, Late, Owed
    <3>2. QED
      BY <2>7, <3>1, <1>7 DEF SkipMatch, Coming
  <2>8. QED
    BY <1>7, <2>1, <2>2, <2>3, <2>4, <2>5, <2>6, <2>7 DEF PassGoesOn
<1>8. CASE PassStumbles
  BY <1>8, <1>6 DEF PassStumbles, PassFails, SkipMember, LeaveMatch, Trouble
<1>9. QED
  BY <1>3, <1>4, <1>6, <1>7, <1>8

(* Every other step, too. *)
LEMMA FailuresArePaid ==
    ASSUME Slack, IInv, [Next]_vars
    PROVE  FailuresPaid'
<1>0. TypeOK /\ TypeOK'
  BY NextType DEF IInv
<1>1. ASSUME NEW r \in Requests, Request(r) PROVE FailuresPaid'
  <2>1. /\ UNCHANGED <<day, due, played, stored, at, todo, cur, left>> /\ trouble' >= trouble
    BY <1>0, <1>1, RequestWrites
  <2> SUFFICES ASSUME NEW m \in Members, NEW x \in played, Late(m, x)'
               PROVE  trouble' >= Age(x) - 1 /\ (Coming(m, x) \/ trouble' >= Age(x))
    BY <2>1 DEF FailuresPaid, Age, Coming
  <2>2. since'[m] <= x.day /\ x.day < day /\ x.day \in Nat /\ day \in Nat
    BY <1>0, <2>1 DEF Late, Owed, TypeOK, Matches
  <2>3. since'[m] # day
    BY <2>2
  <2>4. link'[m] = link[m] /\ shard'[m] = shard[m] /\ since'[m] = since[m]
    BY <1>0, <1>1, <2>3, RequestWrites
  <2>5. Late(m, x)
    BY <2>1, <2>4 DEF Late, Owed, Resolves, Linked
  <2>6. trouble' \in Int
    BY <1>0 DEF TypeOK
  <2>7. QED
    BY <2>1, <2>5, <2>6, StillKept
<1>2. ASSUME NEW a \in Accounts, Play(a) PROVE FailuresPaid'
  <2>1. /\ UNCHANGED <<day, due, stored, rows, pass, trouble>>
        /\ played' = played \cup {[account |-> a, day |-> day]}
    BY <1>2 DEF Play
  <2> SUFFICES ASSUME NEW m \in Members, NEW x \in played', Late(m, x)'
               PROVE  trouble' >= Age(x)' - 1 /\ (Coming(m, x)' \/ trouble' >= Age(x)')
    BY DEF FailuresPaid
  <2>2. x \in played
    BY <1>0, <2>1 DEF Late, TypeOK
  <2>3. Late(m, x)
    BY <2>1 DEF Late, Owed, Resolves, Linked, rows
  <2>4. QED
    BY <2>1, <2>2, <2>3, StillKept DEF Age, Coming, pass
<1>3. CASE Restart
  <2>1. /\ UNCHANGED <<day, played, stored, link, shard, since, trouble>> /\ due'
    BY <1>3 DEF Restart, rows
  <2> SUFFICES ASSUME NEW m \in Members, NEW x \in played, Late(m, x)'
               PROVE  trouble >= Age(x) - 1
    BY <2>1 DEF FailuresPaid, Age, Coming
  <2>2. Late(m, x)
    BY <2>1 DEF Late, Owed, Resolves, Linked
  <2>3. QED
    BY <2>2, StillKept
<1>4. CASE Tick
  <2>1. /\ UNCHANGED <<played, stored, link, shard, since, trouble>>
        /\ day' = day + 1 /\ due' /\ ~due /\ at = "idle" /\ todo = {}
    BY <1>0, <1>4 DEF Tick, rows, TypeOK
  <2> SUFFICES ASSUME NEW m \in Members, NEW x \in played, Late(m, x)'
               PROVE  trouble >= Age(x)' - 1
    BY <2>1 DEF FailuresPaid, Coming
  <2>2. x.day \in Nat /\ day \in Nat /\ x.day <= day /\ trouble \in Nat
    BY <1>0 DEF TypeOK, Matches
  <2>3. CASE x.day = day
    BY <2>1, <2>2, <2>3 DEF Age
  <2>4. CASE x.day # day
    <3>1. Late(m, x) /\ ~Coming(m, x)
      BY <2>1, <2>2, <2>4 DEF Late, Owed, Resolves, Linked, Coming
    <3>2. trouble >= Age(x)
      BY <3>1, StillKept
    <3>3. QED
      BY <2>1, <2>2, <3>2 DEF Age
  <2>5. QED
    BY <2>3, <2>4
<1>5. CASE UNCHANGED vars
  BY <1>5 DEF vars, rows, pass, IInv, FailuresPaid, Late, Owed, Resolves, Linked, Age, Coming
<1>6. QED
  BY <1>1, <1>2, <1>3, <1>4, <1>5, PassPays DEF Next

(* Types and what the pass read, always; with slack, what it owes. *)
LEMMA Invariance == Spec => []IInv
<1>1. Init => IInv
  BY InitType DEF Init, IInv, LinksKnown, FailuresPaid
<1>2. IInv /\ [Next]_vars => IInv'
  <2> SUFFICES ASSUME IInv, [Next]_vars PROVE IInv'
    OBVIOUS
  <2>1. TypeOK' /\ LinksKnown'
    BY NextType, LinksStayKnown DEF IInv
  <2>2. ASSUME Slack PROVE FailuresPaid'
    BY <2>2, FailuresArePaid
  <2>3. Slack' <=> Slack
    BY DEF Slack
  <2>4. QED
    BY <2>1, <2>2, <2>3 DEF IInv
<1>3. QED
  BY <1>1, <1>2, PTL DEF Spec

(* Every variable keeps its type: a stored row is about a match that was   *)
(* played, and a running pass has only links it read.                      *)
THEOREM TypeCorrect == Spec => []TypeOK
<1>1. IInv => TypeOK
  BY DEF IInv
<1>2. QED
  BY <1>1, Invariance, PTL

(* syncer.go's slack is real: no playable match of a member who stays      *)
(* linked expires unstored, for any retention greater than the number of   *)
(* failed calls and one more.                                              *)
THEOREM Collected == Spec => []CollectedInTime
<1>1. IInv => CollectedInTime
  <2> SUFFICES ASSUME IInv, Slack, NEW m \in Members, NEW x \in played,
                      Owed(m, x), Age(x) >= Retention, <<m, x>> \notin stored
               PROVE  FALSE
    BY DEF CollectedInTime, Slack
  <2>1. x.day \in Nat /\ day \in Nat
    BY DEF IInv, TypeOK, Matches
  <2>2. Late(m, x)
    BY <2>1 DEF Late, Age
  <2>3. Age(x) < Retention /\ Age(x) \in Int
    BY <2>2, StillKept
  <2>4. QED
    BY <2>3
<1>2. QED
  BY <1>1, Invariance, PTL

-----------------------------------------------------------------------------
(* Links that resolve                                                      *)

(* One member's request leaves the others' links alone and either leaves   *)
(* its own half written or makes it whole.                                 *)
LEMMA RequestResolves ==
    ASSUME OneAtATime, RInv, NEW r \in Requests, Request(r)
    PROVE  Pending' /\ WholeResolve'
<1> USE DEF rows, pass, Linked, Whole, Halfway
<1>0. Caller[r] \in Members /\ TypeOK /\ Pending /\ WholeResolve
  BY DEF RInv
<1>1. /\ \A q \in Requests \ {r} : step'[q] = step[q] /\ typed'[q] = typed[q]
      /\ \A m \in Members \ {Caller[r]} : link'[m] = link[m] /\ shard'[m] = shard[m]
      /\ torn \subseteq torn' \cup {Caller[r]}
  <2> USE <1>0 DEF TypeOK, Ends, At
  <2>1. CASE \E a \in Accounts : Connect(r, a) \/ Correct(r, a)
    BY <2>1 DEF Connect, Correct, Resolved
  <2>2. CASE WriteIdentity(r)
    BY <2>2 DEF WriteIdentity
  <2>3. CASE WriteRouting(r)
    BY <2>3 DEF WriteRouting
  <2>4. CASE RoutingFails(r)
    BY <2>4 DEF RoutingFails, RollsBack
  <2>5. CASE Disconnect(r)
    BY <2>5 DEF Disconnect
  <2>6. CASE Unlink(r)
    BY <2>6 DEF Unlink
  <2>7. CASE RequestFails(r)
    BY <2>7 DEF RequestFails
  <2>8. QED
    BY <2>1, <2>2, <2>3, <2>4, <2>5, <2>6, <2>7 DEF Request
<1>2. \A q \in Requests \ {r} : Caller[q] # Caller[r] /\ Caller[q] \in Members
  BY DEF OneAtATime
<1> DEFINE m == Caller[r]
<1> SUFFICES /\ step'[r] \in {"routing", "rerouting"} => link'[m] = typed'[r]
             /\ \/ m \in torn' \/ Halfway(r)' \/ ~Linked(m)'
                \/ ShardOf[link'[m]] = shard'[m]
  BY <1>0, <1>1, <1>2 DEF Pending, WholeResolve
<1>3. m \in torn \/ Halfway(r) \/ ~Linked(m) \/ ShardOf[link[m]] = shard[m]
  BY <1>0, <1>2 DEF WholeResolve
<1> USE <1>0 DEF TypeOK, Ends, At
<1>4. CASE \E a \in Accounts : Connect(r, a) \/ Correct(r, a)
  BY <1>3, <1>4 DEF Connect, Correct, Resolved
<1>5. CASE WriteIdentity(r)
  BY <1>3, <1>5 DEF WriteIdentity
<1>6. CASE WriteRouting(r)
  BY <1>6 DEF WriteRouting, Pending
<1>7. CASE RoutingFails(r)
  BY <1>7 DEF RoutingFails, RollsBack
<1>8. CASE Disconnect(r)
  BY <1>8 DEF Disconnect
<1>9. CASE Unlink(r)
  BY <1>9 DEF Unlink
<1>10. CASE RequestFails(r)
  BY <1>3, <1>10 DEF RequestFails
<1>11. QED
  BY <1>4, <1>5, <1>6, <1>7, <1>8, <1>9, <1>10 DEF Request

(* With one request at a time per member, an account is queried on the     *)
(* shard that issued it, but for links torn by a failure or a restart.     *)
THEOREM LinksResolve == OneAtATime /\ Spec => []LinkResolves
<1> SUFFICES ASSUME OneAtATime PROVE Spec => []LinkResolves
  OBVIOUS
<1>1. Init => RInv
  BY InitType DEF Init, RInv, Pending, WholeResolve, Linked
<1>2. RInv /\ [Next]_vars => RInv'
  <2> SUFFICES ASSUME RInv, [Next]_vars PROVE RInv'
    OBVIOUS
  <2>1. TypeOK'
    BY NextType DEF RInv
  <2>2. CASE UNCHANGED <<link, shard, torn, step, typed>>
    BY <2>1, <2>2 DEF RInv, Pending, WholeResolve, Whole, Halfway, Linked
  <2>3. CASE PassGoesOn
    BY <2>2, <2>3 DEF PassGoesOn, BeginPass, MemberDone, PassDone, ListMatches,
       Unresolved, StoreMatch, SkipMatch, rows, requests
  <2>4. CASE PassStumbles
    BY <2>2, <2>4 DEF PassStumbles, PassFails, SkipMember, LeaveMatch, rows, requests
  <2>5. CASE \E r \in Requests : Request(r)
    BY <2>1, <2>5, RequestResolves DEF RInv
  <2>6. CASE \E a \in Accounts : Play(a)
    BY <2>2, <2>6 DEF Play, rows, requests
  <2>7. CASE Restart
    <3>1. /\ UNCHANGED <<link, shard>>
          /\ \A r \in Requests : step'[r] = "idle"
          /\ \A m \in Members : m \notin torn' => m \notin torn /\ Whole(m)
      BY <2>7 DEF Restart, rows, Whole
    <3>2. QED
      BY <2>1, <3>1 DEF RInv, Pending, WholeResolve, Linked
  <2>8. CASE Tick
    BY <2>2, <2>8 DEF Tick, rows, requests
  <2>9. CASE UNCHANGED vars
    BY <2>2, <2>9 DEF vars, rows, requests
  <2>10. QED
    BY <2>3, <2>4, <2>5, <2>6, <2>7, <2>8, <2>9 DEF Next
<1>3. RInv => LinkResolves
  BY DEF RInv, WholeResolve, LinkResolves, Whole, Halfway, Settled
<1>4. QED
  BY <1>1, <1>2, <1>3, PTL DEF Spec
=============================================================================
