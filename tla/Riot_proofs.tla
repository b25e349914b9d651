---------------------------- MODULE Riot_proofs -----------------------------
(***************************************************************************)
(* Theorems about the history walk, for any members, accounts, histories,  *)
(* page size, requests and number of failures, and about the limiter its   *)
(* calls queue behind.                                                     *)
(***************************************************************************)
EXTENDS Backfill, RateLimiter, TLAPS

LEMMA NextCursorType ==
    ASSUME TypeOK, NEW x \in seen
    PROVE  NextCursor(x) \in Nat
  BY DEF TypeOK, Matches, NextCursor

LEMMA SomeoneIsMember == Someone \in Members
  BY MembersAssumption DEF Someone

-----------------------------------------------------------------------------
(* Type correctness.                                                       *)

LEMMA InitTypes == Init => TypeOK
  BY SomeoneIsMember, PastAssumption, BackfillBounds DEF Init, TypeOK, Matches, Cursors

LEMMA SetCursorTypes ==
    ASSUME TypeOK, NEW b \in Cursors, NEW f \in BOOLEAN, SetCursor(b, f)
    PROVE  /\ before' \in [Members -> Cursors]
           /\ done' \subseteq routed
           /\ \A m \in Members \ routed : before'[m] = Null
  BY DEF TypeOK, SetCursor

LEMMA WalkTypes ==
    ASSUME TypeOK, WalkGoesOn
    PROVE  TypeOK'
<1>1. CASE Pick
  BY <1>1 DEF TypeOK, Pick, Pending, rows, requests
<1>2. CASE ReadCursor
  BY <1>2, SomeoneIsMember DEF TypeOK, ReadCursor, StopWalking, rows, requests, Cursors
<1>3. CASE ListIds
  <2>1. page' \subseteq played /\ left' = page'
    BY <1>3 DEF ListIds, Pages, Older
  <2>2. QED
    BY <1>3, <2>1 DEF TypeOK, ListIds, rows, requests
<1>4. CASE Finish
  BY <1>4, SetCursorTypes, SomeoneIsMember DEF TypeOK, Finish, StopWalking, requests, Cursors
<1>5. CASE Advance
  <2> DEFINE Fits == /\ before' \in [Members -> Cursors]
                     /\ done' \subseteq routed
                     /\ \A m \in Members \ routed : before'[m] = Null
  <2>1. Fits
    <3>1. CASE UNCHANGED <<before, done>>
      BY <3>1 DEF TypeOK
    <3>2. ASSUME NEW x \in Oldest(seen), SetCursor(NextCursor(x), FALSE) PROVE Fits
      BY <3>2, NextCursorType, SetCursorTypes DEF Oldest, Cursors
    <3>3. QED
      BY <1>5, <3>1, <3>2 DEF Advance
  <2>2. QED
    BY <1>5, <2>1, SomeoneIsMember DEF TypeOK, Advance, StopWalking, requests, Cursors
<1>6. ASSUME NEW x \in left, StoreMatch(x) PROVE TypeOK'
  BY <1>6 DEF TypeOK, StoreMatch, rows, requests
<1>7. ASSUME NEW x \in left, SkipMatch(x) PROVE TypeOK'
  BY <1>7 DEF TypeOK, SkipMatch, rows, requests
<1>8. QED
  BY <1>1, <1>2, <1>3, <1>4, <1>5, <1>6, <1>7 DEF WalkGoesOn

LEMMA FailureTypes ==
    ASSUME TypeOK, WalkFails \/ Restart
    PROVE  TypeOK'
<1>1. Trouble => trouble' \in 0..MaxTrouble
  BY BackfillBounds DEF TypeOK, Trouble
<1>2. CASE TransientFailure \/ CallFails
  BY <1>1, <1>2, SomeoneIsMember
     DEF TypeOK, TransientFailure, CallFails, PageAbandoned, StopWalking, rows, requests, Cursors
<1>3. ASSUME NEW x \in left, LoseMatch(x) PROVE TypeOK'
  BY <1>1, <1>3 DEF TypeOK, LoseMatch, rows, requests
<1>4. CASE Restart
  BY <1>1, <1>4, SomeoneIsMember DEF TypeOK, Restart, StopWalking, rows, Cursors
<1>5. QED
  BY <1>2, <1>3, <1>4 DEF WalkFails

LEMMA RequestTypes ==
    ASSUME TypeOK, NEW r \in Requests,
           RequestGoesOn(r) \/ RequestBegins(r) \/ RoutingFails(r) \/ RequestFails(r)
    PROVE  TypeOK'
<1>1. Caller[r] \in Members
  BY LinkAssumption
<1>2. CASE RoutingFails(r) \/ RequestFails(r)
  BY <1>2, BackfillBounds
     DEF TypeOK, RoutingFails, RequestFails, Trouble, At, rows, walk
<1>3. CASE WriteIdentity(r)
  BY <1>1, <1>3 DEF TypeOK, WriteIdentity, At, walk
<1>4. CASE WriteRouting(r)
  BY <1>1, <1>4 DEF TypeOK, WriteRouting, At, walk
<1>5. CASE Unlink(r)
  BY <1>1, <1>5 DEF TypeOK, Unlink, At, walk
<1>6. CASE Disconnect(r)
  BY <1>1, <1>6, BackfillBounds DEF TypeOK, Disconnect, At, walk, Cursors
<1>7. ASSUME NEW a \in Accounts, Connect(r, a) PROVE TypeOK'
  BY <1>7, BackfillBounds DEF TypeOK, Connect, At, rows, walk
<1>8. QED
  BY <1>2, <1>3, <1>4, <1>5, <1>6, <1>7 DEF RequestGoesOn, RequestBegins

LEMMA PlayTypes ==
    ASSUME TypeOK, NEW a \in Accounts, Play(a)
    PROVE  TypeOK'
  BY BackfillBounds DEF TypeOK, Play, Matches, rows, walk, requests

LEMMA StepTypes ==
    ASSUME TypeOK, [Next]_vars
    PROVE  TypeOK'
<1>1. CASE UNCHANGED vars
  BY <1>1 DEF TypeOK, vars, rows, walk, requests
<1>2. QED
  BY <1>1, WalkTypes, FailureTypes, RequestTypes, PlayTypes DEF Next

(* Every variable keeps its type: the cursor of a row is an instant or     *)
(* NULL, only rows that exist have one, and the walker's page is made of   *)
(* matches Riot knows.                                                     *)
THEOREM TypeCorrect == Spec => []TypeOK
<1>1. QED
  BY InitTypes, StepTypes, PTL DEF Spec
-----------------------------------------------------------------------------
(* The invariant of the walk.  A member who may link two accounts can keep *)
(* the cursor of the first for the second, so what follows is for members  *)
(* who have one.                                                           *)

OneAccountEach ==
    \A m \in Members, a, b \in Accounts :
        <<m, a>> \in MayLink /\ <<m, b>> \in MayLink => a = b

(* Whatever is linked, walked or stored for a member is an account they    *)
(* may link.                                                               *)
Identities ==
    /\ \A m \in Members : link[m] # NoAccount => <<m, link[m]>> \in MayLink
    /\ \A r \in Requests : step[r] = "identity" => <<Caller[r], typed[r]>> \in MayLink
    /\ at # "idle" => <<whom, puuid>> \in MayLink

(* The row of the member being walked may be replaced meanwhile, but while *)
(* it has a cursor that cursor is the one that was read.                   *)
RowUntouched ==
    /\ at \in {"ids", "page"} /\ before[whom] # Null => base = before[whom]
    /\ at # "idle" => whom \notin done

(* A cursor lies below a match that exists, so nothing played later is     *)
(* below it.                                                               *)
Below(a, b) == \E z \in played : z.account = a /\ b < z.time

CursorsCovered ==
    \A m \in Members, a \in Accounts :
        <<m, a>> \in MayLink /\ before[m] # Null =>
            CoveredAbove(m, a, before[m]) /\ Below(a, before[m])

BaseCovered ==
    at \in {"ids", "page"} /\ base # Null =>
        CoveredAbove(whom, puuid, base) /\ Below(puuid, base)

(* The page holds matches of the account within the cursor; *)
PageInRange == \A x \in page : x.account = puuid /\ (base = Null \/ x.time <= base)

(* a match that it leaves out is older than all of it, above the cursor,   *)
(* or has been played since;                                               *)
PlayedSince(y) ==
    /\ base = Null
    /\ \A q \in page : q.time < y.time
    /\ \A x \in played :
        x.account = puuid /\ <<whom, x>> \in stored => x.time <= y.time

PageWhole ==
    at = "page" =>
        \A y \in played \ page :
            y.account = puuid =>
                \/ \A q \in page : y.time < q.time
                \/ base # Null /\ base < y.time
                \/ PlayedSince(y)

(* and what no longer remains of it has been dealt with.                   *)
PageDone == \A x \in page \ left : Covered(whom, x)

Coverage ==
    /\ CursorsCovered /\ BaseCovered
    /\ PageInRange /\ PageWhole /\ PageDone

IInv == TypeOK /\ Identities /\ RowUntouched /\ Coverage

-----------------------------------------------------------------------------
LEMMA StepIdentities ==
    ASSUME TypeOK, Identities, [Next]_vars
    PROVE  Identities'
<1>1. CASE UNCHANGED vars \/ \E a \in Accounts : Play(a)
  BY <1>1 DEF Identities, Play, vars, rows, walk, requests
<1>2. CASE WalkGoesOn
  <2>1. CASE Pick
    BY <1>2, <2>1 DEF Identities, Pick, Pending, Linked, rows, requests
  <2>2. CASE ReadCursor
    BY <1>2, <2>2 DEF Identities, ReadCursor, StopWalking, rows, requests
  <2>3. CASE ListIds
    BY <1>2, <2>3 DEF Identities, ListIds, rows, requests
  <2>4. CASE Finish \/ Advance
    BY <1>2, <2>4 DEF Identities, Finish, Advance, StopWalking, requests
  <2>5. ASSUME NEW x \in left, StoreMatch(x) \/ SkipMatch(x) PROVE Identities'
    BY <1>2, <2>5 DEF Identities, StoreMatch, SkipMatch, rows, requests
  <2>6. QED
    BY <1>2, <2>1, <2>2, <2>3, <2>4, <2>5 DEF WalkGoesOn
<1>3. CASE WalkFails
  <2>1. CASE TransientFailure \/ CallFails
    BY <1>3, <2>1
       DEF Identities, TransientFailure, CallFails, PageAbandoned, StopWalking, rows, requests
  <2>2. ASSUME NEW x \in left, LoseMatch(x) PROVE Identities'
    BY <1>3, <2>2 DEF Identities, LoseMatch, rows, requests
  <2>3. QED
    BY <1>3, <2>1, <2>2 DEF WalkFails
<1>4. CASE Restart
  BY <1>4 DEF Identities, Restart, StopWalking, rows
<1>5. ASSUME NEW r \in Requests,
             RequestGoesOn(r) \/ RequestBegins(r) \/ RoutingFails(r) \/ RequestFails(r)
      PROVE  Identities'
  <2>1. CASE RoutingFails(r) \/ RequestFails(r)
    BY <2>1 DEF TypeOK, Identities, RoutingFails, RequestFails, At, rows, walk
  <2>2. CASE WriteIdentity(r)
    BY <2>2, LinkAssumption DEF TypeOK, Identities, WriteIdentity, At, walk
  <2>3. CASE WriteRouting(r) \/ Unlink(r) \/ Disconnect(r)
    BY <2>3 DEF TypeOK, Identities, WriteRouting, Unlink, Disconnect, At, walk
  <2>4. ASSUME NEW a \in Accounts, Connect(r, a) PROVE Identities'
    BY <2>4 DEF TypeOK, Identities, Connect, At, rows, walk
  <2>5. QED
    BY <1>5, <2>1, <2>2, <2>3, <2>4 DEF RequestGoesOn, RequestBegins
<1>6. QED
  BY <1>1, <1>2, <1>3, <1>4, <1>5 DEF Next

LEMMA StepRowUntouched ==
    ASSUME TypeOK, RowUntouched, [Next]_vars
    PROVE  RowUntouched'
<1>1. CASE UNCHANGED vars \/ \E a \in Accounts : Play(a)
  BY <1>1 DEF RowUntouched, Play, vars, rows, walk
<1>2. CASE at' = "idle"
  BY <1>2 DEF RowUntouched
<1>3. CASE Pick \/ ReadCursor \/ ListIds
  BY <1>2, <1>3 DEF RowUntouched, Pick, Pending, ReadCursor, StopWalking, ListIds, rows
<1>4. ASSUME NEW x \in left, StoreMatch(x) \/ SkipMatch(x) \/ LoseMatch(x)
      PROVE  RowUntouched'
  BY <1>4 DEF RowUntouched, StoreMatch, SkipMatch, LoseMatch, rows
<1>5. CASE Finish \/ Advance \/ TransientFailure \/ CallFails \/ Restart
  BY <1>2, <1>5
     DEF Finish, Advance, TransientFailure, CallFails, Restart, PageAbandoned, StopWalking
<1>6. ASSUME NEW r \in Requests,
             RequestGoesOn(r) \/ RequestBegins(r) \/ RoutingFails(r) \/ RequestFails(r)
      PROVE  RowUntouched'
  <2>1. CASE Disconnect(r)
    BY <2>1, LinkAssumption DEF TypeOK, RowUntouched, Disconnect, walk
  <2>2. CASE WriteIdentity(r) \/ WriteRouting(r) \/ Unlink(r) \/ RoutingFails(r) \/ RequestFails(r)
    BY <2>2 DEF RowUntouched, WriteIdentity, WriteRouting, Unlink, RoutingFails,
                RequestFails, rows, walk
  <2>3. ASSUME NEW a \in Accounts, Connect(r, a) PROVE RowUntouched'
    BY <2>3 DEF RowUntouched, Connect, rows, walk
  <2>4. QED
    BY <1>6, <2>1, <2>2, <2>3 DEF RequestGoesOn, RequestBegins
<1>7. QED
  BY <1>1, <1>3, <1>4, <1>5, <1>6 DEF Next, WalkGoesOn, WalkFails
-----------------------------------------------------------------------------
(* Coverage, first for what leaves the history and the page alone.         *)

LEMMA CursorsKept ==
    ASSUME CursorsCovered, UNCHANGED <<played, stored>>, lost \subseteq lost',
           \A m \in Members : before'[m] = before[m] \/ before'[m] = Null
    PROVE  CursorsCovered'
  BY DEF CursorsCovered, CoveredAbove, Covered, Below

LEMMA CoverageKept ==
    ASSUME Coverage, UNCHANGED <<played, stored, lost, walk>>,
           \A m \in Members : before'[m] = before[m] \/ before'[m] = Null
    PROVE  Coverage'
<1>1. CursorsCovered'
  BY CursorsKept DEF Coverage
<1>2. BaseCovered'
  BY DEF Coverage, BaseCovered, CoveredAbove, Covered, Below, walk
<1>3. PageInRange' /\ PageDone'
  BY DEF Coverage, PageInRange, PageDone, Covered, walk
<1>4. PageWhole'
  BY DEF Coverage, PageWhole, PlayedSince, walk
<1>5. QED
  BY <1>1, <1>2, <1>3, <1>4 DEF Coverage

LEMMA CoverageOnStop ==
    ASSUME CursorsCovered', StopWalking
    PROVE  Coverage'
  BY DEF StopWalking, Coverage, BaseCovered, PageInRange, PageWhole, PageDone

LEMMA RequestCoverage ==
    ASSUME TypeOK, Coverage, NEW r \in Requests,
           RequestGoesOn(r) \/ RequestBegins(r) \/ RoutingFails(r) \/ RequestFails(r)
    PROVE  Coverage'
<1>1. UNCHANGED <<played, stored, lost, walk>>
  BY DEF RequestGoesOn, RequestBegins, WriteIdentity, WriteRouting, Unlink, Disconnect,
         Connect, RoutingFails, RequestFails
<1>2. \A m \in Members : before'[m] = before[m] \/ before'[m] = Null
  BY DEF TypeOK, RequestGoesOn, RequestBegins, WriteIdentity, WriteRouting, Unlink,
         Disconnect, Connect, RoutingFails, RequestFails, rows
<1>3. QED
  BY <1>1, <1>2, CoverageKept

(* A match that is played is newer than every other of its account, hence  *)
(* above every cursor, and nothing newer than it is stored.                *)
LEMMA PlayCoverage ==
    ASSUME TypeOK, Identities, Coverage, NEW a \in Accounts, Play(a)
    PROVE  Coverage'
<1> PICK t \in 1..MaxTime :
        /\ \A x \in played : x.account = a => x.time < t
        /\ played' = played \cup {[account |-> a, time |-> t]}
  BY DEF Play
<1> DEFINE z == [account |-> a, time |-> t]
<1>1. played' = played \cup {z} /\ z \notin played /\ z.account = a /\ z.time = t
  BY DEF TypeOK, Matches
<1>2. \A x \in played : x.account = a => x.time < z.time
  BY <1>1
<1>3. t \in Nat /\ \A x \in played : x.time \in Nat
  BY BackfillBounds DEF TypeOK, Matches
<1> HIDE DEF z
<1>4. UNCHANGED <<stored, before, lost, at, whom, puuid, base, page, left, seen>>
  BY DEF Play, rows, walk
<1>5. \A m : <<m, z>> \notin stored
  BY <1>1 DEF TypeOK
<1>6. ASSUME NEW m, NEW c, NEW b, CoveredAbove(m, c, b)
      PROVE  CoveredAbove(m, c, b)'
  <2> SUFFICES ASSUME NEW x \in played', NEW y \in played',
                      x.account = c, y.account = c,
                      <<m, x>> \in stored, b < y.time, y.time < x.time
               PROVE  Covered(m, y)
    BY <1>4 DEF CoveredAbove, Covered
  <2>1. x \in played
    BY <1>1, <1>5
  <2>2. y \in played
    BY <1>1, <1>2, <1>3, <2>1
  <2>3. QED
    BY <1>6, <2>1, <2>2 DEF CoveredAbove
<1>7. ASSUME NEW c, NEW b, Below(c, b) PROVE Below(c, b)'
  BY <1>1, <1>7 DEF Below
<1>8. CursorsCovered'
  BY <1>4, <1>6, <1>7 DEF Coverage, CursorsCovered
<1>9. BaseCovered'
  BY <1>4, <1>6, <1>7 DEF Coverage, BaseCovered
<1>10. PageInRange' /\ PageDone'
  BY <1>4 DEF Coverage, PageInRange, PageDone, Covered
<1>11. PageWhole'
  <2> SUFFICES ASSUME at = "page", NEW y \in played' \ page, y.account = puuid
               PROVE  \/ \A q \in page : y.time < q.time
                      \/ base # Null /\ base < y.time
                      \/ PlayedSince(y)'
    BY <1>4 DEF PageWhole
  <2>1. CASE y \in played
    <3>1. PlayedSince(y) => PlayedSince(y)'
      BY <1>1, <1>4, <1>5 DEF PlayedSince
    <3>2. QED
      BY <2>1, <3>1 DEF Coverage, PageWhole
  <2>2. CASE y = z
    <3>1. \A q \in page : q.time < y.time
      BY <1>1, <1>2, <2>2 DEF TypeOK, Coverage, PageInRange
    <3>2. CASE base = Null
      <4>1. \A x \in played' : x.account = puuid /\ <<whom, x>> \in stored => x.time <= y.time
        BY <1>1, <1>2, <1>3, <1>5, <2>2
      <4>2. QED
        BY <1>4, <3>1, <3>2, <4>1 DEF PlayedSince
    <3>3. CASE base # Null
      <4>1. PICK x \in played : x.account = puuid /\ base < x.time
        BY <3>3 DEF Coverage, BaseCovered, Below
      <4>2. base < y.time
        BY <1>1, <1>2, <1>3, <2>2, <4>1 DEF TypeOK, Cursors, Null
      <4>3. QED
        BY <3>3, <4>2
    <3>4. QED
      BY <3>2, <3>3
  <2>3. QED
    BY <1>1, <2>1, <2>2
<1>12. QED
  BY <1>8, <1>9, <1>10, <1>11 DEF Coverage

-----------------------------------------------------------------------------
(* Coverage, for the steps of the walk.                                    *)

LEMMA ListCoverage ==
    ASSUME TypeOK, Coverage, ListIds
    PROVE  Coverage'
<1>1. /\ page' \in Pages(Older) /\ left' = page' /\ at' = "page" /\ at = "ids"
      /\ UNCHANGED <<played, stored, before, lost, whom, puuid, base>>
  BY DEF ListIds, rows
<1>2. page' \subseteq Older /\ \A q \in page', x \in Older \ page' : x.time < q.time
  BY <1>1 DEF Pages
<1>3. CursorsCovered'
  BY <1>1, CursorsKept DEF Coverage
<1>4. BaseCovered'
  BY <1>1 DEF Coverage, BaseCovered, CoveredAbove, Covered, Below
<1>5. PageInRange' /\ PageDone'
  BY <1>1, <1>2 DEF PageInRange, PageDone, Older
<1>6. PageWhole'
  <2> SUFFICES ASSUME NEW y \in played \ page', y.account = puuid
               PROVE  \/ \A q \in page' : y.time < q.time
                      \/ base # Null /\ base < y.time
    BY <1>1 DEF PageWhole
  <2>1. CASE y \in Older
    BY <1>2, <2>1
  <2>2. CASE y \notin Older
    BY <2>2 DEF Older, TypeOK, Matches, Cursors
  <2>3. QED
    BY <2>1, <2>2
<1>7. QED
  BY <1>3, <1>4, <1>5, <1>6 DEF Coverage

(* A match stored from the page lies below the cursor that was read, so    *)
(* what lies above that cursor stays covered.                              *)
LEMMA StoreCoverage ==
    ASSUME OneAccountEach, IInv, NEW x \in left, StoreMatch(x)
    PROVE  Coverage'
<1>1. /\ at = "page" /\ x \in page /\ x \in played /\ x \notin Unusable
      /\ left' = left \ {x}
      /\ stored' = stored \cup {<<whom, x>>}
      /\ UNCHANGED <<played, before, lost, at, whom, puuid, base, page>>
  BY DEF StoreMatch, IInv, TypeOK, rows
<1>2. x.account = puuid /\ (base = Null \/ x.time <= base)
  BY <1>1 DEF IInv, Coverage, PageInRange
<1>3. /\ whom \in Members /\ puuid \in Accounts /\ <<whom, puuid>> \in MayLink
      /\ \A y \in played : y.time \in Nat
      /\ base \in Cursors /\ before \in [Members -> Cursors]
  BY <1>1, LinkAssumption DEF IInv, TypeOK, Identities, Matches
<1>4. ASSUME NEW m, NEW c, NEW b \in Nat, CoveredAbove(m, c, b),
             m = whom /\ c = puuid => x.time <= b
      PROVE  CoveredAbove(m, c, b)'
  <2> SUFFICES ASSUME NEW w \in played, NEW y \in played,
                      w.account = c, y.account = c,
                      <<m, w>> \in stored', b < y.time, y.time < w.time
               PROVE  Covered(m, y)'
    BY <1>1 DEF CoveredAbove
  <2>1. CASE <<m, w>> \in stored
    BY <1>1, <1>4, <2>1 DEF CoveredAbove, Covered
  <2>2. CASE m = whom /\ w = x
    BY <1>2, <1>3, <1>4, <2>2
  <2>3. QED
    BY <1>1, <2>1, <2>2
<1>5. CursorsCovered'
  <2> SUFFICES ASSUME NEW m \in Members, NEW a \in Accounts,
                      <<m, a>> \in MayLink, before[m] # Null
               PROVE  CoveredAbove(m, a, before[m])' /\ Below(a, before[m])'
    BY <1>1 DEF CursorsCovered
  <2>1. CoveredAbove(m, a, before[m]) /\ Below(a, before[m]) /\ before[m] \in Nat
    BY <1>3 DEF IInv, Coverage, CursorsCovered, Cursors
  <2>2. m = whom => x.time <= before[m]
    BY <1>1, <1>2, <1>3 DEF IInv, RowUntouched
  <2> DEFINE b == before[m]
  <2>3. b' = b
    BY <1>1
  <2>4. CoveredAbove(m, a, b) /\ b \in Nat /\ (m = whom => x.time <= b)
    BY <2>1, <2>2
  <2> HIDE DEF b
  <2>5. \A w, y \in played :
            w.account = a /\ y.account = a /\ <<m, w>> \in stored'
            /\ b < y.time /\ y.time < w.time => Covered(m, y)'
    BY <1>1, <1>2, <1>3, <2>4 DEF CoveredAbove, Covered
  <2>6. CoveredAbove(m, a, b)'
    BY <1>1, <2>3, <2>5 DEF CoveredAbove
  <2>7. QED
    BY <1>1, <2>1, <2>6 DEF Below, b
<1>6. BaseCovered'
  <2> SUFFICES ASSUME base # Null
               PROVE  CoveredAbove(whom, puuid, base)' /\ Below(puuid, base)'
    BY <1>1 DEF BaseCovered
  <2>1. CoveredAbove(whom, puuid, base) /\ Below(puuid, base) /\ base \in Nat
    BY <1>1, <1>3 DEF IInv, Coverage, BaseCovered, Cursors
  <2>2. QED
    BY <1>1, <1>2, <1>3, <2>1 DEF CoveredAbove, Covered, Below
<1>7. PageInRange' /\ PageDone'
  BY <1>1 DEF IInv, Coverage, PageInRange, PageDone, Covered
<1>8. PageWhole'
  <2> SUFFICES ASSUME NEW y \in played \ page, y.account = puuid
               PROVE  \/ \A q \in page : y.time < q.time
                      \/ base # Null /\ base < y.time
                      \/ PlayedSince(y)'
    BY <1>1 DEF PageWhole
  <2>1. PlayedSince(y) => PlayedSince(y)'
    BY <1>1, <1>3 DEF PlayedSince
  <2>2. QED
    BY <1>1, <2>1 DEF IInv, Coverage, PageWhole
<1>9. QED
  BY <1>5, <1>6, <1>7, <1>8 DEF Coverage

LEMMA PassCoverage ==
    ASSUME IInv, NEW x \in left, LoseMatch(x) \/ SkipMatch(x)
    PROVE  Coverage'
<1>1. /\ at = "page" /\ left' = left \ {x} /\ lost \subseteq lost'
      /\ UNCHANGED <<played, stored, before, at, whom, puuid, base, page>>
      /\ <<whom, x>> \in lost' \/ x \in Unusable
  BY DEF LoseMatch, SkipMatch, rows
<1>2. CursorsCovered'
  BY <1>1, CursorsKept DEF IInv, Coverage
<1>3. BaseCovered'
  BY <1>1 DEF IInv, Coverage, BaseCovered, CoveredAbove, Covered, Below
<1>4. PageInRange' /\ PageDone'
  BY <1>1 DEF IInv, Coverage, PageInRange, PageDone, Covered
<1>5. PageWhole'
  BY <1>1 DEF IInv, Coverage, PageWhole, PlayedSince
<1>6. QED
  BY <1>2, <1>3, <1>4, <1>5 DEF Coverage

(* Writing a cursor that is covered, for the account walked.               *)
LEMMA SetCursorCovers ==
    ASSUME OneAccountEach, IInv, at = "page", NEW b \in Nat, NEW f \in BOOLEAN,
           SetCursor(b, f), UNCHANGED <<played, stored, lost>>,
           CoveredAbove(whom, puuid, b), Below(puuid, b)
    PROVE  CursorsCovered'
<1>1. <<whom, puuid>> \in MayLink /\ whom \in Members /\ puuid \in Accounts
  BY LinkAssumption DEF IInv, TypeOK, Identities
<1>2. CASE whom \notin routed
  BY <1>2, CursorsKept DEF IInv, Coverage, SetCursor
<1>3. CASE whom \in routed
  <2> SUFFICES ASSUME NEW m \in Members, NEW a \in Accounts,
                      <<m, a>> \in MayLink, before'[m] # Null
               PROVE  CoveredAbove(m, a, before[m])' /\ Below(a, before[m])'
    BY DEF CursorsCovered
  <2>1. CASE m = whom
    <3>1. a = puuid
      BY <1>1, <2>1 DEF OneAccountEach
    <3>2. before'[m] = b
      BY <1>1, <1>3, <2>1 DEF IInv, TypeOK, SetCursor
    <3>3. QED
      BY <2>1, <3>1, <3>2 DEF CoveredAbove, Covered, Below
  <2>2. CASE m # whom
    <3>1. before'[m] = before[m]
      BY <1>3, <2>2 DEF IInv, TypeOK, SetCursor
    <3>2. QED
      BY <3>1 DEF IInv, Coverage, CursorsCovered, CoveredAbove, Covered, Below
  <2>3. QED
    BY <2>1, <2>2
<1>4. QED
  BY <1>2, <1>3

LEMMA FinishCoverage ==
    ASSUME OneAccountEach, IInv, Finish
    PROVE  Coverage'
<1>1. CASE base # Null
  <2>1. CoveredAbove(whom, puuid, base) /\ Below(puuid, base) /\ base \in Nat
    BY <1>1 DEF Finish, IInv, TypeOK, Coverage, BaseCovered, Cursors
  <2>2. QED
    BY <2>1, SetCursorCovers, CoverageOnStop DEF Finish
<1>2. CASE base = Null
  <2>1. \A m \in Members : before'[m] = before[m] \/ before'[m] = Null
    BY <1>2 DEF Finish, SetCursor, IInv, TypeOK
  <2>2. QED
    BY <2>1, CursorsKept, CoverageOnStop DEF Finish, IInv, Coverage
<1>3. QED
  BY <1>1, <1>2

(* The heart of the matter: below the cursor that was read and above the   *)
(* next one there is only the page, and all of it has been dealt with.     *)
LEMMA AdvanceCovered ==
    ASSUME IInv, at = "page", left = {}, NEW x \in Oldest(seen)
    PROVE  CoveredAbove(whom, puuid, NextCursor(x)) /\ Below(puuid, NextCursor(x))
<1>1. /\ x \in page /\ x \in played /\ x.account = puuid /\ x.time \in Nat
      /\ \A y \in played : y.time \in Nat
      /\ base \in Cursors
  BY DEF IInv, TypeOK, Coverage, PageInRange, Oldest, Matches
<1>2. Below(puuid, NextCursor(x))
  BY <1>1 DEF Below, NextCursor
<1>3. ASSUME NEW w \in played, NEW y \in played,
             w.account = puuid, y.account = puuid, <<whom, w>> \in stored,
             NextCursor(x) < y.time, y.time < w.time
      PROVE  Covered(whom, y)
  <2>1. x.time <= y.time
    BY <1>1, <1>3 DEF NextCursor
  <2>2. CASE y \in page
    BY <2>2 DEF IInv, Coverage, PageDone
  <2>3. CASE base # Null /\ base < y.time
    BY <1>3, <2>3 DEF IInv, Coverage, BaseCovered, CoveredAbove
  <2>4. CASE PlayedSince(y)
    BY <1>1, <1>3, <2>4 DEF PlayedSince
  <2>5. QED
    BY <1>1, <1>3, <2>1, <2>2, <2>3, <2>4 DEF IInv, Coverage, PageWhole
<1>4. QED
  BY <1>2, <1>3 DEF CoveredAbove

LEMMA AdvanceCoverage ==
    ASSUME OneAccountEach, IInv, Advance
    PROVE  Coverage'
<1>1. CASE UNCHANGED <<before, done>>
  BY <1>1, CursorsKept, CoverageOnStop DEF Advance, IInv, Coverage
<1>2. ASSUME NEW x \in Oldest(seen), SetCursor(NextCursor(x), FALSE)
      PROVE  Coverage'
  <2>1. NextCursor(x) \in Nat
    BY <1>2, NextCursorType DEF IInv, Oldest
  <2>2. CursorsCovered'
    BY <1>2, <2>1, AdvanceCovered, SetCursorCovers DEF Advance
  <2>3. QED
    BY <2>2, CoverageOnStop DEF Advance
<1>3. QED
  BY <1>1, <1>2 DEF Advance

LEMMA StepCoverage ==
    ASSUME OneAccountEach, IInv, [Next]_vars
    PROVE  Coverage'
<1>1. CASE UNCHANGED vars
  BY <1>1, CoverageKept DEF IInv, vars, rows
<1>2. CASE Pick
  <2>1. at' = "cursor" /\ page' = {} /\ UNCHANGED <<played, stored, before, lost>>
    BY <1>2 DEF Pick, IInv, TypeOK, rows
  <2>2. QED
    BY <2>1, CursorsKept
       DEF IInv, Coverage, BaseCovered, PageInRange, PageWhole, PageDone
<1>3. CASE ReadCursor
  <2>1. CASE StopWalking
    BY <1>3, <2>1, CursorsKept, CoverageOnStop DEF ReadCursor, IInv, Coverage, rows
  <2>2. CASE at' = "ids"
    <3>1. /\ at = "cursor" /\ base' = before[whom] /\ page' = {}
          /\ UNCHANGED <<played, stored, before, lost, whom, puuid>>
      BY <1>3, <2>2 DEF ReadCursor, StopWalking, IInv, TypeOK, rows
    <3>2. <<whom, puuid>> \in MayLink /\ whom \in Members /\ puuid \in Accounts
      BY <3>1, LinkAssumption DEF IInv, TypeOK, Identities
    <3>3. BaseCovered'
      BY <3>1, <3>2
         DEF IInv, Coverage, CursorsCovered, BaseCovered, CoveredAbove, Covered, Below
    <3>4. CursorsCovered'
      BY <3>1, CursorsKept DEF IInv, Coverage
    <3>5. QED
      BY <2>2, <3>1, <3>3, <3>4 DEF Coverage, PageInRange, PageWhole, PageDone
  <2>3. QED
    BY <1>3, <2>1, <2>2 DEF ReadCursor
<1>4. CASE WalkGoesOn
  BY <1>2, <1>3, <1>4, ListCoverage, FinishCoverage, AdvanceCoverage, StoreCoverage,
     PassCoverage
     DEF WalkGoesOn, IInv
<1>5. CASE TransientFailure \/ CallFails \/ Restart
  <2>1. StopWalking /\ UNCHANGED <<played, stored, before, lost>>
    BY <1>5 DEF TransientFailure, CallFails, Restart, PageAbandoned, rows
  <2>2. QED
    BY <2>1, CursorsKept, CoverageOnStop DEF IInv, Coverage
<1>6. QED
  BY <1>1, <1>4, <1>5, PassCoverage, RequestCoverage, PlayCoverage DEF Next, WalkFails, IInv

LEMMA InitInv == Init => IInv
<1> SUFFICES ASSUME Init PROVE IInv
  OBVIOUS
<1>1. Identities /\ RowUntouched
  BY DEF Init, Identities, RowUntouched
<1>2. Coverage
  BY DEF Init, Coverage, CursorsCovered, BaseCovered, PageInRange, PageWhole, PageDone
<1>3. QED
  BY <1>1, <1>2, InitTypes DEF IInv

LEMMA StepInv ==
    ASSUME OneAccountEach, IInv, [Next]_vars
    PROVE  IInv'
  BY StepTypes, StepIdentities, StepRowUntouched, StepCoverage DEF IInv

(* For members with one Riot account, the walk never leaves a match behind *)
(* between what it has stored and its cursor.                              *)
THEOREM NothingSkipped ==
    ASSUME OneAccountEach
    PROVE  Spec => []NoHole
<1>1. IInv => NoHole
  BY DEF IInv, TypeOK, Identities, Coverage, CursorsCovered, NoHole
<1>2. IInv /\ [Next]_vars => IInv'
  BY StepInv
<1>3. QED
  BY <1>1, <1>2, InitInv, PTL DEF Spec
-----------------------------------------------------------------------------
(* The cursor only falls.                                                  *)

LEMMA StepFalls ==
    ASSUME IInv, [Next]_vars
    PROVE  WalkGoesBack
<1>1. CASE UNCHANGED <<before, done>>
  BY <1>1 DEF WalkGoesBack
<1>2. CASE Finish
  BY <1>2 DEF Finish, SetCursor, WalkGoesBack, IInv, TypeOK, RowUntouched
<1>3. ASSUME NEW x \in Oldest(seen), SetCursor(NextCursor(x), FALSE), at = "page"
      PROVE  WalkGoesBack
  <2>1. x \in page /\ x.time \in Nat /\ (base = Null \/ x.time <= base) /\ base \in Cursors
    BY <1>3 DEF IInv, TypeOK, Coverage, PageInRange, Oldest, Matches
  <2>2. NextCursor(x) \in Nat /\ (base # Null => NextCursor(x) < base)
    BY <1>3, <2>1, NextCursorType DEF IInv, Oldest, NextCursor, Cursors
  <2>3. before[whom] # Null => before[whom] = base
    BY <1>3 DEF IInv, RowUntouched
  <2>4. whom \notin done
    BY <1>3 DEF IInv, RowUntouched
  <2>5. QED
    BY <1>3, <2>2, <2>3, <2>4 DEF SetCursor, WalkGoesBack, IInv, TypeOK, Cursors, Null
<1>4. CASE Advance
  BY <1>1, <1>3, <1>4 DEF Advance
<1>5. ASSUME NEW r \in Requests, Disconnect(r)
      PROVE  WalkGoesBack
  BY <1>5, LinkAssumption DEF Disconnect, WalkGoesBack, IInv, TypeOK
<1>6. ASSUME NEW r \in Requests,
             RequestGoesOn(r) \/ RequestBegins(r) \/ RoutingFails(r) \/ RequestFails(r)
      PROVE  WalkGoesBack
  BY <1>1, <1>5, <1>6
     DEF RequestGoesOn, RequestBegins, WriteIdentity, WriteRouting, Unlink, Connect,
         RoutingFails, RequestFails, rows
<1>7. CASE WalkGoesOn
  BY <1>1, <1>2, <1>4, <1>7
     DEF WalkGoesOn, Pick, ReadCursor, ListIds, StoreMatch, SkipMatch, rows
<1>8. CASE WalkFails \/ Restart \/ \E a \in Accounts : Play(a)
  BY <1>1, <1>8
     DEF WalkFails, TransientFailure, CallFails, LoseMatch, Restart, Play, rows
<1>9. QED
  BY <1>1, <1>6, <1>7, <1>8 DEF Next, vars, rows

(* A page is not walked twice and a finished walk is not taken up again    *)
(* while the member's row lives.                                           *)
THEOREM CursorOnlyFalls ==
    ASSUME OneAccountEach
    PROVE  Spec => CursorFalls
<1>1. IInv /\ [Next]_vars => [WalkGoesBack]_vars
  BY StepFalls
<1>2. IInv /\ [Next]_vars => IInv'
  BY StepInv
<1>3. QED
  BY <1>1, <1>2, InitInv, PTL DEF Spec, CursorFalls

-----------------------------------------------------------------------------
(* The limiter: type correctness, pacing and penalties of RateLimiter, for *)
(* any callers, interval, penalties and bounds.                            *)

(* The cursor is as many intervals after a slot as slots were handed out   *)
(* since, itself included.                                                 *)
CursorAhead ==
    \A i \in 1..Len(reserved) : next - reserved[i] >= Intervals(Len(reserved) + 1 - i)

(* The next turn is not before the end of any penalty. *)
TurnHeld == until <= Turn

LInv == LimiterTypeOK /\ Paced /\ CursorAhead /\ TurnHeld

USE IntervalAssumption, PenaltyAssumption, LimiterBounds, CallersAssumption

-----------------------------------------------------------------------------
(* The first turn satisfies the invariant. *)
LEMMA LimiterInitInv == LimiterInit => LInv
  BY DEF LimiterInit, LInv, LimiterTypeOK, Paced, CursorAhead, TurnHeld, Turn, Later

(* Interval arithmetic *)
LEMMA IntervalsAdd ==
    ASSUME NEW k \in Int
    PROVE  /\ Intervals(k) \in Int
           /\ Intervals(k + 1) = Intervals(k) + Interval
           /\ Intervals(1) = Interval
  BY DEF Intervals

(* A distance grows by an interval when its end does. *)
LEMMA ShiftByInterval ==
    ASSUME NEW t \in Int, NEW r \in Int, NEW k \in Int, t - r >= k
    PROVE  (t + Interval) - r >= k + Interval
  OBVIOUS

(* The next turn is an instant, not before the cursor. *)
LEMMA TurnType ==
    ASSUME LimiterTypeOK
    PROVE  Turn \in Nat /\ next <= Turn /\ now <= Turn
  BY DEF LimiterTypeOK, Turn, Later

(* Handing out the next turn keeps slots apart. *)
LEMMA ReserveKeeps ==
    ASSUME LimiterTypeOK, Paced, CursorAhead, NEW c \in Callers, Reserve(c)
    PROVE  Paced' /\ CursorAhead' /\ reserved' \in Seq(Nat) /\ next' \in Nat
<1> DEFINE n == Len(reserved)
<1>1. /\ Turn \in Nat /\ next <= Turn
      /\ reserved \in Seq(Nat) /\ next \in Nat
  BY TurnType DEF LimiterTypeOK
<1>2. /\ reserved' = Append(reserved, Turn)
      /\ next' = Turn + Interval
  BY DEF Reserve
<1>3. /\ reserved' \in Seq(Nat)
      /\ n \in Nat /\ Len(reserved') = n + 1
      /\ \A i \in 1..n : reserved'[i] = reserved[i]
      /\ reserved'[n + 1] = Turn
  BY <1>1, <1>2
<1>4. \A i \in 1..n : reserved[i] \in Nat
  BY <1>1
<1>5. ASSUME NEW i \in 1..n PROVE Turn - reserved'[i] >= Intervals(n + 1 - i)
  <2>1. next - reserved[i] >= Intervals(n + 1 - i)
    BY DEF CursorAhead
  <2>2. n + 1 - i \in Int
    BY <1>3
  <2>3. Intervals(n + 1 - i) \in Int
    BY <2>2, IntervalsAdd
  <2>4. reserved'[i] = reserved[i] /\ reserved[i] \in Nat
    BY <1>3, <1>4
  <2>5. QED
    BY <2>1, <2>3, <2>4, <1>1
<1>6. Paced'
  <2> SUFFICES ASSUME NEW i \in 1..(n + 1), NEW j \in 1..(n + 1), i < j
               PROVE  reserved'[j] - reserved'[i] >= Intervals(j - i)
    BY <1>3 DEF Paced
  <2>1. i \in 1..n
    BY <1>3
  <2>2. CASE j = n + 1
    BY <2>1, <2>2, <1>3, <1>5
  <2>3. CASE j # n + 1
    <3>1. j \in 1..n
      BY <2>3, <1>3
    <3>2. reserved[j] - reserved[i] >= Intervals(j - i)
      BY <2>1, <3>1 DEF Paced
    <3>3. QED
      BY <2>1, <3>1, <3>2, <1>3
  <2>4. QED
    BY <2>2, <2>3
<1>7. CursorAhead'
  <2> SUFFICES ASSUME NEW i \in 1..(n + 1)
               PROVE  next' - reserved'[i] >= Intervals(Len(reserved') + 1 - i)
    BY <1>3 DEF CursorAhead
  <2>1. CASE i = n + 1
    <3>1. Len(reserved') + 1 - i = 1
      BY <2>1, <1>3
    <3>2. next' - reserved'[i] = Interval
      BY <2>1, <1>1, <1>2, <1>3
    <3>3. Intervals(Len(reserved') + 1 - i) = Interval
      BY <3>1, IntervalsAdd
    <3>4. QED
      BY <3>2, <3>3
  <2>2. CASE i # n + 1
    <3>1. i \in 1..n
      BY <2>2, <1>3
    <3>2. n + 1 - i \in Int /\ Len(reserved') + 1 - i = (n + 1 - i) + 1
      BY <1>3
    <3>3. /\ Intervals(n + 1 - i) \in Int
          /\ Intervals(Len(reserved') + 1 - i) = Intervals(n + 1 - i) + Interval
      BY <3>2, IntervalsAdd
    <3>4. Turn - reserved'[i] >= Intervals(n + 1 - i) /\ reserved'[i] \in Nat
      BY <3>1, <1>3, <1>4, <1>5
    <3>5. (Turn + Interval) - reserved'[i] >= Intervals(n + 1 - i) + Interval
      BY <3>3, <3>4, <1>1, ShiftByInterval
    <3>6. QED
      BY <3>3, <3>5, <1>2
  <2>3. QED
    BY <2>1, <2>2
<1>8. QED
  BY <1>1, <1>2, <1>3, <1>6, <1>7

(* A penalty moves the cursor forward or not at all. *)
LEMMA PenaltyMovesOn ==
    ASSUME LimiterTypeOK, NEW d \in Penalties
    PROVE  Penalised(d) \in Nat /\ next <= Penalised(d) /\ now + d <= Later(Penalised(d), now)
  BY DEF LimiterTypeOK, Penalised, Later

-----------------------------------------------------------------------------
(* Every attempt, metered or not, keeps the invariant's parts. *)
LEMMA AttemptKeeps ==
    ASSUME LInv, NEW c \in Callers, Attempt(c), UNCHANGED <<now, until>>
    PROVE  /\ Paced' /\ CursorAhead' /\ TurnHeld'
           /\ reserved' \in Seq(Nat) /\ next' \in Nat
           /\ slot' \in [Callers -> Nat]
           /\ stage' \in [Callers -> {"idle", "asleep", "sent", "refused"}]
<1> USE DEF LInv
<1>1. CASE Reserve(c)
  <2>1. Turn \in Nat /\ now <= Turn /\ until <= Turn
    BY TurnType DEF TurnHeld
  <2>2. slot' \in [Callers -> Nat] /\ stage' \in [Callers -> {"idle", "asleep", "sent", "refused"}]
    BY <1>1, <2>1 DEF Reserve, LimiterTypeOK
  <2>3. TurnHeld'
    BY <1>1, <2>1 DEF Reserve, LimiterTypeOK, TurnHeld, Turn, Later
  <2>4. QED
    BY <1>1, <2>2, <2>3, ReserveKeeps
<1>2. CASE stage' = [stage EXCEPT ![c] = "sent"] /\ UNCHANGED <<slot, next, reserved>>
  BY <1>2 DEF LimiterTypeOK, Paced, CursorAhead, TurnHeld, Turn, Later
<1>3. QED
  BY <1>1, <1>2 DEF Attempt

(* Every step keeps the invariant. *)
LEMMA LimiterNextInv == LInv /\ [LimiterNext]_limiterVars => LInv'
<1> SUFFICES ASSUME LInv, [LimiterNext]_limiterVars PROVE LInv'
  OBVIOUS
<1>1. ASSUME NEW c \in Callers, Call(c) PROVE LInv'
  <2>1. Attempt(c) /\ UNCHANGED <<now, until>>
    BY <1>1 DEF Call
  <2>2. calls' \in 0..MaxCalls /\ tries' \in [Callers -> 0..MaxRetries]
    BY <1>1 DEF Call, LInv, LimiterTypeOK
  <2>3. QED
    BY <2>1, <2>2, AttemptKeeps DEF LInv, LimiterTypeOK
<1>2. ASSUME NEW c \in Callers, Retry(c) PROVE LInv'
  <2>1. Attempt(c) /\ UNCHANGED <<now, tries, calls, until>>
    BY <1>2 DEF Retry
  <2>2. QED
    BY <2>1, AttemptKeeps DEF LInv, LimiterTypeOK
<1>3. ASSUME NEW c \in Callers, Send(c) \/ Answer(c) \/ Cancel(c) PROVE LInv'
  <2>1. /\ UNCHANGED <<now, next, slot, tries, calls, reserved, until>>
        /\ stage' = [stage EXCEPT ![c] = "sent"] \/ stage' = [stage EXCEPT ![c] = "idle"]
    BY <1>3 DEF Send, Answer, Cancel
  <2>2. QED
    BY <2>1 DEF LInv, LimiterTypeOK, Paced, CursorAhead, TurnHeld, Turn, Later
<1>4. ASSUME NEW c \in Callers, NEW d \in Penalties, Refuse(c, d) PROVE LInv'
  <2>1. /\ next' = Penalised(d) /\ until' = Later(until, now + d)
        /\ UNCHANGED <<now, slot, calls, reserved>>
    BY <1>4 DEF Refuse
  <2>2. LimiterTypeOK'
    <3>1. next' \in Nat /\ until' \in Nat
      BY <2>1, PenaltyMovesOn DEF LInv, LimiterTypeOK, Later
    <3>2. /\ stage' \in [Callers -> {"idle", "asleep", "sent", "refused"}]
          /\ tries' \in [Callers -> 0..MaxRetries]
      BY <1>4 DEF Refuse, GivesUp, LInv, LimiterTypeOK
    <3>3. QED
      BY <2>1, <3>1, <3>2 DEF LInv, LimiterTypeOK
  <2>3. Paced'
    BY <2>1 DEF LInv, Paced
  <2>4. CursorAhead'
    <3> SUFFICES ASSUME NEW i \in 1..Len(reserved)
                 PROVE  next' - reserved[i] >= Intervals(Len(reserved) + 1 - i)
      BY <2>1 DEF CursorAhead
    <3>1. next <= next' /\ next - reserved[i] >= Intervals(Len(reserved) + 1 - i)
      BY <2>1, PenaltyMovesOn DEF LInv, CursorAhead
    <3>2. reserved[i] \in Nat /\ next \in Nat /\ next' \in Nat /\ Len(reserved) \in Nat
      <4>1. reserved \in Seq(Nat) /\ next \in Nat
        BY DEF LInv, LimiterTypeOK
      <4>2. next' \in Nat
        BY <2>2 DEF LimiterTypeOK
      <4>3. QED
        BY <4>1, <4>2
    <3>3. Len(reserved) + 1 - i \in Int
      BY <3>2
    <3>4. Intervals(Len(reserved) + 1 - i) \in Int
      BY <3>3, IntervalsAdd
    <3>5. QED
      BY <3>1, <3>2, <3>4
  <2>5. TurnHeld'
    <3>1. now + d <= Later(next', now) /\ next <= next'
      BY <2>1, PenaltyMovesOn DEF LInv
    <3>2. until <= Later(next, now)
      BY DEF LInv, TurnHeld, Turn
    <3>3. QED
      BY <2>1, <2>2, <3>1, <3>2 DEF LInv, LimiterTypeOK, TurnHeld, Turn, Later
  <2>6. QED
    BY <2>2, <2>3, <2>4, <2>5 DEF LInv
<1>5. CASE Tick
  BY <1>5 DEF Tick, LInv, LimiterTypeOK, Paced, CursorAhead, TurnHeld, Turn, Later
<1>6. CASE UNCHANGED limiterVars
  BY <1>6 DEF limiterVars, LInv, LimiterTypeOK, Paced, CursorAhead, TurnHeld, Turn, Later
<1>7. QED
  BY <1>1, <1>2, <1>3, <1>4, <1>5, <1>6 DEF LimiterNext, GoesOn

(* A turn taken after a 429 is not before the end of its penalty. *)
LEMMA PenaltyStep ==
    LInv /\ [LimiterNext]_limiterVars => (reserved' # reserved => reserved'[Len(reserved')] >= until)
<1> SUFFICES ASSUME LInv, [LimiterNext]_limiterVars, reserved' # reserved
             PROVE  reserved'[Len(reserved')] >= until
  OBVIOUS
<1>1. PICK c \in Callers : Reserve(c)
  BY DEF LimiterNext, limiterVars, GoesOn, Call, Retry, Attempt, Send, Answer, Cancel, Refuse, Tick
<1>2. Turn \in Nat /\ until <= Turn /\ until \in Nat /\ reserved \in Seq(Nat)
  BY TurnType DEF LInv, TurnHeld, LimiterTypeOK
<1>3. reserved'[Len(reserved')] = Turn
  BY <1>1, <1>2 DEF Reserve
<1>4. QED
  BY <1>2, <1>3

-----------------------------------------------------------------------------
LEMMA LimiterInvariance == LimiterSpec => []LInv
  BY LimiterInitInv, LimiterNextInv, PTL DEF LimiterSpec

(* The limiter's variables keep their types; a call is tried at most       *)
(* 1 + MaxRetries times.                                                   *)
THEOREM LimiterTypeCorrect == LimiterSpec => []LimiterTypeOK
<1>1. LInv => LimiterTypeOK
  BY DEF LInv
<1>2. QED
  BY <1>1, LimiterInvariance, PTL

(* n slots span at least n - 1 intervals, whatever was refused, retried or *)
(* given up.                                                               *)
THEOREM PacedAlways == LimiterSpec => []Paced
<1>1. LInv => Paced
  BY DEF LInv
<1>2. QED
  BY <1>1, LimiterInvariance, PTL

(* Turns taken after a 429 respect its penalty. *)
THEOREM PenaltyIsHeld == LimiterSpec => PenaltyHeld
  BY PenaltyStep, LimiterInvariance, PTL DEF LimiterSpec, PenaltyHeld
=============================================================================
