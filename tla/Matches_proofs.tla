--------------------------- MODULE Matches_proofs ---------------------------
(***************************************************************************)
(* Each real match is in its member's history exactly once, for any        *)
(* members, matches, windows and clocks, as long as the clients send their *)
(* reports in the order the matches were played (InOrder) and the          *)
(* assumptions on the times hold.                                          *)
(*                                                                         *)
(* EachMatchOnce speaks of the tables and of the matches; that a report    *)
(* finds no row but its own to repeat rests on what is still in the queue, *)
(* which MInv describes: in the order of the matches, each one a match     *)
(* that was played or the echo of one, and none before a row already       *)
(* written.                                                                *)
(*                                                                         *)
(* The recap and the records (Recap) do not need that order: they follow   *)
(* from what each table is by itself (RowsInv), by lemmas about lists.     *)
(***************************************************************************)
EXTENDS Recap, Data_proofs, TLAPS

Reports == [user : Users, game : Games, at : Int, stamp : Int, long : BOOLEAN,
            data : Prints \cup Plays]

(* What was played: reported when it ended, one match at a time.           *)
FinishedInv ==
    /\ finished \subseteq Reports
    /\ \A f \in finished : f.stamp = f.at /\ f.long /\ f.at <= Clock
    /\ \A f, g \in finished :
          f.user = g.user => f = g \/ f.at + MatchLen <= g.at \/ g.at + MatchLen <= f.at

(* The post-match screen shows the last match. *)
ScreenInv ==
    \A u \in Users : \A s \in screen[u] :
        /\ \E f \in finished : f.user = u /\ f.game = "rocket-league"
                               /\ f.at = s.at /\ f.data = s.data
        /\ \A f \in finished : f.user = u => f.at <= s.at

(* r repeats the real match f from the screen it left. *)
EchoOf(r, f) ==
    /\ f.user = r.user /\ f.game = "rocket-league" /\ r.game = "rocket-league"
    /\ f.at = r.at /\ f.data = r.data
    /\ r.at <= r.stamp /\ r.stamp <= r.at + MaxLinger
    /\ r.long => r.stamp # r.at

QueueInv ==
    /\ queue \in [Users -> Seq(Reports)]
    /\ \A u \in Users : \A i \in DOMAIN queue[u] :
          /\ queue[u][i].user = u
          /\ queue[u][i] \in finished \/ \E f \in finished : EchoOf(queue[u][i], f)
    /\ \A u \in Users : \A i, j \in DOMAIN queue[u] :
          i < j => /\ queue[u][i].at <= queue[u][j].at
                   /\ queue[u][j] \in finished => queue[u][i].at < queue[u][j].at

(* The row of a Hearthstone match. *)
HsRow(f) == [f EXCEPT !.data = Placed(@)]

(* A row is of a match's own report, or of its echo if that was lost. *)
Genuine == {f \in finished : f.game = "rocket-league"}
Echoes == {r \in Reports : \E f \in finished \cap lost : EchoOf(r, f)}

OneRowEach(T) == \A p, q \in T : p.user = q.user /\ p.at = q.at => p = q

TablesInv ==
    /\ rl \subseteq Genuine \cup Echoes
    /\ OneRowEach(rl)
    /\ hs \subseteq {HsRow(f) : f \in {g \in finished : g.game = "hearthstone"}}
    /\ \A q \in rl \cup hs : \A i \in DOMAIN queue[q.user] : q.at <= queue[q.user][i].at

(* What is lost is of a match that was played, and waits no more. *)
LostInv ==
    \A r \in lost :
        /\ \E f \in finished : f.user = r.user /\ f.at = r.at
        /\ r \in finished => ~Queued(r)

(* What left the queue has landed, or is lost. *)
LandedInv ==
    \A f \in finished :
        ~Queued(f) /\ f \notin lost =>
            /\ f.game = "rocket-league" => f \in rl
            /\ f.game = "hearthstone" => SameInstant(hs, f)

MInv ==
    /\ InOrder
    /\ now \in Nat /\ screen \in [Users -> SUBSET [at : Int, data : Prints]]
    /\ FinishedInv /\ ScreenInv /\ QueueInv /\ TablesInv /\ LandedInv
    /\ LostInv

-----------------------------------------------------------------------------
LEMMA Times ==
    /\ Window \in Nat /\ Skew \in Nat /\ MinDuration \in Nat /\ MinDuration >= 1
    /\ MatchLen \in Nat /\ MaxLinger \in Nat /\ MaxTime \in Nat /\ Drift \in Nat
    /\ MaxLinger < Window /\ Window <= MatchLen /\ MaxLinger + Window <= MatchLen
    /\ Drift <= Skew /\ MatchLen >= 1
BY TimesAssumption, DriftAssumption

LEMMA Appended ==
    ASSUME NEW R, NEW s \in Seq(R), NEW r \in R
    PROVE  /\ Append(s, r) \in Seq(R)
           /\ DOMAIN Append(s, r) = DOMAIN s \cup {Len(s) + 1}
           /\ \A i \in DOMAIN s : Append(s, r)[i] = s[i] /\ i < Len(s) + 1
           /\ Append(s, r)[Len(s) + 1] = r
           /\ Len(s) + 1 \notin DOMAIN s
OBVIOUS

(* What a queue is without its first report. *)
Rest(s) == SubSeq(s, 1, 0) \o SubSeq(s, 2, Len(s))

LEMMA FirstDropped ==
    ASSUME NEW R, NEW s \in Seq(R), 1 \in DOMAIN s
    PROVE  /\ Rest(s) \in Seq(R)
           /\ \A i \in DOMAIN Rest(s) : i + 1 \in DOMAIN s /\ Rest(s)[i] = s[i + 1]
           /\ \A i \in DOMAIN s : i # 1 => i - 1 \in DOMAIN Rest(s) /\ Rest(s)[i - 1] = s[i]
<1>1. Len(s) \in Nat /\ Len(s) >= 1 /\ DOMAIN s = 1..Len(s)
  OBVIOUS
<1>2. SubSeq(s, 1, 0) = <<>>
  OBVIOUS
<1>3. SubSeq(s, 2, Len(s)) \in Seq(R) /\ Len(SubSeq(s, 2, Len(s))) = Len(s) - 1
      /\ \A i \in 1..(Len(s) - 1) : SubSeq(s, 2, Len(s))[i] = s[i + 1]
  BY <1>1
<1>4. Rest(s) = SubSeq(s, 2, Len(s))
  BY <1>2, <1>3 DEF Rest
<1>5. DOMAIN Rest(s) = 1..(Len(s) - 1)
  BY <1>1, <1>3, <1>4
<1>6. QED
  BY <1>1, <1>3, <1>4, <1>5

(* Two matches of a member are one, or further apart than the window.      *)
LEMMA Apart ==
    ASSUME FinishedInv, NEW f \in finished, NEW g \in finished, f.user = g.user,
           f.at <= g.at, f.at + Window > g.at
    PROVE  f = g
<1>1. f.at \in Int /\ g.at \in Int
  BY DEF FinishedInv, Reports
<1>2. f = g \/ f.at + MatchLen <= g.at \/ g.at + MatchLen <= f.at
  BY DEF FinishedInv
<1>3. QED
  BY <1>1, <1>2, Times

LEMMA HsRowOf ==
    ASSUME NEW f \in Reports
    PROVE  /\ HsRow(f).user = f.user /\ HsRow(f).at = f.at /\ HsRow(f).stamp = f.stamp
           /\ HsRow(f).game = f.game
BY DEF HsRow, Reports

(* Every row stands for a match that was played. *)
LEMMA RowsPlayed ==
    ASSUME FinishedInv, TablesInv, NEW q \in rl \cup hs
    PROVE  \E f \in finished : /\ f.user = q.user /\ f.at = q.at /\ Recordable(f)
                               /\ f.stamp = q.stamp \/ f \in lost
                               /\ q \in rl => /\ f.game = "rocket-league"
                                              /\ q = f \/ (f \in lost /\ EchoOf(q, f))
                               /\ q \in hs => q = HsRow(f) /\ f.game = "hearthstone"
<1>1. CASE q \in rl
  <2>1. PICK f \in finished : /\ f.game = "rocket-league"
                              /\ q = f \/ (f \in lost /\ EchoOf(q, f))
    BY <1>1 DEF TablesInv, Genuine, Echoes, EchoOf
  <2>2. q.game = "rocket-league" /\ f.user = q.user /\ f.at = q.at
    BY <2>1 DEF EchoOf
  <2>3. q \notin hs
    <3> SUFFICES ASSUME q \in hs PROVE FALSE
      OBVIOUS
    <3>1. PICK g \in finished : q = HsRow(g) /\ g.game = "hearthstone"
      BY DEF TablesInv
    <3>2. g \in Reports
      BY DEF FinishedInv
    <3>3. QED
      BY <2>2, <3>1, <3>2, HsRowOf
  <2>4. QED
    BY <1>1, <2>1, <2>2, <2>3 DEF Recordable
<1>2. CASE q \notin rl
  <2>1. PICK f \in finished : q = HsRow(f) /\ f.game = "hearthstone"
    BY <1>2 DEF TablesInv
  <2>2. f \in Reports
    BY DEF FinishedInv
  <2>3. QED
    BY <1>2, <2>1, <2>2, HsRowOf DEF Recordable
<1>3. QED
  BY <1>1, <1>2

LEMMA MInvIsEnough == MInv => EachMatchOnce
<1> SUFFICES ASSUME MInv PROVE EachMatchOnce
  OBVIOUS
<1>0. FinishedInv /\ TablesInv /\ LandedInv
  BY DEF MInv
<1>1. GenuineLands
  <2> SUFFICES ASSUME NEW r \in finished, Recordable(r), ~Queued(r)
               PROVE  SameInstant(rl \cup hs, r) \/ r \in lost
    BY DEF GenuineLands
  <2> SUFFICES ASSUME r \notin lost PROVE SameInstant(rl \cup hs, r)
    OBVIOUS
  <2>1. CASE r.game = "rocket-league"
    <3>1. r \in rl
      BY <1>0, <2>1 DEF LandedInv
    <3>2. QED
      BY <3>1 DEF SameInstant
  <2>2. CASE r.game = "hearthstone"
    <3>1. SameInstant(hs, r)
      BY <1>0, <2>2 DEF LandedInv
    <3>2. QED
      BY <3>1 DEF SameInstant
  <2>3. QED
    BY <2>1, <2>2 DEF Recordable
<1>2. CountedOnce
  <2> SUFFICES ASSUME NEW p \in rl \cup hs, NEW q \in rl \cup hs, p.user = q.user, p.at = q.at
               PROVE  p = q
    BY DEF CountedOnce
  <2>1. PICK f \in finished : /\ f.user = p.user /\ f.at = p.at
                              /\ p \in rl => f.game = "rocket-league"
                              /\ p \in hs => p = HsRow(f) /\ f.game = "hearthstone"
    BY <1>0, RowsPlayed
  <2>2. PICK g \in finished : /\ g.user = q.user /\ g.at = q.at
                              /\ q \in rl => g.game = "rocket-league"
                              /\ q \in hs => q = HsRow(g) /\ g.game = "hearthstone"
    BY <1>0, RowsPlayed
  <2>3. f.at \in Int /\ g.at \in Int
    BY <1>0 DEF FinishedInv, Reports
  <2>4. f = g
    <3>1. f.at <= g.at /\ f.at + Window > g.at
      BY <2>1, <2>2, <2>3, Times
    <3>2. QED
      BY <1>0, <2>1, <2>2, <3>1, Apart
  <2>5. p \in rl /\ q \in rl => p = q
    BY <1>0 DEF TablesInv, OneRowEach
  <2>6. QED
    BY <2>1, <2>2, <2>4, <2>5
<1>3. \A q \in rl \cup hs :
         \E r \in finished : /\ Recordable(r) /\ r.user = q.user /\ r.at = q.at
                             /\ r.stamp = q.stamp \/ r \in lost
  BY <1>0, RowsPlayed
<1>4. QED
  BY <1>1, <1>2, <1>3 DEF EachMatchOnce

-----------------------------------------------------------------------------
(* What waits in a queue is of some match that was played. *)
LEMMA QueuedPlayed ==
    ASSUME FinishedInv, QueueInv, NEW u \in Users, NEW i \in DOMAIN queue[u]
    PROVE  /\ queue[u][i] \in Reports /\ queue[u][i].user = u
           /\ \E f \in finished : f.user = u /\ f.at = queue[u][i].at
<1>1. queue[u] \in Seq(Reports)
  BY DEF QueueInv
<1>2. queue[u][i] \in Reports
  BY <1>1
<1>3. queue[u][i].user = u /\ (queue[u][i] \in finished \/ \E f \in finished : EchoOf(queue[u][i], f))
  BY DEF QueueInv
<1>4. QED
  BY <1>2, <1>3 DEF EchoOf

(* A report is added to a queue, of the member's last match. *)
LEMMA EnqueueKeeps ==
    ASSUME FinishedInv, QueueInv, TablesInv, LandedInv, LostInv, FinishedInv',
           NEW u \in Users, NEW r \in Reports, Enqueue(u, r), r.user = u,
           UNCHANGED <<rl, hs, lost>>, finished' \in {finished, finished \cup {r}},
           \A f \in finished : f.user = u => f.at <= r.at,
           \/ finished' = finished \cup {r} /\ \A f \in finished : f.user = u => f.at < r.at
           \/ finished' = finished /\ r \notin finished /\ \E f \in finished : EchoOf(r, f)
    PROVE  QueueInv' /\ TablesInv' /\ LandedInv' /\ LostInv'
<1>1. queue \in [Users -> Seq(Reports)] /\ queue[u] \in Seq(Reports)
  BY DEF QueueInv
<1>2. /\ queue' = [queue EXCEPT ![u] = Append(queue[u], r)]
      /\ queue'[u] = Append(queue[u], r) /\ \A v \in Users : v # u => queue'[v] = queue[v]
  BY <1>1 DEF Enqueue
<1> DEFINE k == Len(queue[u]) + 1
<1>3. /\ queue' \in [Users -> Seq(Reports)]
      /\ DOMAIN queue'[u] = DOMAIN queue[u] \cup {k} /\ queue'[u][k] = r /\ k \notin DOMAIN queue[u]
      /\ \A i \in DOMAIN queue[u] : queue'[u][i] = queue[u][i] /\ i < k
  <2>1. /\ Append(queue[u], r) \in Seq(Reports)
        /\ DOMAIN Append(queue[u], r) = DOMAIN queue[u] \cup {k}
        /\ \A i \in DOMAIN queue[u] : Append(queue[u], r)[i] = queue[u][i] /\ i < k
        /\ Append(queue[u], r)[k] = r /\ k \notin DOMAIN queue[u]
    BY <1>1, Appended
  <2>2. QED
    BY <1>1, <1>2, <2>1
<1>4. \A v \in Users : \A i \in DOMAIN queue[v] :
         i \in DOMAIN queue'[v] /\ queue'[v][i] = queue[v][i]
  BY <1>2, <1>3
<1>5. \A v \in Users : \A i \in DOMAIN queue'[v] :
         \/ i \in DOMAIN queue[v] /\ queue'[v][i] = queue[v][i]
         \/ v = u /\ i = k /\ queue'[v][i] = r
  BY <1>2, <1>3
<1>6. ASSUME NEW v \in Users, NEW i \in DOMAIN queue[v]
      PROVE  /\ queue[v][i].user = v
             /\ queue[v][i] \in finished' => queue[v][i] \in finished
             /\ queue[v][i].at \in Int
             /\ v = u => queue[v][i].at <= r.at
             /\ v = u /\ r \in finished' => queue[v][i].at < r.at
  <2>1. /\ queue[v][i] \in Reports /\ queue[v][i].user = v
        /\ \E f \in finished : f.user = v /\ f.at = queue[v][i].at
    BY QueuedPlayed
  <2>2. r.at \in Int /\ queue[v][i].at \in Int
    BY <2>1 DEF Reports
  <2>3. queue[v][i] = r /\ r \in finished' => r \in finished
    BY <2>1, <2>2
  <2>4. QED
    BY <2>1, <2>2, <2>3
<1> HIDE DEF k
<1>7. QueueInv'
  <2>1. ASSUME NEW v \in Users, NEW i \in DOMAIN queue'[v]
        PROVE  /\ queue'[v][i].user = v
               /\ queue'[v][i] \in finished' \/ \E f \in finished' : EchoOf(queue'[v][i], f)
    <3>1. CASE i \in DOMAIN queue[v] /\ queue'[v][i] = queue[v][i]
      <4>1. queue[v][i] \in finished \/ \E f \in finished : EchoOf(queue[v][i], f)
        BY <3>1 DEF QueueInv
      <4>2. finished \subseteq finished' /\ queue[v][i].user = v
        BY <1>6, <3>1
      <4>3. QED
        BY <3>1, <4>1, <4>2
    <3>2. CASE v = u /\ i = k /\ queue'[v][i] = r
      BY <3>2
    <3>3. QED
      BY <1>5, <3>1, <3>2
  <2>2. ASSUME NEW v \in Users, NEW i \in DOMAIN queue'[v], NEW j \in DOMAIN queue'[v], i < j
        PROVE  /\ queue'[v][i].at <= queue'[v][j].at
               /\ queue'[v][j] \in finished' => queue'[v][i].at < queue'[v][j].at
    <3>1. CASE j \in DOMAIN queue[v] /\ queue'[v][j] = queue[v][j]
      <4>1. i \in DOMAIN queue[v] /\ queue'[v][i] = queue[v][i]
        <5>1. CASE v # u
          BY <1>5, <5>1
        <5>2. CASE v = u
          <6>1. i # k
            <7>1. j < k /\ j \in Nat /\ k \in Nat
              BY <1>1, <1>3, <3>1, <5>2 DEF k
            <7>2. i \in Nat
              BY <1>1, <1>3, <5>2, <7>1
            <7>3. QED
              BY <2>2, <7>1, <7>2
          <6>2. QED
            BY <1>5, <6>1
        <5>3. QED
          BY <5>1, <5>2
      <4>2. /\ queue[v][i].at <= queue[v][j].at
            /\ queue[v][j] \in finished => queue[v][i].at < queue[v][j].at
        BY <2>2, <3>1, <4>1 DEF QueueInv
      <4>3. queue[v][j] \in finished' => queue[v][j] \in finished
        BY <1>6, <3>1
      <4>4. QED
        BY <3>1, <4>1, <4>2, <4>3
    <3>2. CASE v = u /\ j = k /\ queue'[v][j] = r
      <4>1. i \in DOMAIN queue[v] /\ queue'[v][i] = queue[v][i]
        <5>1. i # k
          <6>1. k \in Nat
            BY <1>1 DEF k
          <6>2. QED
            BY <2>2, <3>2, <6>1
        <5>2. QED
          BY <1>5, <3>2, <5>1
      <4>2. QED
        BY <1>6, <3>2, <4>1
    <3>3. QED
      BY <1>5, <3>1, <3>2
  <2>3. QED
    BY <1>3, <2>1, <2>2 DEF QueueInv, EchoOf
<1>8. TablesInv'
  <2>1. ASSUME NEW q \in rl \cup hs, NEW i \in DOMAIN queue'[q.user]
        PROVE  q.at <= queue'[q.user][i].at
    <3>1. PICK f \in finished : f.user = q.user /\ f.at = q.at
      BY RowsPlayed
    <3>2. q.user \in Users
      BY <3>1 DEF FinishedInv, Reports
    <3>3. CASE i \in DOMAIN queue[q.user] /\ queue'[q.user][i] = queue[q.user][i]
      BY <3>3 DEF TablesInv
    <3>4. CASE q.user = u /\ queue'[q.user][i] = r
      BY <3>1, <3>4
    <3>5. QED
      BY <1>5, <3>2, <3>3, <3>4
  <2>2. finished \subseteq finished'
    OBVIOUS
  <2>3. QED
    BY <2>1, <2>2 DEF TablesInv, Genuine, Echoes, EchoOf, OneRowEach, HsRow, Placed
<1>9. LandedInv'
  <2>1. \A f \in finished : Queued(f) => Queued(f)'
    <3>1. \A f \in finished : f.user \in Users
      BY DEF FinishedInv, Reports
    <3>2. QED
      BY <1>4, <3>1 DEF Queued
  <2>2. Queued(r)'
    BY <1>3 DEF Queued
  <2>3. QED
    BY <2>1, <2>2 DEF LandedInv, SameInstant
<1>10. LostInv'
  <2> SUFFICES ASSUME NEW x \in lost
               PROVE  /\ \E f \in finished' : f.user = x.user /\ f.at = x.at
                      /\ x \in finished' => ~Queued(x)'
    BY DEF LostInv
  <2>1. PICK f \in finished : f.user = x.user /\ f.at = x.at
    BY DEF LostInv
  <2>2. x # r \/ r \notin finished'
    <3> SUFFICES ASSUME x = r, r \in finished' PROVE FALSE
      OBVIOUS
    <3>1. f.at \in Int /\ f.at < r.at
      BY <2>1 DEF FinishedInv, Reports
    <3>2. QED
      BY <2>1, <3>1
  <2>3. ASSUME x \in finished', Queued(x)' PROVE FALSE
    <3>1. x \in finished /\ x # r
      BY <2>2, <2>3
    <3>2. PICK i \in DOMAIN queue'[x.user] : queue'[x.user][i] = x
      BY <2>3 DEF Queued
    <3>3. x.user \in Users
      BY <3>1 DEF FinishedInv, Reports
    <3>4. i \in DOMAIN queue[x.user] /\ queue[x.user][i] = x
      BY <1>5, <3>1, <3>2, <3>3
    <3>5. QED
      BY <3>1, <3>4 DEF LostInv, Queued
  <2>4. QED
    BY <2>1, <2>3
<1>11. QED
  BY <1>7, <1>8, <1>9, <1>10

LEMMA FinishKeeps ==
    ASSUME MInv, NEW u \in Users, NEW g \in Games, NEW d \in Data(g), Finish(u, g, d)
    PROVE  MInv'
<1> DEFINE r == Report(u, g, Clock, Clock, TRUE, d)
<1>1. /\ Enqueue(u, r) /\ finished' = finished \cup {r} /\ UNCHANGED <<now, lost, rl, hs>>
      /\ \A f \in finished : f.user = u => f.at + MatchLen <= Clock
      /\ screen' = [screen EXCEPT
            ![u] = IF g = "rocket-league" THEN {[at |-> Clock, data |-> d]} ELSE {}]
  BY DEF Finish
<1>2. Clock \in Int /\ Clock' = Clock
  BY <1>1, Times DEF Clock, MInv
<1>3. /\ r \in Reports /\ r.user = u /\ r.game = g /\ r.at = Clock /\ r.stamp = Clock /\ r.long
      /\ r.data = d
  BY <1>2 DEF Report, Reports, Data
<1> HIDE DEF r
<1>4. \A f \in finished : f.at \in Int /\ (f.user = u => f.at < r.at /\ f.at + MatchLen <= r.at)
  BY <1>1, <1>2, <1>3, Times DEF MInv, FinishedInv, Reports
<1>5. FinishedInv'
  <2>1. finished' \subseteq Reports
    BY <1>1, <1>3 DEF MInv, FinishedInv
  <2>2. \A f \in finished' : f.stamp = f.at /\ f.long /\ f.at <= Clock'
    BY <1>1, <1>2, <1>3 DEF MInv, FinishedInv
  <2>3. \A f, h \in finished' :
           f.user = h.user => f = h \/ f.at + MatchLen <= h.at \/ h.at + MatchLen <= f.at
    BY <1>1, <1>3, <1>4 DEF MInv, FinishedInv
  <2>4. QED
    BY <2>1, <2>2, <2>3 DEF FinishedInv
<1>6. \A f \in finished : f.user = u => f.at <= r.at
  BY <1>3, <1>4, <1>2
<1>7. QueueInv' /\ TablesInv' /\ LandedInv' /\ LostInv'
  BY <1>1, <1>3, <1>4, <1>5, <1>6, EnqueueKeeps DEF MInv
<1>8. screen' \in [Users -> SUBSET [at : Int, data : Prints]] /\ ScreenInv'
  <2>1. g = "rocket-league" => d \in Prints
    BY DEF Data
  <2>2. screen' \in [Users -> SUBSET [at : Int, data : Prints]]
    BY <1>1, <1>2, <2>1 DEF MInv
  <2>3. ASSUME NEW v \in Users, NEW x \in screen'[v]
        PROVE  /\ \E f \in finished' : f.user = v /\ f.game = "rocket-league"
                                      /\ f.at = x.at /\ f.data = x.data
               /\ \A f \in finished' : f.user = v => f.at <= x.at
    <3>1. CASE v = u
      <4>1. x.at = r.at /\ x.data = r.data /\ r.game = "rocket-league"
        BY <1>1, <1>3, <2>3, <3>1 DEF MInv
      <4>2. QED
        BY <1>1, <1>2, <1>3, <1>6, <3>1, <4>1
    <3>2. CASE v # u
      <4>1. x \in screen[v]
        BY <1>1, <2>3, <3>2 DEF MInv
      <4>2. QED
        BY <1>1, <1>3, <3>2, <4>1 DEF MInv, ScreenInv
    <3>3. QED
      BY <3>1, <3>2
  <2>4. QED
    BY <2>2, <2>3 DEF ScreenInv
<1>9. QED
  BY <1>1, <1>5, <1>7, <1>8 DEF MInv

LEMMA EchoKeeps ==
    ASSUME MInv, NEW u \in Users, Echo(u)
    PROVE  MInv'
<1>1. PICK x \in screen[u] :
         /\ Clock - x.at <= MaxLinger
         /\ Enqueue(u, Report(u, "rocket-league", x.at, Clock, Clock - x.at >= MinDuration, x.data))
  BY DEF Echo
<1> DEFINE r == Report(u, "rocket-league", x.at, Clock, Clock - x.at >= MinDuration, x.data)
<1>2. /\ screen' = [screen EXCEPT ![u] = {}] /\ UNCHANGED <<now, finished, lost, rl, hs>>
  BY DEF Echo
<1>3. Clock \in Int /\ Clock' = Clock /\ x.at \in Int /\ x.data \in Prints
  BY <1>2, Times DEF Clock, MInv
<1>4. /\ r \in Reports /\ r.user = u /\ r.game = "rocket-league" /\ r.at = x.at /\ r.stamp = Clock
      /\ r.long = (Clock - x.at >= MinDuration) /\ r.data = x.data
  BY <1>3 DEF Report, Reports, Games
<1> HIDE DEF r
<1>5. PICK f \in finished : f.user = u /\ f.game = "rocket-league" /\ f.at = x.at /\ f.data = x.data
  BY DEF MInv, ScreenInv
<1>6. r.at <= r.stamp /\ r.stamp <= r.at + MaxLinger /\ (r.long => r.stamp # r.at)
  <2>1. Clock <= x.at + MaxLinger /\ x.at <= Clock
    BY <1>1, <1>3, <1>5, Times DEF MInv, FinishedInv
  <2>2. Clock - x.at >= MinDuration => Clock # x.at
    BY <1>3, Times
  <2>3. QED
    BY <1>4, <2>1, <2>2
<1>7. EchoOf(r, f)
  BY <1>4, <1>5, <1>6 DEF EchoOf
<1>8. r \notin finished
  BY <1>6 DEF MInv, FinishedInv
<1>9. \A h \in finished : h.user = u => h.at <= r.at
  BY <1>4 DEF MInv, ScreenInv
<1>10. FinishedInv'
  BY <1>2, <1>3 DEF MInv, FinishedInv
<1>11. Enqueue(u, r)
  BY <1>1 DEF r
<1>12. QueueInv' /\ TablesInv' /\ LandedInv' /\ LostInv'
  BY <1>2, <1>4, <1>7, <1>8, <1>9, <1>10, <1>11, EnqueueKeeps DEF MInv
<1>13. screen' \in [Users -> SUBSET [at : Int, data : Prints]] /\ ScreenInv'
  BY <1>2 DEF MInv, ScreenInv
<1>14. QED
  BY <1>2, <1>10, <1>12, <1>13 DEF MInv

-----------------------------------------------------------------------------
(* What recording the oldest report does to the tables. *)
Stored(r) ==
    /\ rl \subseteq rl' /\ hs \subseteq hs'
    /\ \A q \in rl' \cup hs' : q \in rl \cup hs \/ (q.user = r.user /\ q.at = r.at)
    /\ rl' \subseteq Genuine \cup Echoes /\ OneRowEach(rl')
    /\ hs' \subseteq {HsRow(f) : f \in {g \in finished : g.game = "hearthstone"}}

LandsIfReal(r) ==
    r \in finished =>
        /\ r.game = "rocket-league" => r \in rl'
        /\ r.game = "hearthstone" => SameInstant(hs', r)

(* A real match is stored, unless its own row is there: nothing older is   *)
(* near enough to be repeated.  An echo repeats the match it is of, whose  *)
(* report was ahead of it, or stands for it if that report was lost.       *)
LEMMA InsertStores ==
    ASSUME MInv, NEW u \in Users, 1 \in DOMAIN queue[u],
           Tracked(queue[u][1]), Valid(queue[u][1]), Insert(queue[u][1])
    PROVE  Stored(queue[u][1]) /\ LandsIfReal(queue[u][1])
<1> DEFINE r == queue[u][1]
<1>0. FinishedInv /\ QueueInv /\ TablesInv /\ LandedInv /\ LostInv
  BY DEF MInv
<1>1. r \in Reports /\ r.user = u /\ (r \in finished \/ \E f \in finished : EchoOf(r, f))
  BY <1>0, QueuedPlayed DEF QueueInv
<1>2. r.game \in {"rocket-league", "hearthstone"}
  BY <1>1 DEF Reports, Games, Tracked, Valid
<1>a. r.at \in Int /\ r.stamp \in Int /\ (r \in finished => r.stamp = r.at)
  BY <1>0, <1>1 DEF Reports, FinishedInv
<1>3. CASE r.game = "hearthstone"
  <2>1. r \in finished
    BY <1>1, <1>3 DEF EchoOf
  <2>2. rl' = rl /\ hs' = IF SameInstant(hs, r) THEN hs ELSE hs \cup {HsRow(r)}
    BY <1>3 DEF Insert, HsRow
  <2>3. HsRow(r).user = r.user /\ HsRow(r).at = r.at /\ HsRow(r).stamp = r.stamp
    BY <1>1, HsRowOf
  <2>4. Stored(r)
    BY <1>0, <1>3, <2>1, <2>2, <2>3 DEF Stored, TablesInv
  <2>5. SameInstant(hs', r)
    BY <2>2, <2>3 DEF SameInstant
  <2>6. QED
    BY <1>3, <2>4, <2>5 DEF LandsIfReal
<1>4. CASE r.game = "rocket-league"
  <2>1. hs' = hs /\ rl' = IF Repeat(r) \/ SameInstant(rl, r) THEN rl ELSE rl \cup {r}
    BY <1>4 DEF Insert
  <2>2. CASE r \in finished
    <3>0. r \notin lost
      BY <1>0, <1>1, <2>2 DEF LostInv, Queued
    <3>1. ASSUME NEW q \in rl, q.user = r.user, q.stamp > r.stamp - Window \/ q.at = r.at
          PROVE  q = r
      <4>1. PICK g \in finished : /\ g.user = q.user /\ g.at = q.at
                                  /\ q = g \/ (g \in lost /\ EchoOf(q, g))
        BY <1>0, RowsPlayed
      <4>2. g.stamp = g.at /\ g.at \in Int /\ g.at <= r.at
        BY <1>0, <1>1, <3>1, <4>1 DEF TablesInv, FinishedInv, Reports
      <4>3. CASE q = g
        <5>1. g.at + Window > r.at
          BY <1>a, <2>2, <3>1, <4>2, <4>3, Times
        <5>2. QED
          BY <1>0, <2>2, <3>1, <4>1, <4>2, <4>3, <5>1, Apart
      <4>4. CASE g \in lost /\ EchoOf(q, g)
        <5>1. g # r
          BY <3>0, <4>4
        <5>2. ~(g.at + Window > r.at)
          BY <1>0, <2>2, <3>1, <4>1, <4>2, <5>1, Apart
        <5>3. g.at + MatchLen <= r.at \/ r.at + MatchLen <= g.at
          BY <1>0, <2>2, <3>1, <4>1, <5>1 DEF FinishedInv
        <5>4. g.at + MatchLen <= r.at
          BY <1>a, <4>2, <5>3, Times
        <5>5. q.stamp \in Int /\ q.stamp <= g.at + MaxLinger
          <6>1. q \in Reports
            BY <1>0, <3>1 DEF TablesInv, Genuine, Echoes, FinishedInv
          <6>2. QED
            BY <4>1, <4>4, <6>1 DEF EchoOf, Reports
        <5>6. ~(q.stamp > r.stamp - Window)
          BY <1>a, <2>2, <4>2, <5>4, <5>5, Times
        <5>7. q.at # r.at
          BY <1>a, <4>1, <4>2, <5>4, Times
        <5>8. QED
          BY <3>1, <5>6, <5>7
      <4>5. QED
        BY <4>1, <4>3, <4>4
    <3>2. ASSUME NEW q \in rl, q.user = r.user, q.stamp = r.stamp PROVE q.stamp > r.stamp - Window
      BY <1>a, <3>2, Times
    <3>3. Repeat(r) \/ SameInstant(rl, r) => r \in rl
      BY <3>1, <3>2 DEF Repeat, SameInstant
    <3>4. rl' = rl \cup {r}
      BY <2>1, <3>3
    <3>5. OneRowEach(rl')
      BY <1>0, <3>1, <3>4 DEF TablesInv, OneRowEach
    <3>6. Stored(r)
      BY <1>0, <1>4, <2>1, <2>2, <3>4, <3>5 DEF Stored, TablesInv, Genuine
    <3>7. QED
      BY <1>4, <3>4, <3>6 DEF LandsIfReal
  <2>3. CASE r \notin finished
    <3>1. PICK f \in finished : EchoOf(r, f)
      BY <1>1, <2>3
    <3>2. ~Queued(f)
      <4> SUFFICES ASSUME NEW k \in DOMAIN queue[u], queue[u][k] = f PROVE FALSE
        BY <1>1, <3>1 DEF Queued, EchoOf
      <4>1. k # 1
        BY <2>3
      <4>2. 1 < k
        <5>1. queue[u] \in Seq(Reports)
          BY <1>0 DEF QueueInv
        <5>2. k \in Nat /\ k >= 1
          BY <5>1
        <5>3. QED
          BY <4>1, <5>2
      <4>3. r.at < f.at
        BY <1>0, <4>2 DEF QueueInv
      <4>4. QED
        BY <1>a, <3>1, <4>3 DEF EchoOf
    <3>3. f \in rl \/ f \in lost
      BY <1>0, <3>1, <3>2 DEF LandedInv, EchoOf
    <3>4. /\ f.stamp = r.at /\ f.user = r.user /\ f.at = r.at /\ f.data = r.data
          /\ r.stamp <= r.at + MaxLinger
      BY <1>0, <3>1 DEF EchoOf, FinishedInv
    <3>5. ASSUME NEW q \in rl, q.user = r.user, q.at = r.at PROVE Repeat(r)
      <4>1. PICK g \in finished : /\ g.user = q.user /\ g.at = q.at
                                  /\ q = g \/ (g \in lost /\ EchoOf(q, g))
        BY <1>0, RowsPlayed
      <4>2. g = f
        <5>1. f.at <= g.at /\ f.at + Window > g.at
          BY <1>a, <3>4, <3>5, <4>1, Times
        <5>2. QED
          BY <1>0, <3>4, <3>5, <4>1, <5>1, Apart
      <4>3. q.data = r.data /\ r.at <= q.stamp
        BY <1>a, <3>4, <4>1, <4>2 DEF EchoOf
      <4>4. q.stamp \in Int
        BY <1>0, <3>5 DEF TablesInv, Genuine, Echoes, FinishedInv, Reports
      <4>5. q.stamp > r.stamp - Window
        BY <1>a, <3>4, <4>3, <4>4, Times
      <4>6. QED
        BY <3>5, <4>3, <4>5 DEF Repeat
    <3>6. CASE Repeat(r)
      <4>1. rl' = rl /\ hs' = hs
        BY <2>1, <3>6
      <4>2. QED
        BY <1>0, <2>3, <4>1 DEF Stored, LandsIfReal, TablesInv
    <3>7. CASE ~Repeat(r)
      <4>1. f \in lost
        BY <3>3, <3>4, <3>5, <3>7
      <4>2. r \in Echoes
        BY <1>1, <3>1, <4>1 DEF Echoes
      <4>3. \A q \in rl : ~(q.user = r.user /\ q.at = r.at)
        BY <3>5, <3>7
      <4>4. OneRowEach(rl \cup {r})
        BY <1>0, <4>3 DEF TablesInv, OneRowEach
      <4>5. rl' \in {rl, rl \cup {r}} /\ hs' = hs
        BY <2>1
      <4>6. QED
        BY <1>0, <2>3, <4>2, <4>4, <4>5 DEF Stored, LandsIfReal, TablesInv
    <3>8. QED
      BY <3>6, <3>7
  <2>4. QED
    BY <2>2, <2>3
<1>5. QED
  BY <1>2, <1>3, <1>4

(* A report is refused only if it is no real match of these games.         *)
LEMMA RefusedIsNoMatch ==
    ASSUME MInv, NEW r \in finished, ~Tracked(r) \/ ~Valid(r)
    PROVE  ~Recordable(r)
<1>1. r \in Reports /\ r.stamp = r.at /\ r.long /\ r.at <= Clock
  BY DEF MInv, FinishedInv
<1>2. r.stamp <= now + Skew
  BY <1>1, Times DEF Clock, MInv, Reports
<1>3. QED
  BY <1>1, <1>2 DEF Valid, Tracked, Recordable

(* After a delivery, whether the client drops its report or keeps it.      *)
LEMMA DeliveryKeeps ==
    ASSUME MInv, NEW u \in Users, 1 \in DOMAIN queue[u], Stored(queue[u][1]),
           UNCHANGED <<now, screen, finished>>,
           \/ UNCHANGED <<queue, lost>>
           \/ Drop(u, 1) /\ UNCHANGED lost /\ LandsIfReal(queue[u][1])
           \/ Drop(u, 1) /\ lost' = lost \cup {queue[u][1]}
    PROVE  MInv'
<1> DEFINE r == queue[u][1]
<1>0. FinishedInv /\ QueueInv /\ TablesInv /\ LandedInv /\ LostInv
  BY DEF MInv
<1>1. queue \in [Users -> Seq(Reports)] /\ r.user = u
  BY <1>0 DEF QueueInv
<1>2. CASE UNCHANGED <<queue, lost>>
  <2>1. QueueInv' /\ FinishedInv' /\ ScreenInv'
    BY <1>2 DEF MInv, QueueInv, FinishedInv, ScreenInv, EchoOf, Clock
  <2>2. \A i \in DOMAIN queue[u] : r.at <= queue[u][i].at
    <3> SUFFICES ASSUME NEW i \in DOMAIN queue[u] PROVE r.at <= queue[u][i].at
      OBVIOUS
    <3>1. queue[u] \in Seq(Reports) /\ i \in Nat /\ i >= 1
      BY <1>1
    <3>2. r.at \in Int
      BY <1>0, QueuedPlayed DEF Reports
    <3>3. CASE i = 1
      BY <3>2, <3>3
    <3>4. CASE i # 1
      BY <1>0, <3>1, <3>4 DEF QueueInv
    <3>5. QED
      BY <3>3, <3>4
  <2>3. TablesInv'
    BY <1>0, <1>1, <1>2, <2>2 DEF Stored, TablesInv, Genuine, Echoes, OneRowEach,
                                  HsRow, Placed
  <2>4. LandedInv'
    BY <1>0, <1>2 DEF Stored, LandedInv, Queued, SameInstant
  <2>5. LostInv'
    BY <1>0, <1>2 DEF LostInv, Queued
  <2>6. QED
    BY <2>1, <2>3, <2>4, <2>5 DEF MInv
<1>3. CASE /\ Drop(u, 1)
           /\ \/ UNCHANGED lost /\ LandsIfReal(r)
              \/ lost' = lost \cup {r}
  <2> DEFINE t == Rest(queue[u])
  <2>1. queue'[u] = t /\ \A v \in Users : v # u => queue'[v] = queue[v]
    BY <1>1, <1>3 DEF Drop, Rest
  <2>2. /\ t \in Seq(Reports)
        /\ \A i \in DOMAIN t : i + 1 \in DOMAIN queue[u] /\ t[i] = queue[u][i + 1]
        /\ \A i \in DOMAIN queue[u] : i # 1 => i - 1 \in DOMAIN t /\ t[i - 1] = queue[u][i]
    BY <1>1, FirstDropped
  <2>3. queue' \in [Users -> Seq(Reports)]
    BY <1>1, <1>3, <2>1, <2>2 DEF Drop
  <2>4. \A i \in DOMAIN t : i \in Nat /\ i >= 1
    BY <2>2
  <2> HIDE DEF t
  <2>5. QueueInv'
    <3>1. ASSUME NEW v \in Users, NEW i \in DOMAIN queue'[v]
          PROVE  /\ queue'[v][i].user = v
                 /\ queue'[v][i] \in finished \/ \E f \in finished : EchoOf(queue'[v][i], f)
      <4>1. PICK j \in DOMAIN queue[v] : queue'[v][i] = queue[v][j]
        <5>1. CASE v = u
          BY <2>1, <2>2, <3>1, <5>1
        <5>2. CASE v # u
          BY <2>1, <3>1, <5>2
        <5>3. QED
          BY <5>1, <5>2
      <4>2. QED
        BY <1>0, <4>1 DEF QueueInv
    <3>2. ASSUME NEW v \in Users, NEW i \in DOMAIN queue'[v], NEW j \in DOMAIN queue'[v], i < j
          PROVE  /\ queue'[v][i].at <= queue'[v][j].at
                 /\ queue'[v][j] \in finished => queue'[v][i].at < queue'[v][j].at
      <4>1. CASE v # u
        BY <1>0, <2>1, <3>2, <4>1 DEF QueueInv
      <4>2. CASE v = u
        <5>a. i \in DOMAIN t /\ j \in DOMAIN t
          BY <2>1, <4>2
        <5>b. /\ i + 1 \in DOMAIN queue[u] /\ t[i] = queue[u][i + 1]
              /\ j + 1 \in DOMAIN queue[u] /\ t[j] = queue[u][j + 1]
          BY <2>2, <5>a
        <5>c. i \in Nat /\ j \in Nat
          BY <2>4, <5>a
        <5>d. i + 1 < j + 1
          BY <3>2, <5>c
        <5>1. /\ i + 1 \in DOMAIN queue[u] /\ j + 1 \in DOMAIN queue[u] /\ i + 1 < j + 1
              /\ t[i] = queue[u][i + 1] /\ t[j] = queue[u][j + 1]
          BY <5>b, <5>d
        <5>2. QED
          BY <1>0, <2>1, <4>2, <5>1 DEF QueueInv
      <4>3. QED
        BY <4>1, <4>2
    <3>3. QED
      BY <2>3, <3>1, <3>2 DEF QueueInv, EchoOf
  <2>6. TablesInv'
    <3>1. ASSUME NEW q \in rl' \cup hs', NEW i \in DOMAIN queue'[q.user]
          PROVE  q.at <= queue'[q.user][i].at
      <4>1. CASE q \in rl \cup hs
        <5>1. q.user \in Users
          BY <1>0, <4>1, RowsPlayed DEF FinishedInv, Reports
        <5>2. CASE q.user # u
          BY <1>0, <2>1, <4>1, <5>1, <5>2 DEF TablesInv
        <5>3. CASE q.user = u
          <6>1. i \in DOMAIN t
            BY <2>1, <5>3
          <6>2. i + 1 \in DOMAIN queue[u] /\ t[i] = queue[u][i + 1]
            BY <2>2, <6>1
          <6>3. q.at <= queue[u][i + 1].at
            BY <1>0, <4>1, <5>3, <6>2 DEF TablesInv
          <6>4. QED
            BY <2>1, <5>3, <6>2, <6>3
        <5>4. QED
          BY <5>2, <5>3
      <4>2. CASE q.user = u /\ q.at = r.at
        <5>a. i \in DOMAIN t
          BY <2>1, <4>2
        <5>b. i + 1 \in DOMAIN queue[u] /\ queue'[u][i] = queue[u][i + 1]
          BY <2>1, <2>2, <5>a
        <5>c. i \in Nat /\ i >= 1
          BY <2>4, <5>a
        <5>d. 1 < i + 1
          BY <5>c
        <5>1. i + 1 \in DOMAIN queue[u] /\ 1 < i + 1 /\ queue'[u][i] = queue[u][i + 1]
          BY <5>b, <5>d
        <5>2. QED
          BY <1>0, <4>2, <5>1 DEF QueueInv
      <4>3. QED
        BY <1>1, <4>1, <4>2 DEF Stored
    <3>2. QED
      BY <1>3, <3>1 DEF TablesInv, Stored, Genuine, Echoes, EchoOf, OneRowEach, HsRow, Placed
  <2>7. LandedInv'
    <3>1. ASSUME NEW f \in finished, Queued(f), ~Queued(f)' PROVE f = r
      <4>1. PICK i \in DOMAIN queue[f.user] : queue[f.user][i] = f
        BY <3>1 DEF Queued
      <4>2. f.user \in Users
        BY <1>0 DEF FinishedInv, Reports
      <4>3. f.user = u
        BY <2>1, <3>1, <4>1, <4>2 DEF Queued
      <4>4. i = 1
        BY <2>1, <2>2, <3>1, <4>1, <4>3 DEF Queued
      <4>5. QED
        BY <4>1, <4>3, <4>4
    <3>2. ASSUME NEW f \in finished, ~Queued(f), f \notin lost
          PROVE  /\ f.game = "rocket-league" => f \in rl'
                 /\ f.game = "hearthstone" => SameInstant(hs', f)
      BY <1>0, <3>2 DEF LandedInv, Stored, SameInstant
    <3>3. ASSUME NEW f \in finished, ~Queued(f)', f \notin lost'
          PROVE  /\ f.game = "rocket-league" => f \in rl'
                 /\ f.game = "hearthstone" => SameInstant(hs', f)
      <4>1. CASE ~Queued(f)
        BY <1>3, <3>2, <3>3, <4>1
      <4>2. CASE Queued(f)
        <5>1. f = r
          BY <3>1, <3>3, <4>2
        <5>2. LandsIfReal(f)
          BY <1>3, <3>3, <5>1
        <5>3. QED
          BY <3>3, <5>2 DEF LandsIfReal
      <4>3. QED
        BY <4>1, <4>2
    <3>4. QED
      BY <3>3 DEF LandedInv, SameInstant
  <2>8. FinishedInv' /\ ScreenInv'
    BY DEF MInv, FinishedInv, ScreenInv, Clock
  <2>9. LostInv'
    <3>1. ASSUME NEW f \in finished, Queued(f)'
          PROVE  Queued(f) /\ (f = r => FALSE)
      <4>1. PICK i \in DOMAIN queue'[f.user] : queue'[f.user][i] = f
        BY <3>1 DEF Queued
      <4>2. f.user \in Users /\ f.at \in Int
        BY <1>0 DEF FinishedInv, Reports
      <4>3. CASE f.user # u
        BY <1>1, <2>1, <4>1, <4>2, <4>3 DEF Queued
      <4>4. CASE f.user = u
        <5>1. i \in DOMAIN t
          BY <2>1, <4>1, <4>4
        <5>2. i + 1 \in DOMAIN queue[u] /\ queue[u][i + 1] = f
          BY <2>1, <2>2, <4>1, <4>4, <5>1
        <5>3. 1 < i + 1
          BY <2>4, <5>1
        <5>4. r.at < f.at
          BY <1>0, <5>2, <5>3 DEF QueueInv
        <5>5. QED
          BY <4>2, <4>4, <5>2, <5>4 DEF Queued
      <4>5. QED
        BY <4>3, <4>4
    <3>2. \E f \in finished : f.user = r.user /\ f.at = r.at
      BY <1>0, <1>1, QueuedPlayed
    <3>3. lost' \subseteq lost \cup {r}
      BY <1>3
    <3>4. QED
      BY <1>0, <3>1, <3>2, <3>3 DEF LostInv
  <2>10. QED
    BY <2>5, <2>6, <2>7, <2>8, <2>9 DEF MInv
<1>4. QED
  BY <1>2, <1>3

LEMMA DeliverKeeps ==
    ASSUME MInv, NEW u \in Users, Deliver(u)
    PROVE  MInv'
<1>1. PICK i \in Sendable(u) : \/ \E heard \in BOOLEAN : Recorded(u, i, heard)
                             \/ Refused(u, i)
                             \/ LookupFails(u, i)
  BY DEF Deliver
<1>2. i = 1 /\ 1 \in DOMAIN queue[u]
  BY DEF Sendable, MInv
<1>3. ASSUME NEW heard \in BOOLEAN, Recorded(u, 1, heard) PROVE MInv'
  <2>1. Stored(queue[u][1]) /\ LandsIfReal(queue[u][1])
    BY <1>2, <1>3, InsertStores DEF Recorded
  <2>2. UNCHANGED <<now, screen, finished, lost>> /\ (UNCHANGED queue \/ Drop(u, 1))
    BY <1>3 DEF Recorded
  <2>3. QED
    BY <1>2, <2>1, <2>2, DeliveryKeeps
<1>4. ASSUME Refused(u, 1) PROVE MInv'
  <2>1. UNCHANGED <<now, screen, finished, lost, rl, hs>> /\ Drop(u, 1)
    BY <1>4 DEF Refused
  <2>2. queue[u][1] \in finished => ~Recordable(queue[u][1])
    BY <1>4, RefusedIsNoMatch DEF Refused
  <2>3. Stored(queue[u][1])
    BY <2>1 DEF Stored, MInv, TablesInv
  <2>4. LandsIfReal(queue[u][1])
    BY <2>2 DEF LandsIfReal, Recordable
  <2>5. QED
    BY <1>2, <2>1, <2>3, <2>4, DeliveryKeeps
<1>5. ASSUME LookupFails(u, 1) PROVE MInv'
  <2>1. /\ UNCHANGED <<now, screen, finished, rl, hs>> /\ Drop(u, 1)
        /\ lost' = lost \cup {queue[u][1]}
    BY <1>5 DEF LookupFails
  <2>2. Stored(queue[u][1])
    BY <2>1 DEF Stored, MInv, TablesInv
  <2>3. QED
    BY <1>2, <2>1, <2>2, DeliveryKeeps
<1>6. QED
  BY <1>1, <1>2, <1>3, <1>4, <1>5

LEMMA MInvKept == MInv /\ [Next]_vars => MInv'
<1> SUFFICES ASSUME MInv, [Next]_vars PROVE MInv'
  OBVIOUS
<1>1. ASSUME UNCHANGED <<queue, screen, finished, lost, rl, hs>>, now' \in Nat, now' >= now PROVE MInv'
  <2>1. FinishedInv'
    <3>1. \A f \in finished : f.at \in Int /\ f.at <= now + Drift
      BY DEF MInv, FinishedInv, Reports, Clock
    <3>2. \A f \in finished : f.at <= now' + Drift
      BY <1>1, <3>1, Times DEF MInv
    <3>3. QED
      BY <1>1, <3>2 DEF MInv, FinishedInv, Clock
  <2>2. ScreenInv' /\ QueueInv' /\ TablesInv' /\ LandedInv' /\ LostInv'
    BY <1>1 DEF MInv, ScreenInv, QueueInv, EchoOf, TablesInv, Genuine, Echoes, OneRowEach, HsRow,
                Placed, LandedInv, LostInv, Queued, SameInstant
  <2>3. QED
    BY <1>1, <2>1, <2>2 DEF MInv
<1>2. CASE Tick
  BY <1>1, <1>2 DEF Tick, MInv
<1>3. CASE UNCHANGED vars
  BY <1>1, <1>3 DEF vars, MInv
<1>4. QED
  BY <1>2, <1>3, FinishKeeps, EchoKeeps, DeliverKeeps DEF Next

LEMMA MInvInit == InOrder /\ Init => MInv
<1> SUFFICES ASSUME InOrder, Init PROVE MInv
  OBVIOUS
<1>1. queue \in [Users -> Seq(Reports)] /\ \A u \in Users : DOMAIN queue[u] = {}
  BY DEF Init
<1>2. QueueInv
  BY <1>1 DEF QueueInv
<1>3. FinishedInv /\ ScreenInv /\ TablesInv /\ LandedInv /\ LostInv
  BY DEF Init, FinishedInv, ScreenInv, TablesInv, OneRowEach, LandedInv, LostInv
<1>4. QED
  BY <1>2, <1>3 DEF Init, MInv

(* A member's history holds each real match exactly once and nothing else, *)
(* for any members, matches and clocks within their assumptions, however   *)
(* often the reports are sent, when the client sends its queue oldest      *)
(* first: the insert of store/rocketleague.go and store/hearthstone.go.    *)
THEOREM MatchesOnce == InOrder /\ Spec => []EachMatchOnce
<1>1. InOrder /\ Spec => []MInv
  BY MInvInit, MInvKept, PTL DEF Spec
<1>2. QED
  BY <1>1, MInvIsEnough, PTL

-----------------------------------------------------------------------------
(* The tables, whatever order the reports come in. *)

Told == {r \in Reports : r.game = "hearthstone" => r.data \in Plays}

(* At one instant a member has one row. *)
OneAtOnce(T) == \A p, q \in T : p.user = q.user /\ p.stamp = q.stamp => p = q

RowsInv ==
    /\ now \in Nat
    /\ screen \in [Users -> SUBSET [at : Int, data : Prints]]
    /\ queue \in [Users -> Seq(Told)]
    /\ rl \subseteq {r \in Told : r.game = "rocket-league"}
    /\ hs \subseteq {HsRow(r) : r \in {q \in Told : q.game = "hearthstone"}}
    /\ IsFiniteSet(rl) /\ IsFiniteSet(hs)
    /\ OneAtOnce(rl) /\ OneAtOnce(hs)

LEMMA EnqueueTyped ==
    ASSUME RowsInv, NEW u \in Users, NEW r \in Told, Enqueue(u, r)
    PROVE  queue' \in [Users -> Seq(Told)]
<1>1. queue \in [Users -> Seq(Told)]
  BY DEF RowsInv
<1>2. queue[u] \in Seq(Told)
  BY <1>1
<1>3. Append(queue[u], r) \in Seq(Told)
  BY <1>2
<1>4. QED
  BY <1>1, <1>3 DEF Enqueue

LEMMA DropTyped ==
    ASSUME RowsInv, NEW u \in Users, NEW i \in DOMAIN queue[u], Drop(u, i)
    PROVE  queue' \in [Users -> Seq(Told)]
<1>1. queue \in [Users -> Seq(Told)]
  BY DEF RowsInv
<1>2. queue[u] \in Seq(Told)
  BY <1>1
<1>3. PICK s : s = queue[u]
  OBVIOUS
<1>4. s \in Seq(Told) /\ i \in 1..Len(s) /\ Len(s) \in Nat
  BY <1>2, <1>3
<1>5. SubSeq(s, 1, i - 1) \in Seq(Told)
  BY <1>4
<1>6. SubSeq(s, i + 1, Len(s)) \in Seq(Told)
  BY <1>4
<1>7. SubSeq(s, 1, i - 1) \o SubSeq(s, i + 1, Len(s)) \in Seq(Told)
  BY <1>5, <1>6
<1>8. QED
  BY <1>1, <1>3, <1>7 DEF Drop

LEMMA OneMore ==
    ASSUME NEW T, IsFiniteSet(T), OneAtOnce(T), NEW r, ~SameInstant(T, r)
    PROVE  IsFiniteSet(T \cup {r}) /\ OneAtOnce(T \cup {r})
<1>1. IsFiniteSet(T \cup {r})
  BY FS_AddElement
<1>2. OneAtOnce(T \cup {r})
  BY DEF OneAtOnce, SameInstant
<1>3. QED
  BY <1>1, <1>2

LEMMA InsertTyped ==
    ASSUME RowsInv, NEW r \in Told, Tracked(r), Valid(r), Insert(r)
    PROVE  /\ rl' \subseteq {q \in Told : q.game = "rocket-league"}
           /\ hs' \subseteq {HsRow(p) : p \in {q \in Told : q.game = "hearthstone"}}
           /\ IsFiniteSet(rl') /\ IsFiniteSet(hs')
           /\ OneAtOnce(rl') /\ OneAtOnce(hs')
<1>1. /\ rl \subseteq {q \in Told : q.game = "rocket-league"}
      /\ hs \subseteq {HsRow(p) : p \in {q \in Told : q.game = "hearthstone"}}
      /\ IsFiniteSet(rl) /\ IsFiniteSet(hs) /\ OneAtOnce(rl) /\ OneAtOnce(hs)
  BY DEF RowsInv
<1>2. r \in Reports
  BY DEF Told
<1>3. CASE r.game = "hearthstone"
  <2>1. rl' = rl /\ hs' = IF SameInstant(hs, r) THEN hs ELSE hs \cup {HsRow(r)}
    BY <1>3 DEF Insert, HsRow
  <2>2. HsRow(r).user = r.user /\ HsRow(r).stamp = r.stamp
    BY <1>2, HsRowOf
  <2>3. SameInstant(hs, HsRow(r)) <=> SameInstant(hs, r)
    BY <2>2 DEF SameInstant
  <2>4. ~SameInstant(hs, r) => IsFiniteSet(hs \cup {HsRow(r)}) /\ OneAtOnce(hs \cup {HsRow(r)})
    BY <1>1, <2>3, OneMore
  <2>5. QED
    BY <1>1, <1>3, <2>1, <2>4
<1>4. CASE r.game # "hearthstone"
  <2>1. r.game = "rocket-league"
    BY <1>2, <1>4 DEF Reports, Games, Tracked, Valid
  <2>2. hs' = hs /\ rl' = IF Repeat(r) \/ SameInstant(rl, r) THEN rl ELSE rl \cup {r}
    BY <1>4 DEF Insert
  <2>3. ~SameInstant(rl, r) => IsFiniteSet(rl \cup {r}) /\ OneAtOnce(rl \cup {r})
    BY <1>1, OneMore
  <2>4. QED
    BY <1>1, <2>1, <2>2, <2>3
<1>5. QED
  BY <1>3, <1>4

LEMMA RowsKept == RowsInv /\ [Next]_vars => RowsInv'
<1> SUFFICES ASSUME RowsInv, [Next]_vars PROVE RowsInv'
  OBVIOUS
<1>0. now \in Nat /\ Clock \in Int
  BY Times DEF RowsInv, Clock
<1>1. ASSUME NEW u \in Users, NEW g \in Games, NEW d \in Data(g), Finish(u, g, d)
      PROVE  RowsInv'
  <2>1. PICK r : r = Report(u, g, Clock, Clock, TRUE, d)
    OBVIOUS
  <2>2. r \in Told
    BY <1>0, <2>1 DEF Report, Reports, Data, Told
  <2>3. Enqueue(u, r)
    BY <1>1, <2>1 DEF Finish
  <2>4. queue' \in [Users -> Seq(Told)]
    BY <2>2, <2>3, EnqueueTyped
  <2>5. screen' \in [Users -> SUBSET [at : Int, data : Prints]]
    <3>1. g = "rocket-league" => [at |-> Clock, data |-> d] \in [at : Int, data : Prints]
      BY <1>0 DEF Data
    <3>2. QED
      BY <1>1, <3>1 DEF Finish, RowsInv
  <2>6. UNCHANGED <<now, rl, hs>>
    BY <1>1 DEF Finish
  <2>7. QED
    BY <2>4, <2>5, <2>6 DEF RowsInv, OneAtOnce
<1>2. ASSUME NEW u \in Users, Echo(u)
      PROVE  RowsInv'
  <2>1. PICK s \in screen[u] : Enqueue(u, Report(u, "rocket-league", s.at, Clock,
                                                 Clock - s.at >= MinDuration, s.data))
    BY <1>2 DEF Echo
  <2>2. s \in [at : Int, data : Prints]
    BY <2>1 DEF RowsInv
  <2>3. PICK r : r = Report(u, "rocket-league", s.at, Clock, Clock - s.at >= MinDuration, s.data)
    OBVIOUS
  <2>4. r \in Told
    BY <1>0, <2>2, <2>3 DEF Report, Reports, Told, Games
  <2>5. queue' \in [Users -> Seq(Told)]
    BY <2>1, <2>3, <2>4, EnqueueTyped
  <2>6. screen' \in [Users -> SUBSET [at : Int, data : Prints]]
    BY <1>2 DEF Echo, RowsInv
  <2>7. UNCHANGED <<now, rl, hs>>
    BY <1>2 DEF Echo
  <2>8. QED
    BY <2>5, <2>6, <2>7 DEF RowsInv, OneAtOnce
<1>3. ASSUME NEW u \in Users, Deliver(u)
      PROVE  RowsInv'
  <2>1. PICK i \in Sendable(u) : \/ \E heard \in BOOLEAN : Recorded(u, i, heard)
                                 \/ Refused(u, i)
                                 \/ LookupFails(u, i)
    BY <1>3 DEF Deliver
  <2>2. i \in DOMAIN queue[u]
    BY <2>1 DEF Sendable
  <2>3. PICK r : r = queue[u][i]
    OBVIOUS
  <2>4. r \in Told
    <3>1. queue[u] \in Seq(Told)
      BY DEF RowsInv
    <3>2. QED
      BY <2>2, <2>3, <3>1
  <2>5. ASSUME NEW heard \in BOOLEAN, Recorded(u, i, heard)
        PROVE  RowsInv'
    <3>1. /\ rl' \subseteq {q \in Told : q.game = "rocket-league"}
          /\ hs' \subseteq {HsRow(p) : p \in {q \in Told : q.game = "hearthstone"}}
          /\ IsFiniteSet(rl') /\ IsFiniteSet(hs')
          /\ OneAtOnce(rl') /\ OneAtOnce(hs')
      BY <2>3, <2>4, <2>5, InsertTyped DEF Recorded
    <3>2. queue' \in [Users -> Seq(Told)]
      <4>1. Drop(u, i) \/ UNCHANGED queue
        BY <2>5 DEF Recorded
      <4>2. QED
        BY <2>2, <4>1, DropTyped DEF RowsInv
    <3>3. UNCHANGED <<now, screen>>
      BY <2>5 DEF Recorded
    <3>4. QED
      BY <3>1, <3>2, <3>3 DEF RowsInv, OneAtOnce
  <2>6. ASSUME Refused(u, i) \/ LookupFails(u, i)
        PROVE  RowsInv'
    <3>1. queue' \in [Users -> Seq(Told)]
      BY <2>2, <2>6, DropTyped DEF Refused, LookupFails
    <3>2. UNCHANGED <<now, screen, rl, hs>>
      BY <2>6 DEF Refused, LookupFails
    <3>3. QED
      BY <3>1, <3>2 DEF RowsInv, OneAtOnce
  <2>7. QED
    BY <2>1, <2>5, <2>6
<1>4. ASSUME UNCHANGED <<queue, screen, rl, hs>>, now' \in Nat
      PROVE  RowsInv'
  BY <1>4 DEF RowsInv, OneAtOnce
<1>5. CASE Tick
  BY <1>4, <1>5 DEF Tick, RowsInv
<1>6. CASE UNCHANGED vars
  BY <1>4, <1>6 DEF vars, RowsInv
<1>7. QED
  BY <1>1, <1>2, <1>3, <1>5, <1>6 DEF Next

LEMMA RowsHold == Spec => []RowsInv
<1>1. Init => RowsInv
  <2> SUFFICES ASSUME Init PROVE RowsInv
    OBVIOUS
  <2>1. IsFiniteSet(rl) /\ IsFiniteSet(hs) /\ OneAtOnce(rl) /\ OneAtOnce(hs)
    BY FS_EmptySet DEF Init, OneAtOnce
  <2>2. queue \in [Users -> Seq(Told)]
    BY DEF Init
  <2>3. QED
    BY <2>1, <2>2 DEF Init, RowsInv
<1>2. QED
  BY <1>1, RowsKept, PTL DEF Spec

(* What is known of a row. *)
LEMMA RowIs ==
    ASSUME RowsInv, NEW r \in rl \cup hs
    PROVE  /\ r.user \in Users /\ r.stamp \in Int
           /\ r \in rl <=> r.game = "rocket-league"
           /\ r \in hs <=> r.game = "hearthstone"
           /\ NameRank[r.user] \in Nat
<1>1. \A q \in rl : q \in Reports /\ q.game = "rocket-league"
  BY DEF RowsInv, Told
<1>2. \A q \in hs : \E p \in Reports : q = HsRow(p) /\ p.game = "hearthstone"
  BY DEF RowsInv, Told
<1>3. \A q \in hs : q.user \in Users /\ q.stamp \in Int /\ q.game = "hearthstone"
  BY <1>2, HsRowOf DEF Reports
<1>4. \A q \in rl : q.user \in Users /\ q.stamp \in Int
  BY <1>1 DEF Reports
<1>5. QED
  BY <1>1, <1>3, <1>4, NamesAssumption

(* Only Battlegrounds matches are ranked. *)
LEMMA RankedIsBattlegrounds ==
    ASSUME RowsInv, NEW r \in hs, r.data.place # None
    PROVE  r.data.mode = "battlegrounds"
<1>1. PICK p \in Reports : r = HsRow(p) /\ p.data \in Plays
  BY DEF RowsInv, Told
<1>2. PICK d : d = p.data
  OBVIOUS
<1>3. d \in [mode : STRING, place : Nat, card : STRING]
  BY <1>1, <1>2, PlaysAssumption
<1>4. r.data = Placed(d)
  BY <1>1, <1>2 DEF HsRow, Reports
<1>5. d.mode # "battlegrounds" => Placed(d).place = None
  BY <1>3 DEF Placed
<1>6. d.mode = "battlegrounds" => Placed(d) = d
  BY DEF Placed
<1>7. QED
  BY <1>4, <1>5, <1>6

-----------------------------------------------------------------------------
(* The order of the timeline: by the instant, the Rocket League match      *)
(* before the Hearthstone one, then by name.  Within a table it is that of *)
(* the query.                                                              *)

Sooner(p, q) ==
    \/ p.stamp < q.stamp
    \/ /\ p.stamp = q.stamp
       /\ \/ p.game = "rocket-league" /\ q.game = "hearthstone"
          \/ p.game = q.game /\ NameRank[p.user] < NameRank[q.user]

InTime == {k \in (rl \cup hs) \X (rl \cup hs) : Sooner(k[1], k[2])}

LEMMA InTimeIsLinear ==
    ASSUME RowsInv, NEW R \in SUBSET (rl \cup hs)
    PROVE  Linear(R, InTime)
<1>1. \A p, q \in rl \cup hs : <<p, q>> \in InTime <=> Sooner(p, q)
  BY DEF InTime
<1>2. ASSUME NEW p \in rl \cup hs PROVE ~Sooner(p, p)
  BY RowIs DEF Sooner
<1>3. ASSUME NEW p \in rl \cup hs, NEW q \in rl \cup hs, p # q PROVE Sooner(p, q) \/ Sooner(q, p)
  <2>1. /\ p.stamp \in Int /\ NameRank[p.user] \in Nat /\ p.user \in Users
        /\ q.stamp \in Int /\ NameRank[q.user] \in Nat /\ q.user \in Users
        /\ p.game \in {"rocket-league", "hearthstone"}
        /\ q.game \in {"rocket-league", "hearthstone"}
        /\ p \in rl <=> p.game = "rocket-league"
        /\ q \in rl <=> q.game = "rocket-league"
        /\ p \in hs <=> p.game = "hearthstone"
        /\ q \in hs <=> q.game = "hearthstone"
    BY RowIs
  <2>2. CASE p.stamp = q.stamp /\ p.game = q.game
    <3>1. p.user # q.user
      BY <1>3, <2>1, <2>2 DEF RowsInv, OneAtOnce
    <3>2. NameRank[p.user] # NameRank[q.user]
      BY <2>1, <3>1, NamesAssumption
    <3>3. QED
      BY <2>1, <2>2, <3>2 DEF Sooner
  <2>3. CASE p.stamp = q.stamp /\ p.game # q.game
    BY <2>1, <2>3 DEF Sooner
  <2>4. CASE p.stamp # q.stamp
    BY <2>1, <2>4 DEF Sooner
  <2>5. QED
    BY <2>2, <2>3, <2>4
<1>4. ASSUME NEW p \in rl \cup hs, NEW q \in rl \cup hs, NEW r \in rl \cup hs,
             Sooner(p, q), Sooner(q, r)
      PROVE  Sooner(p, r)
  <2>1. /\ p.stamp \in Int /\ NameRank[p.user] \in Nat
        /\ q.stamp \in Int /\ NameRank[q.user] \in Nat
        /\ r.stamp \in Int /\ NameRank[r.user] \in Nat
    BY RowIs
  <2>2. QED
    BY <1>4, <2>1 DEF Sooner
<1>5. QED
  BY <1>1, <1>2, <1>3, <1>4 DEF Linear

LEMMA QueryLists ==
    ASSUME RowsInv, NEW T \in {rl, hs}, NEW R \in SUBSET T
    PROVE  Lists(Ordered(R, Earlier), R, InTime)
<1>1. R \in SUBSET (rl \cup hs)
  OBVIOUS
<1>2. IsFiniteSet(R) /\ Linear(R, InTime)
  BY <1>1, InTimeIsLinear, FS_Subset DEF RowsInv
<1>3. PICK n : n = Cardinality(R)
  OBVIOUS
<1>4. PICK s : s = Ordered(R, Earlier)
  OBVIOUS
<1>5. s = [i \in 1..n |-> CHOOSE r \in R : Cardinality({q \in R : Earlier(q, r)}) = i - 1]
  BY <1>3, <1>4 DEF Ordered
<1>6. \A r \in R : {q \in R : Earlier(q, r)} = Below(R, InTime, r)
  <2>1. \A q, r \in R : Sooner(q, r) <=> Earlier(q, r)
    BY <1>1, RowIs DEF Sooner, Earlier
  <2>2. QED
    BY <1>1, <2>1 DEF Below, InTime
<1>7. n \in Nat
  BY <1>2, <1>3, FS_CardinalityType
<1>8. ASSUME NEW i \in 1..n PROVE s[i] \in R /\ Rank(R, InTime, s[i]) = i - 1
  <2>1. PICK k : k = i - 1 /\ k \in 0..(n - 1)
    BY <1>7
  <2>2. PICK r \in R : Rank(R, InTime, r) = k
    BY <1>2, <1>3, <2>1, RanksAreTaken
  <2>3. Cardinality({q \in R : Earlier(q, r)}) = k
    BY <1>6, <2>2 DEF Rank
  <2>4. s[i] = CHOOSE x \in R : Cardinality({q \in R : Earlier(q, x)}) = k
    BY <1>5, <2>1
  <2>5. s[i] \in R /\ Cardinality({q \in R : Earlier(q, s[i])}) = k
    BY <2>3, <2>4
  <2>6. QED
    BY <1>6, <2>1, <2>5 DEF Rank
<1>9. s \in [1..n -> R]
  BY <1>5, <1>8
<1>10. QED
  BY <1>2, <1>3, <1>4, <1>8, <1>9, ListedByRank

-----------------------------------------------------------------------------
(* The merge: what was taken from the two lists, in order, and all of it   *)
(* before what remains.                                                    *)

Taken(c, i, d, j) == {c[x] : x \in 1..i} \cup {d[y] : y \in 1..j}

Upto(out, c, i, d, j) ==
    /\ Lists(out, Taken(c, i, d, j), InTime)
    /\ \A t \in Taken(c, i, d, j) :
          /\ \A x \in 1..Len(c) : i < x => <<t, c[x]>> \in InTime
          /\ \A y \in 1..Len(d) : j < y => <<t, d[y]>> \in InTime

LEMMA UptoEither ==
    ASSUME NEW out, NEW c, NEW i, NEW d, NEW j, Upto(out, c, i, d, j)
    PROVE  Upto(out, d, j, c, i)
<1>1. Taken(c, i, d, j) = Taken(d, j, c, i)
  BY DEF Taken
<1>2. QED
  BY <1>1 DEF Upto

LEMMA OneTaken ==
    ASSUME RowsInv, NEW C \in SUBSET (rl \cup hs), NEW D \in SUBSET (rl \cup hs),
           NEW c, Lists(c, C, InTime), NEW d, Lists(d, D, InTime),
           NEW i \in Nat, i < Len(c), NEW j \in Nat, j <= Len(d),
           NEW out, Upto(out, c, i, d, j),
           j < Len(d) => <<c[i + 1], d[j + 1]>> \in InTime
    PROVE  Upto(Append(out, c[i + 1]), c, i + 1, d, j)
<1>1. PICK T : T = Taken(c, i, d, j)
  OBVIOUS
<1>2. c \in Seq(C) /\ d \in Seq(D)
  BY DEF Lists
<1>3. Len(c) \in Nat /\ Len(d) \in Nat
  BY <1>2
<1>4. i + 1 \in 1..Len(c)
  BY <1>3
<1>5. PICK z : z = c[i + 1]
  OBVIOUS
<1>6. z \in C
  BY <1>2, <1>4, <1>5
<1>7. \A t \in T : <<t, z>> \in InTime
  <2>1. i < i + 1
    OBVIOUS
  <2>2. QED
    BY <1>1, <1>4, <1>5, <2>1 DEF Upto
<1>8. PICK Z : Z = {z}
  OBVIOUS
<1>9. Lists(<<z>>, Z, InTime)
  <2>1. <<z>> \in Seq(Z) /\ Len(<<z>>) = 1 /\ <<z>>[1] = z
    BY <1>8
  <2>2. \A k, l \in 1..1 : ~(k < l)
    OBVIOUS
  <2>3. \A x \in Z : \E k \in 1..1 : <<z>>[k] = x
    BY <1>8, <2>1
  <2>4. QED
    BY <2>1, <2>2, <2>3 DEF Lists
<1>10. Lists(out, T, InTime)
  BY <1>1 DEF Upto
<1>11. Lists(out \o <<z>>, T \cup Z, InTime)
  BY <1>7, <1>8, <1>9, <1>10, ListsJoin
<1>12. Append(out, z) = out \o <<z>>
  <2>1. out \in Seq(T)
    BY <1>10 DEF Lists
  <2>2. QED
    BY <2>1
<1>13. Taken(c, i + 1, d, j) = T \cup Z
  <2>1. {c[x] : x \in 1..(i + 1)} = {c[x] : x \in 1..i} \cup {z}
    <3>1. 1..(i + 1) = (1..i) \cup {i + 1}
      OBVIOUS
    <3>2. QED
      BY <1>5, <3>1
  <2>2. QED
    BY <1>1, <1>8, <2>1 DEF Taken
<1>14. Linear(rl \cup hs, InTime)
  BY InTimeIsLinear
<1>15. ASSUME NEW x \in 1..Len(c), i + 1 < x PROVE <<z, c[x]>> \in InTime
  BY <1>4, <1>5, <1>15 DEF Lists
<1>16. ASSUME NEW y \in 1..Len(d), j < y PROVE <<z, d[y]>> \in InTime
  <2>1. j + 1 \in 1..Len(d) /\ j < Len(d)
    BY <1>3, <1>16
  <2>2. <<z, d[j + 1]>> \in InTime
    BY <1>5, <2>1
  <2>3. CASE y = j + 1
    BY <2>2, <2>3
  <2>4. CASE j + 1 < y
    <3>1. <<d[j + 1], d[y]>> \in InTime
      BY <2>1, <2>4 DEF Lists
    <3>2. d[j + 1] \in D /\ d[y] \in D
      BY <1>2, <2>1
    <3>3. QED
      BY <1>6, <1>14, <2>2, <3>1, <3>2 DEF Linear
  <2>5. QED
    BY <1>3, <1>16, <2>3, <2>4
<1>17. ASSUME NEW t \in T
       PROVE  /\ \A x \in 1..Len(c) : i + 1 < x => <<t, c[x]>> \in InTime
              /\ \A y \in 1..Len(d) : j < y => <<t, d[y]>> \in InTime
  <2>1. /\ \A x \in 1..Len(c) : i < x => <<t, c[x]>> \in InTime
        /\ \A y \in 1..Len(d) : j < y => <<t, d[y]>> \in InTime
    BY <1>1 DEF Upto
  <2>2. \A x \in 1..Len(c) : i + 1 < x => i < x
    BY <1>3
  <2>3. QED
    BY <2>1, <2>2
<1>18. QED
  BY <1>5, <1>8, <1>11, <1>12, <1>13, <1>15, <1>16, <1>17 DEF Upto

(* The earlier of the next two. *)
LEMMA NextOfTwo ==
    ASSUME RowsInv, NEW p \in rl, NEW q \in hs
    PROVE  /\ q.stamp < p.stamp => <<q, p>> \in InTime
           /\ ~(q.stamp < p.stamp) => <<p, q>> \in InTime
<1>1. /\ p.game = "rocket-league" /\ q.game = "hearthstone"
      /\ p.stamp \in Int /\ q.stamp \in Int
  BY RowIs
<1>2. QED
  BY <1>1 DEF InTime, Sooner

Halves(a, A, b, B) ==
    /\ A \in SUBSET rl /\ Lists(a, A, InTime)
    /\ B \in SUBSET hs /\ Lists(b, B, InTime)

MergeTurn(a, b, m) ==
    LET j == Len(m.out) - m.i
    IN  IF \/ j = Len(b)
           \/ m.i < Len(a) /\ ~(b[j + 1].stamp < a[m.i + 1].stamp)
        THEN [i |-> m.i + 1, out |-> Append(m.out, a[m.i + 1])]
        ELSE [i |-> m.i, out |-> Append(m.out, b[j + 1])]

(* The states of the merge. *)
Merging(a, A, b, B) ==
    {m \in [i : Nat, out : Seq(A \cup B)] :
        /\ m.i <= Len(a)
        /\ Len(m.out) - m.i \in 0..Len(b)
        /\ Upto(m.out, a, m.i, b, Len(m.out) - m.i)}

LEMMA TurnMerges ==
    ASSUME RowsInv, NEW a, NEW A, NEW b, NEW B, Halves(a, A, b, B),
           NEW m \in Merging(a, A, b, B), Len(m.out) # Len(a) + Len(b)
    PROVE  /\ MergeTurn(a, b, m) \in Merging(a, A, b, B)
           /\ Len(MergeTurn(a, b, m).out) = Len(m.out) + 1
<1>1. /\ A \in SUBSET rl /\ Lists(a, A, InTime)
      /\ B \in SUBSET hs /\ Lists(b, B, InTime)
      /\ A \in SUBSET (rl \cup hs) /\ B \in SUBSET (rl \cup hs)
  BY DEF Halves
<1>2. a \in Seq(A) /\ b \in Seq(B)
  BY <1>1 DEF Lists
<1>3. Len(a) \in Nat /\ Len(b) \in Nat
  BY <1>2
<1>4. PICK i, out : i = m.i /\ out = m.out
  OBVIOUS
<1>5. i \in Nat /\ out \in Seq(A \cup B) /\ i <= Len(a)
  BY <1>4 DEF Merging
<1>6. PICK k : k = Len(out) /\ k \in Nat
  BY <1>5
<1>7. PICK j : j = k - i
  OBVIOUS
<1>8. j \in 0..Len(b) /\ Upto(out, a, i, b, j)
  BY <1>4, <1>6, <1>7 DEF Merging
<1>9. j \in Nat /\ j <= Len(b) /\ (i < Len(a) \/ j < Len(b))
  BY <1>3, <1>4, <1>5, <1>6, <1>7, <1>8
<1>10. i < Len(a) => a[i + 1] \in A
  BY <1>2, <1>3, <1>5
<1>11. j < Len(b) => b[j + 1] \in B
  BY <1>2, <1>3, <1>9
<1>12. CASE j = Len(b) \/ (i < Len(a) /\ ~(b[j + 1].stamp < a[i + 1].stamp))
  <2>1. i < Len(a)
    BY <1>3, <1>9, <1>12
  <2>2. j < Len(b) => <<a[i + 1], b[j + 1]>> \in InTime
    <3> SUFFICES ASSUME j < Len(b) PROVE <<a[i + 1], b[j + 1]>> \in InTime
      OBVIOUS
    <3>1. ~(b[j + 1].stamp < a[i + 1].stamp)
      BY <1>3, <1>12
    <3>2. a[i + 1] \in rl /\ b[j + 1] \in hs
      BY <1>1, <1>10, <1>11, <2>1
    <3>3. QED
      BY <3>1, <3>2, NextOfTwo
  <2>3. PICK new : new = Append(out, a[i + 1])
    OBVIOUS
  <2>4. Upto(new, a, i + 1, b, j)
    BY <1>1, <1>5, <1>8, <1>9, <2>1, <2>2, <2>3, OneTaken
  <2>5. a[i + 1] \in A \cup B
    BY <1>10, <2>1
  <2>6. new \in Seq(A \cup B) /\ Len(new) = k + 1
    BY <1>5, <1>6, <2>3, <2>5
  <2>7. MergeTurn(a, b, m) = [i |-> i + 1, out |-> new]
    BY <1>4, <1>6, <1>7, <1>12, <2>3 DEF MergeTurn
  <2>8. i + 1 \in Nat /\ i + 1 <= Len(a) /\ (k + 1) - (i + 1) = j
    BY <1>3, <1>5, <1>6, <1>7, <2>1
  <2>9. PICK n : n = [i |-> i + 1, out |-> new]
    OBVIOUS
  <2>10. n.i = i + 1 /\ n.out = new /\ n \in [i : Nat, out : Seq(A \cup B)]
    BY <2>6, <2>8, <2>9
  <2>11. n \in Merging(a, A, b, B)
    BY <1>8, <2>4, <2>6, <2>8, <2>10 DEF Merging
  <2>12. QED
    BY <1>4, <1>6, <2>6, <2>7, <2>9, <2>10, <2>11
<1>13. CASE ~(j = Len(b) \/ (i < Len(a) /\ ~(b[j + 1].stamp < a[i + 1].stamp)))
  <2>1. j < Len(b)
    BY <1>3, <1>9, <1>13
  <2>2. i < Len(a) => <<b[j + 1], a[i + 1]>> \in InTime
    <3> SUFFICES ASSUME i < Len(a) PROVE <<b[j + 1], a[i + 1]>> \in InTime
      OBVIOUS
    <3>1. b[j + 1].stamp < a[i + 1].stamp
      BY <1>13
    <3>2. a[i + 1] \in rl /\ b[j + 1] \in hs
      BY <1>1, <1>10, <1>11, <2>1
    <3>3. QED
      BY <3>1, <3>2, NextOfTwo
  <2>3. PICK new : new = Append(out, b[j + 1])
    OBVIOUS
  <2>4. Upto(out, b, j, a, i)
    BY <1>8, UptoEither
  <2>5. Upto(new, b, j + 1, a, i)
    BY <1>1, <1>5, <1>9, <2>1, <2>2, <2>3, <2>4, OneTaken
  <2>6. Upto(new, a, i, b, j + 1)
    BY <2>5, UptoEither
  <2>7. b[j + 1] \in A \cup B
    BY <1>11, <2>1
  <2>8. new \in Seq(A \cup B) /\ Len(new) = k + 1
    BY <1>5, <1>6, <2>3, <2>7
  <2>9. MergeTurn(a, b, m) = [i |-> i, out |-> new]
    BY <1>4, <1>6, <1>7, <1>13, <2>3 DEF MergeTurn
  <2>10. (k + 1) - i = j + 1 /\ j + 1 \in 0..Len(b)
    BY <1>3, <1>5, <1>6, <1>7, <1>9, <2>1
  <2>11. PICK n : n = [i |-> i, out |-> new]
    OBVIOUS
  <2>12. n.i = i /\ n.out = new /\ n \in [i : Nat, out : Seq(A \cup B)]
    BY <1>5, <2>8, <2>11
  <2>13. n \in Merging(a, A, b, B)
    BY <1>5, <2>6, <2>8, <2>10, <2>12 DEF Merging
  <2>14. QED
    BY <1>4, <1>6, <2>8, <2>9, <2>11, <2>12, <2>13
<1>14. QED
  BY <1>12, <1>13

LEMMA MergeLists ==
    ASSUME RowsInv, NEW a, NEW A, NEW b, NEW B, Halves(a, A, b, B)
    PROVE  Lists(Merge(a, b), A \cup B, InTime)
<1>1. Lists(a, A, InTime) /\ Lists(b, B, InTime)
  BY DEF Halves
<1>2. a \in Seq(A) /\ b \in Seq(B)
  BY <1>1 DEF Lists
<1>3. Len(a) \in Nat /\ Len(b) \in Nat
  BY <1>2
<1>4. PICK n : n = Len(a) + Len(b) /\ n \in Nat
  BY <1>3
<1>5. PICK X : X = Merging(a, A, b, B)
  OBVIOUS
<1>6. PICK z : z = [i |-> 0, out |-> <<>>]
  OBVIOUS
<1>7. z \in X /\ Len(z.out) = 0
  <2>1. z.i = 0 /\ z.out = <<>> /\ z \in [i : Nat, out : Seq(A \cup B)]
    BY <1>6
  <2>2. Taken(a, 0, b, 0) = {}
    BY DEF Taken
  <2>3. Lists(<<>>, {}, InTime)
    BY DEF Lists
  <2>4. Upto(<<>>, a, 0, b, 0)
    BY <2>2, <2>3 DEF Upto
  <2>5. Len(<<>>) = 0 /\ 0 - 0 = 0
    OBVIOUS
  <2>6. QED
    BY <1>3, <1>5, <2>1, <2>4, <2>5 DEF Merging
<1>8. PICK step : step = [m \in X |-> IF Len(m.out) = n THEN m ELSE MergeTurn(a, b, m)]
  OBVIOUS
<1>9. ASSUME NEW m \in X, Len(m.out) # n
      PROVE  MergeTurn(a, b, m) \in X /\ Len(MergeTurn(a, b, m).out) = Len(m.out) + 1
  BY <1>4, <1>5, <1>9, TurnMerges
<1>10. step \in [X -> X]
  BY <1>8, <1>9
<1>11. PICK v \in [0..n -> X] : Iterates(v, n, z, step)
  BY <1>4, <1>7, <1>10, IterationExists
<1>12. \A k \in 1..n : k \in 0..n /\ k # 0 /\ k - 1 \in 0..n /\ k - 1 # n
  BY <1>4
<1>13. v[0] = z /\ \A k \in 1..n : v[k] = step[v[k - 1]]
  <2>1. 0 \in 0..n
    BY <1>4
  <2>2. QED
    BY <1>11, <1>12, <2>1 DEF Iterates
<1>14. \A k \in 0..n : Len(v[k].out) = k
  <2> DEFINE P == {k \in Nat : k <= n => Len(v[k].out) = k}
  <2>1. 0 \in P
    BY <1>7, <1>13
  <2>2. ASSUME NEW k \in Nat, k \in P PROVE k + 1 \in P
    <3> SUFFICES ASSUME k + 1 <= n PROVE Len(v[k + 1].out) = k + 1
      OBVIOUS
    <3>1. k + 1 \in 1..n /\ (k + 1) - 1 = k /\ k <= n /\ k # n /\ k \in 0..n
      BY <1>4
    <3>2. Len(v[k].out) = k /\ v[k] \in X
      BY <1>11, <2>2, <3>1
    <3>3. v[k + 1] = MergeTurn(a, b, v[k])
      BY <1>8, <1>13, <3>1, <3>2
    <3>4. QED
      BY <1>9, <3>1, <3>2, <3>3
  <2> HIDE DEF P
  <2>3. \A k \in Nat : k \in P
    BY <2>1, <2>2, NumbersInduction
  <2>4. QED
    BY <1>4, <2>3 DEF P
<1>15. ASSUME NEW k \in 1..n PROVE v[k] = MergeTurn(a, b, v[k - 1])
  <2>1. k - 1 \in 0..n /\ k - 1 # n
    BY <1>12
  <2>2. v[k - 1] \in X /\ Len(v[k - 1].out) = k - 1
    BY <1>11, <1>14, <2>1
  <2>3. QED
    BY <1>8, <1>13, <2>1, <2>2
<1> DEFINE OK(w) == w = [k \in 0..n |-> IF k = 0 THEN z ELSE MergeTurn(a, b, w[k - 1])]
<1>16. OK(v)
  <2>1. PICK u : u = [k \in 0..n |-> IF k = 0 THEN z ELSE MergeTurn(a, b, v[k - 1])]
    OBVIOUS
  <2>2. ASSUME NEW k \in 0..n PROVE u[k] = v[k]
    <3>1. CASE k = 0
      BY <1>13, <2>1, <3>1
    <3>2. CASE k # 0
      <4>1. k \in 1..n
        BY <1>4, <3>2
      <4>2. QED
        BY <1>15, <2>1, <3>2, <4>1
    <3>3. QED
      BY <3>1, <3>2
  <2>3. u = v
    BY <1>11, <2>1, <2>2
  <2> DEFINE From(x, y) == x = [k \in 0..n |-> IF k = 0 THEN z ELSE MergeTurn(a, b, y[k - 1])]
  <2>4. From(u, v)
    BY <2>1
  <2> HIDE DEF From
  <2>5. From(v, v)
    BY <2>3, <2>4
  <2>6. QED
    BY <2>5 DEF From
<1>17. Merge(a, b) = (CHOOSE w : OK(w))[n].out
  BY <1>4, <1>6 DEF Merge, MergeTurn
<1>18. ASSUME NEW w, OK(w) PROVE w[n] = v[n]
  <2> DEFINE P == {k \in Nat : k <= n => w[k] = v[k]}
  <2>1. 0 \in P
    BY <1>4, <1>13, <1>18
  <2>2. ASSUME NEW k \in Nat, k \in P PROVE k + 1 \in P
    <3> SUFFICES ASSUME k + 1 <= n PROVE w[k + 1] = v[k + 1]
      OBVIOUS
    <3>1. k + 1 \in 1..n /\ k + 1 \in 0..n /\ (k + 1) - 1 = k /\ k <= n /\ k + 1 # 0
      BY <1>4
    <3>2. w[k] = v[k]
      BY <2>2, <3>1
    <3>3. w[k + 1] = MergeTurn(a, b, w[k])
      BY <1>18, <3>1
    <3>4. QED
      BY <1>15, <3>1, <3>2, <3>3
  <2> HIDE DEF P
  <2>3. \A k \in Nat : k \in P
    BY <2>1, <2>2, NumbersInduction
  <2>4. QED
    BY <1>4, <2>3 DEF P
<1> HIDE DEF OK
<1>19. PICK w : w = (CHOOSE x : OK(x))
  OBVIOUS
<1>20. OK(w)
  BY <1>16, <1>19
<1>21. Merge(a, b) = v[n].out
  BY <1>17, <1>18, <1>19, <1>20
<1>22. PICK m : m = v[n]
  OBVIOUS
<1>23. m \in X /\ Len(m.out) = n
  BY <1>4, <1>11, <1>14, <1>22
<1>24. /\ m.i \in Nat /\ m.i <= Len(a) /\ n - m.i \in 0..Len(b)
       /\ Upto(m.out, a, m.i, b, n - m.i)
  BY <1>5, <1>23 DEF Merging
<1>25. m.i = Len(a) /\ n - m.i = Len(b)
  BY <1>3, <1>4, <1>24
<1>26. Lists(m.out, Taken(a, Len(a), b, Len(b)), InTime)
  BY <1>24, <1>25 DEF Upto
<1>27. Taken(a, Len(a), b, Len(b)) = A \cup B
  <2>1. {a[x] : x \in 1..Len(a)} = A
    <3>1. /\ \A x \in 1..Len(a) : a[x] \in A
          /\ \A y \in A : \E x \in 1..Len(a) : a[x] = y
      BY <1>1, <1>2, <1>3 DEF Lists
    <3>2. QED
      BY <3>1
  <2>2. {b[x] : x \in 1..Len(b)} = B
    <3>1. /\ \A x \in 1..Len(b) : b[x] \in B
          /\ \A y \in B : \E x \in 1..Len(b) : b[x] = y
      BY <1>1, <1>2, <1>3 DEF Lists
    <3>2. QED
      BY <3>1
  <2>3. QED
    BY <2>1, <2>2 DEF Taken
<1>28. QED
  BY <1>21, <1>22, <1>26, <1>27

-----------------------------------------------------------------------------
(* The recap. *)

PerMember(ms) ==
    [u \in Members(ms) |-> Cardinality({i \in DOMAIN ms : ms[i].user = u})]

LEMMA BlocksCount ==
    ASSUME NEW X, NEW ms \in Seq(X)
    PROVE  SumFunction(PerMember(ms)) = Len(ms)
<1>1. PICK n : n = Len(ms) /\ n \in Nat /\ DOMAIN ms = 1..n
  OBVIOUS
<1>2. PICK S : S = 1..n
  OBVIOUS
<1>3. PICK c : c = [i \in S |-> ms[i].user]
  OBVIOUS
<1>4. PICK D : D = Members(ms)
  OBVIOUS
<1>5. D = {c[i] : i \in S}
  BY <1>1, <1>2, <1>3, <1>4 DEF Members
<1>6. IsFiniteSet(S) /\ Cardinality(S) = n
  <2>1. PICK a \in Int, b \in Int : a = 1 /\ b = n
    BY <1>1
  <2>2. IsFiniteSet(a..b) /\ Cardinality(a..b) = IF a > b THEN 0 ELSE b - a + 1
    BY FS_Interval
  <2>3. Cardinality(a..b) = n
    BY <1>1, <2>1, <2>2
  <2>4. QED
    BY <1>2, <2>1, <2>2, <2>3
<1>7. IsFiniteSet(D)
  <2>1. c \in Surjection(S, D)
    BY <1>3, <1>5 DEF Surjection
  <2>2. QED
    BY <1>6, <2>1, FS_Surjection
<1>8. PICK g : g = PerMember(ms)
  OBVIOUS
<1>9. DOMAIN g = D /\ \A d \in D : g[d] = Cardinality(Group(S, c, d))
  <2>1. ASSUME NEW d \in D PROVE {i \in DOMAIN ms : ms[i].user = d} = Group(S, c, d)
    BY <1>1, <1>2, <1>3 DEF Group
  <2>2. QED
    BY <1>4, <1>8, <2>1 DEF PerMember
<1>10. \A i \in S : c[i] \in D
  BY <1>5
<1>11. SumFunctionOnSet(g, D) = n
  BY <1>6, <1>7, <1>9, <1>10, CountGroups
<1>12. QED
  BY <1>1, <1>8, <1>9, <1>11 DEF SumFunction

LEMMA BlocksAre ==
    ASSUME NEW ms
    PROVE  /\ DOMAIN RocketLeagueBlock(ms) = Members(ms)
           /\ [u \in DOMAIN RocketLeagueBlock(ms) |-> RocketLeagueBlock(ms)[u].matches] = PerMember(ms)
           /\ DOMAIN HearthstoneBlock(ms) = Members(ms)
           /\ [u \in DOMAIN HearthstoneBlock(ms) |-> HearthstoneBlock(ms)[u].matches] = PerMember(ms)
<1>1. ASSUME NEW u
      PROVE  CountIf(ms, LAMBDA m : m.user = u) = Cardinality({i \in DOMAIN ms : ms[i].user = u})
  BY DEF CountIf
<1>2. /\ DOMAIN RocketLeagueBlock(ms) = Members(ms)
      /\ \A u \in Members(ms) : RocketLeagueBlock(ms)[u].matches = CountIf(ms, LAMBDA m : m.user = u)
  BY DEF RocketLeagueBlock
<1>3. /\ DOMAIN HearthstoneBlock(ms) = Members(ms)
      /\ \A u \in Members(ms) : HearthstoneBlock(ms)[u].matches = CountIf(ms, LAMBDA m : m.user = u)
  BY DEF HearthstoneBlock
<1>4. QED
  BY <1>1, <1>2, <1>3 DEF PerMember

(* The rows of a window. *)
Within(T, w, S) == {r \in T : r.user \in S /\ w[1] <= r.stamp /\ r.stamp < w[2]}

LEMMA WindowLists ==
    ASSUME RowsInv, NEW w, NEW S
    PROVE  /\ Halves(Between(rl, w, S), Within(rl, w, S), Between(hs, w, S), Within(hs, w, S))
           /\ Lists(Timeline(w, S), Within(rl \cup hs, w, S), InTime)
<1>1. Between(rl, w, S) = Ordered(Within(rl, w, S), Earlier)
  BY DEF Between, Within
<1>2. Between(hs, w, S) = Ordered(Within(hs, w, S), Earlier)
  BY DEF Between, Within
<1>3. Within(rl, w, S) \in SUBSET rl /\ Within(hs, w, S) \in SUBSET hs
  BY DEF Within
<1>4. Lists(Between(rl, w, S), Within(rl, w, S), InTime)
  BY <1>1, <1>3, QueryLists
<1>5. Lists(Between(hs, w, S), Within(hs, w, S), InTime)
  BY <1>2, <1>3, QueryLists
<1>6. Halves(Between(rl, w, S), Within(rl, w, S), Between(hs, w, S), Within(hs, w, S))
  BY <1>3, <1>4, <1>5 DEF Halves
<1>7. Lists(Timeline(w, S), Within(rl, w, S) \cup Within(hs, w, S), InTime)
  BY <1>6, MergeLists DEF Timeline
<1>8. Within(rl, w, S) \cup Within(hs, w, S) = Within(rl \cup hs, w, S)
  BY DEF Within
<1>9. QED
  BY <1>6, <1>7, <1>8

(* Adjacent windows. *)
LEMMA AdjacentJoin ==
    ASSUME RowsInv, NEW w \in Windows, NEW x \in Windows, Adjacent(w, x), NEW S
    PROVE  Timeline(<<w[1], x[2]>>, S) = Timeline(w, S) \o Timeline(x, S)
<1>1. PICK y : y = <<w[1], x[2]>>
  OBVIOUS
<1>2. /\ w[1] \in Int /\ w[2] \in Int /\ x[1] \in Int /\ x[2] \in Int
      /\ w[1] < w[2] /\ x[1] < x[2] /\ w[2] = x[1] /\ y[1] = w[1] /\ y[2] = x[2]
  <2>1. MaxTime + Skew \in Nat
    BY Times
  <2>2. QED
    BY <1>1, <2>1 DEF Windows, Adjacent
<1>3. PICK T : T = rl \cup hs
  OBVIOUS
<1>4. \A r \in T : r.stamp \in Int
  BY <1>3, RowIs
<1>5. PICK A, B : A = Within(T, w, S) /\ B = Within(T, x, S)
  OBVIOUS
<1>6. \A a \in A, b \in B : <<a, b>> \in InTime
  <2> SUFFICES ASSUME NEW a \in A, NEW b \in B PROVE <<a, b>> \in InTime
    OBVIOUS
  <2>1. a \in T /\ b \in T /\ a.stamp < w[2] /\ x[1] <= b.stamp
    BY <1>5 DEF Within
  <2>2. a.stamp < b.stamp
    BY <1>2, <1>4, <2>1
  <2>3. QED
    BY <1>3, <2>1, <2>2 DEF InTime, Sooner
<1>7. Within(T, y, S) = A \cup B
  <2>1. \A r \in T : w[1] <= r.stamp /\ r.stamp < x[2]
                       <=> \/ w[1] <= r.stamp /\ r.stamp < w[2]
                           \/ x[1] <= r.stamp /\ r.stamp < x[2]
    BY <1>2, <1>4
  <2>2. QED
    BY <1>2, <1>5, <2>1 DEF Within
<1>8. PICK s, t, u : s = Timeline(w, S) /\ t = Timeline(x, S) /\ u = Timeline(y, S)
  OBVIOUS
<1>9. Lists(s, A, InTime) /\ Lists(t, B, InTime) /\ Lists(u, A \cup B, InTime)
  BY <1>3, <1>5, <1>7, <1>8, WindowLists
<1>10. Lists(s \o t, A \cup B, InTime)
  BY <1>6, <1>9, ListsJoin
<1>11. Linear(A \cup B, InTime)
  <2>1. A \cup B \in SUBSET (rl \cup hs)
    BY <1>3, <1>5 DEF Within
  <2>2. QED
    BY <2>1, InTimeIsLinear
<1>12. u = s \o t
  BY <1>9, <1>10, <1>11, ListIsUnique
<1>13. QED
  BY <1>1, <1>8, <1>12

LEMMA RecapDoesAgree == RowsInv => RecapAgrees
<1> SUFFICES ASSUME RowsInv, NEW S \in Audiences, NEW w \in Windows
             PROVE  LET r == Between(rl, w, S)
                        h == Between(hs, w, S)
                        t == Merge(r, h)
                        a == RocketLeagueBlock(r)
                        b == HearthstoneBlock(h)
                    IN  /\ Sorted(t)
                        /\ {t[i] : i \in DOMAIN t} = Due(w, S)
                        /\ Len(t) = Cardinality(Due(w, S))
                        /\ DOMAIN a \cup DOMAIN b \subseteq S
                        /\ SumFunction([u \in DOMAIN a |-> a[u].matches])
                             + SumFunction([u \in DOMAIN b |-> b[u].matches]) = Len(t)
                        /\ \A i \in DOMAIN t : t[i].user \in DOMAIN a \cup DOMAIN b
                        /\ \A x \in Windows :
                              Adjacent(w, x) => Timeline(<<w[1], x[2]>>, S) = t \o Timeline(x, S)
  BY DEF RecapAgrees
<1>1. PICK r, h : r = Between(rl, w, S) /\ h = Between(hs, w, S)
  OBVIOUS
<1>2. PICK t : t = Merge(r, h)
  OBVIOUS
<1>3. t = Timeline(w, S)
  BY <1>1, <1>2 DEF Timeline
<1>4. PICK A, B : A = Within(rl, w, S) /\ B = Within(hs, w, S)
  OBVIOUS
<1>5. PICK T : T = Within(rl \cup hs, w, S)
  OBVIOUS
<1>6. /\ A \in SUBSET rl /\ Lists(r, A, InTime)
      /\ B \in SUBSET hs /\ Lists(h, B, InTime)
      /\ Lists(t, T, InTime)
  BY <1>1, <1>3, <1>4, <1>5, WindowLists DEF Halves
<1>7. T = A \cup B /\ A \cap B = {}
  <2>1. rl \cap hs = {}
    BY RowIs
  <2>2. QED
    BY <1>4, <1>5, <1>6, <2>1 DEF Within
<1>8. T \in SUBSET (rl \cup hs) /\ A \in SUBSET (rl \cup hs) /\ B \in SUBSET (rl \cup hs)
  BY <1>6, <1>7
<1>9. Linear(T, InTime) /\ Linear(A, InTime) /\ Linear(B, InTime)
  BY <1>8, InTimeIsLinear
<1>10. t \in Seq(T) /\ r \in Seq(A) /\ h \in Seq(B)
  BY <1>6 DEF Lists
<1>11. Sorted(t)
  <2>1. DOMAIN t = 1..Len(t)
    BY <1>10
  <2>2. ASSUME NEW i \in 1..Len(t), NEW j \in 1..Len(t), i < j PROVE t[i].stamp <= t[j].stamp
    <3>1. <<t[i], t[j]>> \in InTime
      BY <1>6, <2>2 DEF Lists
    <3>2. t[i].stamp \in Int /\ t[j].stamp \in Int
      BY <3>1, RowIs DEF InTime
    <3>3. t[i].stamp < t[j].stamp \/ t[i].stamp = t[j].stamp
      BY <3>1 DEF InTime, Sooner
    <3>4. QED
      BY <3>2, <3>3
  <2>3. QED
    BY <2>1, <2>2 DEF Sorted
<1>12. /\ SumFunction(PerMember(r)) = Len(r) /\ SumFunction(PerMember(h)) = Len(h)
  BY <1>10, BlocksCount
<1>13. Len(r) + Len(h) = Len(t)
  <2>1. /\ IsFiniteSet(A) /\ Len(r) = Cardinality(A)
        /\ IsFiniteSet(B) /\ Len(h) = Cardinality(B)
        /\ Len(t) = Cardinality(T)
    BY <1>6, <1>9, ListHasRanks
  <2>2. Cardinality(A \cup B) = Cardinality(A) + Cardinality(B) - Cardinality(A \cap B)
    BY <2>1, FS_Union
  <2>3. Cardinality(A \cap B) = 0
    BY <1>7, FS_EmptySet
  <2>4. Cardinality(A) \in Nat /\ Cardinality(B) \in Nat
    BY <2>1, FS_CardinalityType
  <2>5. QED
    BY <1>7, <2>1, <2>2, <2>3, <2>4
<1>14. \A i \in DOMAIN t : t[i].user \in Members(r) \cup Members(h)
  <2> SUFFICES ASSUME NEW i \in DOMAIN t PROVE t[i].user \in Members(r) \cup Members(h)
    OBVIOUS
  <2>1. t[i] \in A \cup B
    BY <1>7, <1>10
  <2>2. DOMAIN r = 1..Len(r) /\ DOMAIN h = 1..Len(h)
    BY <1>10
  <2>3. t[i] \in A => \E k \in DOMAIN r : r[k] = t[i]
    BY <1>6, <2>2 DEF Lists
  <2>4. t[i] \in B => \E k \in DOMAIN h : h[k] = t[i]
    BY <1>6, <2>2 DEF Lists
  <2>5. QED
    BY <2>1, <2>3, <2>4 DEF Members
<1>15. PICK a, b : a = RocketLeagueBlock(r) /\ b = HearthstoneBlock(h)
  OBVIOUS
<1>16. /\ DOMAIN a = Members(r) /\ [u \in DOMAIN a |-> a[u].matches] = PerMember(r)
       /\ DOMAIN b = Members(h) /\ [u \in DOMAIN b |-> b[u].matches] = PerMember(h)
  BY <1>15, BlocksAre
<1>17. \A x \in Windows :
          Adjacent(w, x) => Timeline(<<w[1], x[2]>>, S) = t \o Timeline(x, S)
  BY <1>3, AdjacentJoin
<1>18. SumFunction([u \in DOMAIN a |-> a[u].matches])
          + SumFunction([u \in DOMAIN b |-> b[u].matches]) = Len(t)
  BY <1>12, <1>13, <1>16
<1>19. \A i \in DOMAIN t : t[i].user \in DOMAIN a \cup DOMAIN b
  BY <1>14, <1>16
<1>20. Due(w, S) = T
  <2>1. w[1] \in Int /\ w[2] \in Int
    <3>1. MaxTime + Skew \in Nat
      BY Times
    <3>2. QED
      BY <3>1 DEF Windows
  <2>2. \A x \in rl \cup hs :
           x.stamp \in w[1]..(w[2] - 1) <=> w[1] <= x.stamp /\ x.stamp < w[2]
    BY <2>1, RowIs
  <2>3. QED
    BY <1>5, <2>2 DEF Due, Within
<1>21. {t[i] : i \in DOMAIN t} = T
  <2>1. DOMAIN t = 1..Len(t)
    BY <1>10
  <2>2. \A x \in T : \E i \in DOMAIN t : t[i] = x
    BY <1>6, <2>1 DEF Lists
  <2>3. \A i \in DOMAIN t : t[i] \in T
    BY <1>10
  <2>4. QED
    BY <2>2, <2>3
<1>22. Len(t) = Cardinality(T)
  BY <1>6, <1>9, ListHasRanks
<1>23. DOMAIN a \cup DOMAIN b \subseteq S
  <2>1. \A i \in DOMAIN r : r[i] \in A
    BY <1>10
  <2>2. \A i \in DOMAIN h : h[i] \in B
    BY <1>10
  <2>3. \A x \in A \cup B : x.user \in S
    BY <1>4 DEF Within
  <2>4. QED
    BY <1>16, <2>1, <2>2, <2>3 DEF Members
<1>24. QED
  BY <1>1, <1>2, <1>11, <1>15, <1>17, <1>18, <1>19, <1>20, <1>21, <1>22, <1>23

-----------------------------------------------------------------------------
(* The Hearthstone records and the lists of last matches. *)

LEMMA LobbiesAre ==
    ASSUME RowsInv, NEW S
    PROVE  /\ Lobbies(S) \in SUBSET hs /\ IsFiniteSet(Lobbies(S))
           /\ WithHero(S) \in SUBSET hs /\ IsFiniteSet(WithHero(S))
<1>1. Lobbies(S) \in SUBSET hs /\ WithHero(S) \in SUBSET hs
  BY DEF Lobbies, WithHero
<1>2. QED
  BY <1>1, FS_Subset DEF RowsInv

(* A record of some matches by one of their columns.                       *)
ByColumn(S, c) == [d \in {c[r] : r \in S} |-> Cardinality(Group(S, c, d))]

LEMMA RecordAddsUp ==
    ASSUME NEW S, IsFiniteSet(S), NEW c
    PROVE  SumFunction(ByColumn(S, c)) = Cardinality(S)
<1>1. PICK D : D = {c[r] : r \in S}
  OBVIOUS
<1>2. IsFiniteSet(D)
  <2>1. PICK e : e = [r \in S |-> c[r]]
    OBVIOUS
  <2>2. e \in Surjection(S, D)
    BY <1>1, <2>1 DEF Surjection
  <2>3. QED
    BY <2>2, FS_Surjection
<1>3. PICK g : g = ByColumn(S, c)
  OBVIOUS
<1>4. DOMAIN g = D /\ \A d \in D : g[d] = Cardinality(Group(S, c, d))
  BY <1>1, <1>3 DEF ByColumn
<1>5. \A r \in S : c[r] \in D
  BY <1>1
<1>6. SumFunctionOnSet(g, D) = Cardinality(S)
  BY <1>2, <1>4, <1>5, CountGroups
<1>7. QED
  BY <1>3, <1>4, <1>6 DEF SumFunction

HeroCol == [r \in hs |-> HeroOf(r.data.card)]
PlaceCol == [r \in hs |-> r.data.place]

LEMMA RecordsAre ==
    ASSUME RowsInv, NEW u
    PROVE  /\ MemberHeroes(u) = ByColumn(WithHero({u}), HeroCol)
           /\ Placements(u) = ByColumn(Lobbies({u}), PlaceCol)
<1>1. MemberHeroes(u) = ByColumn(WithHero({u}), HeroCol)
  <2>1. PICK S : S = WithHero({u}) /\ S \in SUBSET hs
    BY LobbiesAre
  <2>2. {HeroOf(r.data.card) : r \in S} = {HeroCol[r] : r \in S}
    BY <2>1 DEF HeroCol
  <2>3. ASSUME NEW h PROVE {r \in S : HeroOf(r.data.card) = h} = Group(S, HeroCol, h)
    BY <2>1 DEF HeroCol, Group
  <2>4. MemberHeroes(u) = [h \in {HeroOf(r.data.card) : r \in S} |->
                              Cardinality({r \in S : HeroOf(r.data.card) = h})]
    BY <2>1 DEF MemberHeroes
  <2>5. QED
    BY <2>1, <2>2, <2>3, <2>4 DEF ByColumn
<1>2. Placements(u) = ByColumn(Lobbies({u}), PlaceCol)
  <2>1. PICK S : S = Lobbies({u}) /\ S \in SUBSET hs
    BY LobbiesAre
  <2>2. {r.data.place : r \in S} = {PlaceCol[r] : r \in S}
    BY <2>1 DEF PlaceCol
  <2>3. ASSUME NEW p PROVE {r \in S : r.data.place = p} = Group(S, PlaceCol, p)
    BY <2>1 DEF PlaceCol, Group
  <2>4. Placements(u) = [p \in {r.data.place : r \in S} |->
                              Cardinality({r \in S : r.data.place = p})]
    BY <2>1 DEF Placements
  <2>5. QED
    BY <2>1, <2>2, <2>3, <2>4 DEF ByColumn
<1>3. QED
  BY <1>1, <1>2

(* The guild's record with a hero is the sum of its members'. *)
LEMMA HeroesMeet ==
    ASSUME RowsInv, NEW S, NEW h \in DOMAIN GuildHeroes(S), NEW P,
           \A u : u \in P <=> u \in S /\ h \in DOMAIN MemberHeroes(u)
    PROVE  /\ GuildHeroes(S)[h].players = Cardinality(P)
           /\ GuildHeroes(S)[h].matches = SumFunction([u \in P |-> MemberHeroes(u)[h]])
<1>1. PICK R : R = {r \in WithHero(S) : HeroOf(r.data.card) = h}
  OBVIOUS
<1>2. GuildHeroes(S)[h] = [matches |-> Cardinality(R), players |-> Cardinality({r.user : r \in R})]
  BY <1>1 DEF GuildHeroes
<1>3. \A r : r \in R <=> /\ r \in hs /\ r.user \in S /\ r.data.place # None
                         /\ r.data.card # NoHero /\ HeroCol[r] = h
  BY <1>1 DEF Lobbies, WithHero, HeroCol
<1>4. PICK c : c = [r \in R |-> r.user]
  OBVIOUS
<1>5. ASSUME NEW u \in S
      PROVE  Group(WithHero({u}), HeroCol, h) = Group(R, c, u)
  BY <1>3, <1>4, <1>5 DEF Group, Lobbies, WithHero
<1>6. ASSUME NEW u \in S
      PROVE  /\ h \in DOMAIN MemberHeroes(u) <=> \E r \in R : r.user = u
             /\ h \in DOMAIN MemberHeroes(u) =>
                   MemberHeroes(u)[h] = Cardinality(Group(R, c, u))
  <2>1. MemberHeroes(u) = ByColumn(WithHero({u}), HeroCol)
    BY RecordsAre
  <2>2. PICK L : L = WithHero({u})
    OBVIOUS
  <2>3. h \in DOMAIN MemberHeroes(u) <=> \E r \in L : HeroCol[r] = h
    BY <2>1, <2>2 DEF ByColumn
  <2>4. \A r : r \in L /\ HeroCol[r] = h <=> r \in R /\ r.user = u
    BY <1>3, <1>6, <2>2 DEF Lobbies, WithHero
  <2>5. h \in DOMAIN MemberHeroes(u) =>
           MemberHeroes(u)[h] = Cardinality(Group(WithHero({u}), HeroCol, h))
    BY <2>1 DEF ByColumn
  <2>6. QED
    BY <1>5, <1>6, <2>3, <2>4, <2>5
<1>7. P = {r.user : r \in R}
  BY <1>3, <1>6
<1>8. R \in SUBSET hs /\ IsFiniteSet(R)
  <2>1. R \in SUBSET hs
    BY <1>3
  <2>2. QED
    BY <2>1, FS_Subset DEF RowsInv
<1>9. IsFiniteSet(P)
  <2>1. c \in Surjection(R, P)
    BY <1>4, <1>7 DEF Surjection
  <2>2. QED
    BY <1>8, <2>1, FS_Surjection
<1>10. PICK g : g = [u \in P |-> MemberHeroes(u)[h]]
  OBVIOUS
<1>11. \A u \in P : g[u] = Cardinality(Group(R, c, u))
  BY <1>6, <1>10
<1>12. \A r \in R : c[r] \in P
  BY <1>4, <1>7
<1>13. SumFunctionOnSet(g, P) = Cardinality(R)
  BY <1>8, <1>9, <1>11, <1>12, CountGroups
<1>14. DOMAIN g = P
  BY <1>10
<1>15. SumFunction(g) = Cardinality(R)
  BY <1>13, <1>14 DEF SumFunction
<1>16. QED
  BY <1>2, <1>7, <1>10, <1>15

(* The last matches of one member: no two at one instant. *)
Latest == {k \in (rl \cup hs) \X (rl \cup hs) : Newer(k[1], k[2])}

LEMMA NewestLists ==
    ASSUME RowsInv, NEW T \in {rl, hs}, NEW R \in SUBSET T,
           \A p, q \in R : p.user = q.user
    PROVE  /\ IsFiniteSet(R) /\ Linear(R, Latest)
           /\ Lists(Ordered(R, Newer), R, Latest)
<1>1. R \in SUBSET (rl \cup hs) /\ IsFiniteSet(T)
  BY DEF RowsInv
<1>2. IsFiniteSet(R)
  BY <1>1, FS_Subset
<1>3. \A p, q \in R : <<p, q>> \in Latest <=> p.stamp > q.stamp
  BY <1>1 DEF Latest, Newer
<1>4. \A p \in R : p.stamp \in Int
  BY <1>1, RowIs
<1>5. \A p, q \in R : p.stamp = q.stamp => p = q
  BY DEF RowsInv, OneAtOnce
<1>6. Linear(R, Latest)
  BY <1>3, <1>4, <1>5 DEF Linear
<1>7. PICK n : n = Cardinality(R) /\ n \in Nat
  BY <1>2, FS_CardinalityType
<1>8. PICK s : s = Ordered(R, Newer)
  OBVIOUS
<1>9. s = [i \in 1..n |-> CHOOSE r \in R : Cardinality({q \in R : Newer(q, r)}) = i - 1]
  BY <1>7, <1>8 DEF Ordered
<1>10. \A r \in R : {q \in R : Newer(q, r)} = Below(R, Latest, r)
  BY <1>1 DEF Below, Latest
<1>11. ASSUME NEW i \in 1..n PROVE s[i] \in R /\ Rank(R, Latest, s[i]) = i - 1
  <2>1. PICK k : k = i - 1 /\ k \in 0..(n - 1)
    BY <1>7
  <2>2. PICK r \in R : Rank(R, Latest, r) = k
    BY <1>2, <1>6, <1>7, <2>1, RanksAreTaken
  <2>3. Cardinality({q \in R : Newer(q, r)}) = k
    BY <1>10, <2>2 DEF Rank
  <2>4. s[i] = CHOOSE x \in R : Cardinality({q \in R : Newer(q, x)}) = k
    BY <1>9, <2>1
  <2>5. s[i] \in R /\ Cardinality({q \in R : Newer(q, s[i])}) = k
    BY <2>3, <2>4
  <2>6. QED
    BY <1>10, <2>1, <2>5 DEF Rank
<1>12. s \in [1..n -> R]
  BY <1>9, <1>11
<1>13. QED
  BY <1>2, <1>6, <1>7, <1>8, <1>11, <1>12, ListedByRank

LEMMA RecentIs ==
    ASSUME RowsInv, NEW T \in {rl, hs}, NEW u
    PROVE  /\ Recent(T, u) = <<>> <=> Cardinality({r \in T : r.user = u}) = 0 \/ RecentMatches = 0
           /\ RecentMatches > 0 =>
                \A r \in T : r.user = u => Recent(T, u)[1].stamp >= r.stamp
<1>1. PICK R : R = {r \in T : r.user = u}
  OBVIOUS
<1>2. R \in SUBSET T /\ \A p, q \in R : p.user = q.user
  BY <1>1
<1>3. PICK s : s = Ordered(R, Newer)
  OBVIOUS
<1>4. IsFiniteSet(R) /\ Linear(R, Latest) /\ Lists(s, R, Latest)
  BY <1>2, <1>3, NewestLists
<1>5. s \in Seq(R)
  BY <1>4 DEF Lists
<1>6. PICK n : n = Len(s) /\ n \in Nat
  BY <1>5
<1>7. n = Cardinality(R)
  BY <1>4, <1>6, ListHasRanks
<1>8. PICK k : k = IF n < RecentMatches THEN n ELSE RecentMatches
  OBVIOUS
<1>9. RecentMatches \in Nat
  BY RecapWindowAssumption
<1>10. k \in 0..n /\ (k = 0 <=> n = 0 \/ RecentMatches = 0)
  BY <1>6, <1>8, <1>9
<1>11. PICK t : t = SubSeq(s, 1, k)
  OBVIOUS
<1>12. Recent(T, u) = t
  BY <1>1, <1>3, <1>6, <1>8, <1>11 DEF Recent
<1>13. t \in Seq(R) /\ Len(t) = k /\ (k > 0 => t[1] = s[1])
  BY <1>5, <1>6, <1>10, <1>11
<1>14. t = <<>> <=> k = 0
  BY <1>13
<1>15. ASSUME RecentMatches > 0, NEW r \in T, r.user = u
       PROVE  t[1].stamp >= r.stamp
  <2>1. r \in R
    BY <1>1, <1>15
  <2>2. PICK i \in 1..n : s[i] = r
    BY <1>4, <1>6, <2>1 DEF Lists
  <2>3. 1 \in 1..n /\ k > 0
    BY <1>6, <1>9, <1>10, <1>15, <2>2
  <2>4. s[1] \in R
    BY <1>5, <1>6, <2>3
  <2>5. r \in rl \cup hs /\ s[1] \in rl \cup hs
    BY <1>2, <2>1, <2>4
  <2>6. r.stamp \in Int /\ s[1].stamp \in Int
    BY <2>5, RowIs
  <2>7. CASE i = 1
    BY <1>13, <2>2, <2>3, <2>6, <2>7
  <2>8. CASE 1 < i
    <3>1. <<s[1], s[i]>> \in Latest
      BY <1>4, <1>6, <2>3, <2>8 DEF Lists
    <3>2. s[1].stamp > r.stamp
      BY <2>2, <3>1 DEF Latest, Newer
    <3>3. QED
      BY <1>13, <2>3, <2>6, <3>2
  <2>9. QED
    BY <2>2, <2>7, <2>8
<1>16. QED
  BY <1>1, <1>7, <1>10, <1>12, <1>14, <1>15

LEMMA PagesDoAgree == RowsInv => PagesAgree
<1> SUFFICES ASSUME RowsInv PROVE PagesAgree
  OBVIOUS
<1>1. ASSUME NEW banned \in SUBSET Users
      PROVE  LET S == Users \ banned
                 G == GuildPage(S)
             IN  /\ \A h \in DOMAIN G.heroes :
                       LET P == {u \in S : h \in DOMAIN MemberHeroes(u)}
                       IN  /\ G.heroes[h].players = Cardinality(P)
                           /\ G.heroes[h].matches = SumFunction([u \in P |-> MemberHeroes(u)[h]])
                 /\ \A u \in DOMAIN G.players : G.players[u] = MemberTotals(u)
  <2>1. PICK S : S = Users \ banned
    OBVIOUS
  <2>2. PICK G : G = GuildPage(S)
    OBVIOUS
  <2>3. G.heroes = GuildHeroes(S) /\ G.players = GuildTotals(S)
    BY <2>2 DEF GuildPage
  <2>4. ASSUME NEW h \in DOMAIN G.heroes
        PROVE  LET P == {u \in S : h \in DOMAIN MemberHeroes(u)}
               IN  /\ G.heroes[h].players = Cardinality(P)
                   /\ G.heroes[h].matches = SumFunction([u \in P |-> MemberHeroes(u)[h]])
    <3>1. PICK P : P = {u \in S : h \in DOMAIN MemberHeroes(u)}
      OBVIOUS
    <3>2. \A u : u \in P <=> u \in S /\ h \in DOMAIN MemberHeroes(u)
      BY <3>1
    <3>3. h \in DOMAIN GuildHeroes(S)
      BY <2>3
    <3>4. /\ GuildHeroes(S)[h].players = Cardinality(P)
          /\ GuildHeroes(S)[h].matches = SumFunction([u \in P |-> MemberHeroes(u)[h]])
      BY <3>2, <3>3, HeroesMeet
    <3>5. QED
      BY <2>3, <3>1, <3>4
  <2>5. ASSUME NEW u \in DOMAIN G.players PROVE G.players[u] = MemberTotals(u)
    <3>1. {r \in {q \in hs : q.user = u} : r.data.place # None} = Lobbies({u})
      BY DEF Lobbies
    <3>2. GuildTotals(S)[u] = [matches |-> Cardinality({q \in hs : q.user = u}),
                               ranked |-> Cardinality({r \in {q \in hs : q.user = u} : r.data.place # None})]
      BY <2>3 DEF GuildTotals
    <3>3. QED
      BY <2>3, <3>1, <3>2 DEF MemberTotals
  <2>6. QED
    BY <2>1, <2>2, <2>4, <2>5
<1>2. ASSUME NEW u \in Users
      PROVE  LET page == MemberPage(u)
             IN  /\ SumFunction(page.places) = page.totals.ranked
                 /\ SumFunction(page.heroes)
                       = page.totals.ranked
                           - Cardinality({r \in Lobbies({u}) : r.data.card = NoHero})
                 /\ page.recent = <<>> <=> page.totals.matches = 0 \/ RecentMatches = 0
  <2>1. PICK page : page = MemberPage(u)
    OBVIOUS
  <2>2. /\ page.totals = MemberTotals(u) /\ page.places = Placements(u)
        /\ page.heroes = MemberHeroes(u) /\ page.recent = Recent(hs, u)
    BY <2>1 DEF MemberPage
  <2>3. /\ page.totals.ranked = Cardinality(Lobbies({u}))
        /\ page.totals.matches = Cardinality({r \in hs : r.user = u})
    BY <2>2 DEF MemberTotals
  <2>4. SumFunction(Placements(u)) = Cardinality(Lobbies({u}))
    BY RecordsAre, RecordAddsUp, LobbiesAre
  <2>5. SumFunction(MemberHeroes(u))
           = Cardinality(Lobbies({u})) - Cardinality({r \in Lobbies({u}) : r.data.card = NoHero})
    <3>1. PICK L, H, N : /\ L = Lobbies({u}) /\ H = WithHero({u})
                         /\ N = {r \in L : r.data.card = NoHero}
      OBVIOUS
    <3>2. IsFiniteSet(L) /\ IsFiniteSet(H) /\ N \in SUBSET L
      BY <3>1, LobbiesAre
    <3>3. L = H \cup N /\ H \cap N = {}
      BY <3>1 DEF WithHero
    <3>4. IsFiniteSet(N)
      BY <3>2, FS_Subset
    <3>5. Cardinality(L) = Cardinality(H) + Cardinality(N)
      <4>1. Cardinality(L) = Cardinality(H) + Cardinality(N) - Cardinality(H \cap N)
        BY <3>2, <3>3, <3>4, FS_Union
      <4>2. Cardinality(H \cap N) = 0
        BY <3>3, FS_EmptySet
      <4>3. Cardinality(H) \in Nat /\ Cardinality(N) \in Nat
        BY <3>2, <3>4, FS_CardinalityType
      <4>4. QED
        BY <4>1, <4>2, <4>3
    <3>6. SumFunction(MemberHeroes(u)) = Cardinality(H)
      BY <3>1, <3>2, RecordsAre, RecordAddsUp
    <3>7. Cardinality(H) \in Nat /\ Cardinality(N) \in Nat
      BY <3>2, <3>4, FS_CardinalityType
    <3>8. QED
      BY <3>1, <3>5, <3>6, <3>7
  <2>6. Recent(hs, u) = <<>> <=> Cardinality({r \in hs : r.user = u}) = 0 \/ RecentMatches = 0
    BY RecentIs
  <2>7. QED
    BY <2>1, <2>2, <2>3, <2>4, <2>5, <2>6
<1>3. \A T \in {rl, hs} : \A r \in T :
         RecentMatches > 0 => Recent(T, r.user)[1].stamp >= r.stamp
  BY RecentIs
<1>4. \A r \in Lobbies(Users) : r.data.mode = "battlegrounds"
  BY RankedIsBattlegrounds DEF Lobbies
<1>5. QED
  BY <1>1, <1>2, <1>3, <1>4 DEF PagesAgree

-----------------------------------------------------------------------------
(* A recap's timeline is in order and holds exactly the matches due, its   *)
(* blocks count them, nobody is in it who may not be shown, and adjacent   *)
(* recaps neither drop nor double a match, for any members, audiences,     *)
(* windows and reports in any order: the merge (recap.go) gives the one    *)
(* list of the two tables' rows in order.                                  *)
THEOREM RecapIsConsistent == Spec => []RecapAgrees
BY RowsHold, RecapDoesAgree, PTL

(* The guild's Hearthstone page, the members' pages and their lists of     *)
(* last matches agree (PagesAgree), for any members, placements and heroes *)
(* and whoever is banned.                                                  *)
THEOREM RecordsAgree == Spec => []PagesAgree
BY RowsHold, PagesDoAgree, PTL
=============================================================================
