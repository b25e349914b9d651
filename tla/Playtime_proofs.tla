-------------------------- MODULE Playtime_proofs ---------------------------
(***************************************************************************)
(* Theorems about the session table and its writers, for any members,      *)
(* games, sources, window and clock: first the table of PlaySessions by    *)
(* itself, then what holds with the writers of Playtime.                   *)
(*                                                                         *)
(* The invariants checked by the runs are not inductive one by one:        *)
(* reopening keeps rows of one source apart only because no other row is   *)
(* open, and because no row ends after now.  IInv puts these facts         *)
(* together.  OneConsoleSession is not inductive either: between the       *)
(* poller's statements the client writes the same rows, so it must be      *)
(* known that nothing is open on the console but what the poller has yet   *)
(* to end (PInv).  Nor is NeverDoubled, which does not say of which ticks  *)
(* an imported total consists: those before its sync (CInv).               *)
(*                                                                         *)
(* The pages (PlayPages) need no invariant of their own: what they show    *)
(* follows from CInv in every state, by lemmas about sums and lists.       *)
(***************************************************************************)
EXTENDS PlayPages, Data_proofs, TLAPS

-----------------------------------------------------------------------------
(* The table.                                                              *)

IInv ==
    /\ TypeOK
    /\ OneOpenPerGame
    /\ FlapsAreMerged

(* The effect of reopening the row that ended last.  No open row exists    *)
(* for the game, so every other row of the series is closed; one that      *)
(* started after r ended would have ended after r, within the window, and  *)
(* would have been chosen instead.                                         *)
LEMMA ReopenKeepsIInv ==
    ASSUME IInv, NEW u \in Users, NEW g \in Games, NEW src \in Sources,
           OpenRows(u, g) = {},
           NEW r \in LastEnded(Mergeable(u, g, src)), Reopen(r),
           UNCHANGED now
    PROVE  IInv'
<1> DEFINE n == [r EXCEPT !.end = Null]
<1>1. /\ r \in rows /\ r \in Rows /\ ~IsOpen(r)
      /\ r.user = u /\ r.game = g /\ r.source = src
      /\ r.end \in Nat /\ r.end > now - Window
      /\ now \in Nat /\ Window \in Nat
  BY WindowAssumption DEF LastEnded, Mergeable, IInv, TypeOK, Rows, IsOpen, Null
<1>2. /\ n \in Rows /\ IsOpen(n) /\ n.start = r.start
      /\ n.user = u /\ n.game = g /\ n.source = src
  BY <1>1 DEF Rows, IsOpen, Null
<1>3. rows' = (rows \ {r}) \cup {n}
  BY DEF Reopen
<1>4. \A q \in rows : q.user = u /\ q.game = g => ~IsOpen(q)
  BY DEF OpenRows
<1>5. (\A q \in rows : InThePast(q))'
  BY <1>1, <1>2, <1>3 DEF IInv, TypeOK, InThePast, IsOpen
<1>6. TypeOK'
  BY <1>2, <1>3, <1>5 DEF IInv, TypeOK
<1>7. OneOpenPerGame'
  BY <1>2, <1>3, <1>4 DEF IInv, OneOpenPerGame
<1>8. ASSUME NEW q \in rows, q # r, SameSeries(q, r)
      PROVE  ~IsOpen(q) /\ q.end + Window <= n.start
  <2>1. ~IsOpen(q) /\ q.end \in Nat /\ q.start \in Nat /\ q.start <= q.end
    BY <1>1, <1>4, <1>8 DEF SameSeries, IInv, TypeOK, Rows, InThePast, IsOpen
  <2>2. ~(r.end + Window <= q.start)
    <3> SUFFICES ASSUME r.end + Window <= q.start PROVE FALSE
      OBVIOUS
    <3>1. q.end > r.end /\ q.end > now - Window
      BY <1>1, <2>1, WindowAssumption
    <3>2. q \in Mergeable(u, g, src)
      BY <1>1, <1>8, <2>1, <3>1 DEF Mergeable, SameSeries
    <3>3. QED
      BY <1>1, <2>1, <3>1, <3>2 DEF LastEnded
  <2>3. Separated(q, r)
    BY <1>1, <1>8 DEF IInv, FlapsAreMerged
  <2>4. QED
    BY <1>2, <2>1, <2>2, <2>3 DEF Separated
<1>9. FlapsAreMerged'
  <2> SUFFICES ASSUME NEW p \in rows', NEW q \in rows', SameSeries(p, q), p # q
               PROVE  Separated(p, q)
    BY DEF FlapsAreMerged, SameSeries, Separated, IsOpen
  <2>1. CASE p \in rows /\ p # r /\ q \in rows /\ q # r
    BY <2>1 DEF IInv, FlapsAreMerged
  <2>2. CASE p = n /\ q \in rows /\ q # r
    BY <1>1, <1>2, <1>8, <2>2 DEF SameSeries, Separated
  <2>3. CASE q = n /\ p \in rows /\ p # r
    BY <1>1, <1>2, <1>8, <2>3 DEF SameSeries, Separated
  <2>4. QED
    BY <1>3, <2>1, <2>2, <2>3
<1>10. QED
  BY <1>6, <1>7, <1>9 DEF IInv

(* A new row starts now; every row of its series is closed and, being out  *)
(* of reach of a merge, ended at least a window ago.                       *)
LEMMA InsertKeepsIInv ==
    ASSUME IInv, NEW u \in Users, NEW g \in Games, NEW src \in Sources,
           OpenRows(u, g) = {}, Mergeable(u, g, src) = {},
           rows' = rows \cup {NewRow(u, g, src)},
           UNCHANGED now
    PROVE  IInv'
<1> DEFINE n == NewRow(u, g, src)
<1>1. /\ n \in Rows /\ IsOpen(n) /\ n.start = now
      /\ n.user = u /\ n.game = g /\ n.source = src
      /\ now \in Nat /\ Window \in Nat
  BY WindowAssumption DEF NewRow, Rows, IsOpen, Null, IInv, TypeOK
<1>2. \A q \in rows : q.user = u /\ q.game = g => ~IsOpen(q)
  BY DEF OpenRows
<1>3. (\A q \in rows : InThePast(q))'
  BY <1>1 DEF IInv, TypeOK, InThePast, IsOpen
<1>4. TypeOK'
  BY <1>1, <1>3 DEF IInv, TypeOK
<1>5. OneOpenPerGame'
  BY <1>1, <1>2 DEF IInv, OneOpenPerGame
<1>6. ASSUME NEW q \in rows, SameSeries(q, n)
      PROVE  ~IsOpen(q) /\ q.end + Window <= n.start
  <2>1. ~IsOpen(q) /\ q.end \in Nat
    BY <1>1, <1>2, <1>6 DEF SameSeries, IInv, TypeOK, Rows, IsOpen
  <2>2. q \notin Mergeable(u, g, src)
    OBVIOUS
  <2>3. ~(q.end > now - Window)
    BY <1>1, <1>6, <2>1, <2>2 DEF Mergeable, SameSeries
  <2>4. QED
    BY <1>1, <2>1, <2>3
<1>7. FlapsAreMerged'
  <2> SUFFICES ASSUME NEW p \in rows', NEW q \in rows', SameSeries(p, q), p # q
               PROVE  Separated(p, q)
    BY DEF FlapsAreMerged, SameSeries, Separated, IsOpen
  <2>1. CASE p \in rows /\ q \in rows
    BY <2>1 DEF IInv, FlapsAreMerged
  <2>2. CASE p = n /\ q \in rows
    BY <1>6, <2>2 DEF SameSeries, Separated
  <2>3. CASE q = n /\ p \in rows
    BY <1>6, <2>3 DEF SameSeries, Separated
  <2>4. QED
    BY <2>1, <2>2, <2>3
<1>8. QED
  BY <1>4, <1>5, <1>7 DEF IInv

(* Closing open rows now: an open row is only ever separated from the rows *)
(* before it, which its own end does not concern.                          *)
LEMMA CloseKeepsIInv ==
    ASSUME IInv, NEW R \in SUBSET rows, \A r \in R : IsOpen(r),
           Close(R), UNCHANGED now
    PROVE  IInv'
<1> DEFINE closed(r) == [r EXCEPT !.end = now]
<1>1. now \in Nat /\ Window \in Nat
  BY WindowAssumption DEF IInv, TypeOK
<1>2. ASSUME NEW r \in R
      PROVE  /\ closed(r) \in Rows /\ ~IsOpen(closed(r)) /\ closed(r).end = now
             /\ closed(r).start = r.start /\ closed(r).user = r.user
             /\ closed(r).game = r.game /\ closed(r).source = r.source
  BY <1>1 DEF IInv, TypeOK, Rows, IsOpen, Null
<1>3. rows' = (rows \ R) \cup {closed(r) : r \in R}
  BY DEF Close
<1>4. (\A q \in rows : InThePast(q))'
  <2>1. ASSUME NEW r \in R PROVE InThePast(closed(r))
    BY <1>1, <1>2, <2>1 DEF IInv, InThePast, TypeOK, Rows
  <2>2. QED
    BY <1>3, <2>1 DEF IInv, TypeOK, InThePast, IsOpen
<1>5. TypeOK'
  BY <1>2, <1>3, <1>4 DEF IInv, TypeOK
<1>6. OneOpenPerGame'
  BY <1>2, <1>3 DEF IInv, OneOpenPerGame
<1>7. FlapsAreMerged'
  <2> SUFFICES ASSUME NEW p \in rows', NEW q \in rows', SameSeries(p, q), p # q
               PROVE  Separated(p, q)
    BY DEF FlapsAreMerged, SameSeries, Separated, IsOpen
  <2>1. CASE p \in rows \ R /\ q \in rows \ R
    BY <2>1 DEF IInv, FlapsAreMerged
  <2>2. ASSUME NEW r \in R, p = closed(r), q \in rows \ R PROVE Separated(p, q)
    <3>1. Separated(r, q)
      BY <1>2, <2>2 DEF IInv, FlapsAreMerged, SameSeries
    <3>2. QED
      BY <1>2, <2>2, <3>1 DEF Separated
  <2>3. ASSUME NEW r \in R, q = closed(r), p \in rows \ R PROVE Separated(p, q)
    <3>1. Separated(r, p)
      BY <1>2, <2>3 DEF IInv, FlapsAreMerged, SameSeries
    <3>2. QED
      BY <1>2, <2>3, <3>1 DEF Separated
  <2>4. ASSUME NEW r \in R, p = closed(r), NEW s \in R, q = closed(s)
        PROVE  Separated(p, q)
    <3>1. r = s
      BY <1>2, <2>4 DEF IInv, OneOpenPerGame, SameSeries
    <3>2. QED
      BY <2>4, <3>1
  <2>5. QED
    BY <1>3, <2>1, <2>2, <2>3, <2>4
<1>8. QED
  BY <1>5, <1>6, <1>7 DEF IInv

LEMMA Inductive == IInv /\ [Next]_vars => IInv'
<1> SUFFICES ASSUME IInv, [Next]_vars PROVE IInv'
  OBVIOUS
<1>1. ASSUME NEW u \in Users, NEW g \in Games, NEW src \in Sources,
             StartSession(u, g, src)
      PROVE  IInv'
  BY <1>1, ReopenKeepsIInv, InsertKeepsIInv DEF StartSession
<1>2. ASSUME NEW u \in Users, NEW g \in Games, EndSession(u, g)
      PROVE  IInv'
  <2>1. OpenRows(u, g) \in SUBSET rows /\ \A r \in OpenRows(u, g) : IsOpen(r)
    BY DEF OpenRows
  <2>2. QED
    BY <1>2, <2>1, CloseKeepsIInv DEF EndSession
<1>3. ASSUME NEW u \in Users, EndClientSessions(u)
      PROVE  IInv'
  <2> DEFINE R == OpenClientRows(u)
  <2>1. R \in SUBSET rows /\ \A r \in R : IsOpen(r)
    BY DEF OpenClientRows
  <2>2. Close(R) /\ UNCHANGED now
    BY <1>3 DEF EndClientSessions
  <2> HIDE DEF R
  <2>3. QED
    BY <2>1, <2>2, CloseKeepsIInv
<1>4. ASSUME Tick PROVE IInv'
  <2>1. (\A q \in rows : InThePast(q))'
    BY <1>4 DEF Tick, IInv, TypeOK, Rows, InThePast, IsOpen, Null
  <2>2. TypeOK'
    BY <1>4, <2>1 DEF Tick, IInv, TypeOK
  <2>3. OneOpenPerGame' /\ FlapsAreMerged'
    BY <1>4 DEF Tick, IInv, OneOpenPerGame, FlapsAreMerged, SameSeries, Separated, IsOpen
  <2>4. QED
    BY <2>2, <2>3 DEF IInv
<1>5. CASE UNCHANGED vars
  BY <1>5 DEF vars, IInv, TypeOK, InThePast, OneOpenPerGame, FlapsAreMerged,
              SameSeries, Separated, IsOpen
<1>6. QED
  BY <1>1, <1>2, <1>3, <1>4, <1>5 DEF Next

LEMMA InvariantHolds == Spec => []IInv
<1>1. Init => IInv
  BY DEF Init, IInv, TypeOK, OneOpenPerGame, FlapsAreMerged
<1>2. QED
  BY <1>1, Inductive, PTL DEF Spec

(* Every row is well formed: the columns of game_sessions. *)
THEOREM TypeCorrect == Spec => []TypeOK
<1>1. IInv => TypeOK
  BY DEF IInv
<1>2. QED
  BY <1>1, InvariantHolds, PTL

(* Rows of one source never overlap and are at least a merge window apart, *)
(* whatever sequence of starts and ends the sources report.                *)
THEOREM FlapsMerged == Spec => []FlapsAreMerged
<1>1. IInv => FlapsAreMerged
  BY DEF IInv
<1>2. QED
  BY <1>1, InvariantHolds, PTL

(* What the partial unique index guarantees, shown of the statements       *)
(* themselves: none of them ever needs the index to refuse a write.        *)
THEOREM OneOpen == Spec => []OneOpenPerGame
<1>1. IInv => OneOpenPerGame
  BY DEF IInv
<1>2. QED
  BY <1>1, InvariantHolds, PTL

-----------------------------------------------------------------------------
(* The open sessions of the table. *)
OpenNow == {[user |-> r.user, game |-> r.game, source |-> r.source] :
               r \in {q \in rows : IsOpen(q)}}

(* Closing open rows removes exactly their keys, when no other open row    *)
(* bears the same key.                                                     *)
LEMMA CloseRemoves ==
    ASSUME IInv, NEW R \in SUBSET rows, \A r \in R : IsOpen(r), Close(R)
    PROVE  OpenNow' = {[user |-> r.user, game |-> r.game, source |-> r.source] :
                          r \in {q \in rows \ R : IsOpen(q)}}
<1>1. now \in Nat
  BY DEF IInv, TypeOK
<1>2. \A r \in R : ~IsOpen([r EXCEPT !.end = now])
  BY <1>1 DEF IInv, TypeOK, Rows, IsOpen, Null
<1>3. {q \in rows' : IsOpen(q)} = {q \in rows \ R : IsOpen(q)}
  BY <1>2 DEF Close
<1>4. QED
  BY <1>3 DEF OpenNow, IsOpen

(* A start, merged or not, opens one session, of the source that asks.     *)
LEMMA StartOpensOne ==
    ASSUME IInv, NEW u \in Users, NEW g \in Games, NEW src \in Sources,
           StartSession(u, g, src)
    PROVE  \E n : /\ {q \in rows' : IsOpen(q)} = {q \in rows : IsOpen(q)} \cup {n}
                  /\ n.user = u /\ n.game = g /\ n.source = src
<1>1. ASSUME NEW r \in LastEnded(Mergeable(u, g, src)), Reopen(r)
      PROVE  LET n == [r EXCEPT !.end = Null]
             IN  /\ {q \in rows' : IsOpen(q)} = {q \in rows : IsOpen(q)} \cup {n}
                 /\ n.user = u /\ n.game = g /\ n.source = src
  BY <1>1 DEF Reopen, LastEnded, Mergeable, IInv, TypeOK, Rows, IsOpen
<1>2. ASSUME rows' = rows \cup {NewRow(u, g, src)}
      PROVE  LET n == NewRow(u, g, src)
             IN  /\ {q \in rows' : IsOpen(q)} = {q \in rows : IsOpen(q)} \cup {n}
                 /\ n.user = u /\ n.game = g /\ n.source = src
  BY <1>2 DEF NewRow, IsOpen
<1>3. QED
  BY <1>1, <1>2 DEF StartSession

LEMMA StartRefines ==
    ASSUME IInv, NEW u \in Users, NEW g \in Games, NEW src \in Sources,
           StartSession(u, g, src)
    PROVE  Abs!Start(u, g, src)
<1> DEFINE key(r) == [user |-> r.user, game |-> r.game, source |-> r.source]
<1>1. \A s \in OpenNow : ~(s.user = u /\ s.game = g)
  BY DEF StartSession, OpenRows, OpenNow
<1>2. PICK n : /\ {q \in rows' : IsOpen(q)} = {q \in rows : IsOpen(q)} \cup {n}
               /\ n.user = u /\ n.game = g /\ n.source = src
  BY StartOpensOne
<1>3. OpenNow' = OpenNow \cup {key(n)}
  BY <1>2 DEF OpenNow
<1>4. key(n) = [user |-> u, game |-> g, source |-> src]
  BY <1>2
<1>5. Abs!StartChanges(u, g)
  BY <1>1 DEF Abs!StartChanges, Abs!OpenFor, OpenNow
<1>6. QED
  BY <1>3, <1>4, <1>5 DEF Abs!Start, OpenNow

LEMMA EndRefines ==
    ASSUME IInv, NEW u \in Users, NEW g \in Games, EndSession(u, g)
    PROVE  Abs!End(u, g)
<1>1. OpenNow' = {[user |-> r.user, game |-> r.game, source |-> r.source] :
                     r \in {q \in rows \ OpenRows(u, g) : IsOpen(q)}}
  BY CloseRemoves DEF EndSession, OpenRows
<1>2. OpenNow' = {s \in OpenNow : ~(s.user = u /\ s.game = g)}
  BY <1>1 DEF OpenNow, OpenRows
<1>3. QED
  BY <1>2 DEF Abs!End, Abs!OpenFor, OpenNow

LEMMA EndClientRefines ==
    ASSUME IInv, NEW u \in Users, EndClientSessions(u)
    PROVE  Abs!EndClient(u)
<1> DEFINE R == OpenClientRows(u)
<1>1. R \in SUBSET rows /\ \A r \in R : IsOpen(r)
  BY DEF OpenClientRows
<1>2. Close(R)
  BY DEF EndClientSessions
<1>3. OpenNow' = {[user |-> r.user, game |-> r.game, source |-> r.source] :
                     r \in {q \in rows \ R : IsOpen(q)}}
  BY <1>1, <1>2, CloseRemoves
<1>4. OpenNow' = {s \in OpenNow : ~(s.user = u /\ s.source = "client")}
  BY <1>3 DEF OpenNow, OpenClientRows
<1>5. QED
  BY <1>4 DEF Abs!EndClient, Abs!OpenClient, OpenNow

(* The table implements the abstract set of open sessions: merging,        *)
(* reopening and the unique index are invisible to a caller that only asks *)
(* what is open.                                                           *)
THEOREM Refinement == Spec => ImplementsOpenSessions
<1>1. Init => Abs!Init
  BY DEF Init, Abs!Init
<1>2. IInv /\ [Next]_vars => [Abs!Next]_OpenNow
  <2> SUFFICES ASSUME IInv, [Next]_vars PROVE [Abs!Next]_OpenNow
    OBVIOUS
  <2>1. ASSUME NEW u \in Users, NEW g \in Games, NEW src \in Sources,
               StartSession(u, g, src)
        PROVE  Abs!Next
    BY <2>1, StartRefines DEF Abs!Next
  <2>2. ASSUME NEW u \in Users, NEW g \in Games, EndSession(u, g)
        PROVE  Abs!Next
    BY <2>2, EndRefines DEF Abs!Next
  <2>3. ASSUME NEW u \in Users, EndClientSessions(u)
        PROVE  Abs!Next
    BY <2>3, EndClientRefines DEF Abs!Next
  <2>4. CASE Tick
    BY <2>4 DEF Tick, OpenNow, IsOpen
  <2>5. CASE UNCHANGED vars
    BY <2>5 DEF vars, OpenNow, IsOpen
  <2>6. QED
    BY <2>1, <2>2, <2>3, <2>4, <2>5 DEF Next
<1>3. QED
  BY <1>1, <1>2, InvariantHolds, PTL DEF Spec, ImplementsOpenSessions, Abs!Spec, OpenNow

(* What a statement does to the rows already there.                        *)
Keeps(r, q) ==
    /\ q.user = r.user /\ q.game = r.game /\ q.source = r.source
    /\ q.start = r.start
    /\ ~IsOpen(r) => q.end = r.end \/ (IsOpen(q) /\ r.end > now - Window)
    /\ IsOpen(r) => IsOpen(q) \/ q.end = now

LEMMA RowsAreKept ==
    ASSUME IInv, [Next]_vars, NEW r \in rows
    PROVE  \E q \in rows' : Keeps(r, q)
<1>1. r \in Rows /\ Keeps(r, r)
  BY DEF IInv, TypeOK, Keeps
<1>2. \A e : [r EXCEPT !.end = e].end = e /\ [r EXCEPT !.end = e].start = r.start
             /\ [r EXCEPT !.end = e].user = r.user /\ [r EXCEPT !.end = e].game = r.game
             /\ [r EXCEPT !.end = e].source = r.source
  BY <1>1 DEF Rows
<1>3. ASSUME NEW R \in SUBSET rows, Close(R), \A q \in R : IsOpen(q)
      PROVE  \E q \in rows' : Keeps(r, q)
  <2>1. CASE r \in R
    <3>1. [r EXCEPT !.end = now] \in rows' /\ IsOpen(r)
      BY <1>3, <2>1 DEF Close
    <3>2. QED
      BY <1>2, <3>1 DEF Keeps
  <2>2. CASE r \notin R
    BY <1>1, <1>3, <2>2 DEF Close
  <2>3. QED
    BY <2>1, <2>2
<1>4. ASSUME NEW u, NEW g, NEW src, StartSession(u, g, src)
      PROVE  \E q \in rows' : Keeps(r, q)
  <2>1. ASSUME NEW n \in LastEnded(Mergeable(u, g, src)), Reopen(n)
        PROVE  \E q \in rows' : Keeps(r, q)
    <3>1. CASE r = n
      <4>1. [r EXCEPT !.end = Null] \in rows' /\ r.end > now - Window
        BY <2>1, <3>1 DEF Reopen, LastEnded, Mergeable
      <4>2. QED
        BY <1>2, <4>1 DEF Keeps, IsOpen
    <3>2. CASE r # n
      BY <1>1, <2>1, <3>2 DEF Reopen
    <3>3. QED
      BY <3>1, <3>2
  <2>2. ASSUME rows' = rows \cup {NewRow(u, g, src)} PROVE \E q \in rows' : Keeps(r, q)
    BY <1>1, <2>2
  <2>3. QED
    BY <1>4, <2>1, <2>2 DEF StartSession
<1>5. ASSUME NEW u, NEW g, EndSession(u, g) PROVE \E q \in rows' : Keeps(r, q)
  BY <1>3, <1>5 DEF EndSession, OpenRows
<1>6. ASSUME NEW u, EndClientSessions(u) PROVE \E q \in rows' : Keeps(r, q)
  BY <1>3, <1>6 DEF EndClientSessions, OpenClientRows
<1>7. ASSUME UNCHANGED rows PROVE \E q \in rows' : Keeps(r, q)
  BY <1>1, <1>7
<1>8. QED
  BY <1>4, <1>5, <1>6, <1>7 DEF Next, Tick, vars

(* A member's history never shrinks and nothing in it moves: no statement  *)
(* of sessions.go drops a row, changes its start, or reopens one that      *)
(* ended longer ago than the window.                                       *)
THEOREM HistoryStays == Spec => HistoryKept
<1>1. IInv /\ [Next]_vars
      => [\A r \in rows : \E q \in rows' :
             /\ q.user = r.user /\ q.game = r.game /\ q.source = r.source
             /\ q.start = r.start
             /\ ~IsOpen(r) => q.end = r.end \/ (IsOpen(q) /\ r.end > now - Window)]_vars
  BY RowsAreKept DEF Keeps
<1>2. QED
  BY <1>1, InvariantHolds, PTL DEF Spec, HistoryKept

-----------------------------------------------------------------------------
(* The writers.                                                            *)

ConsoleRows(u) == {r \in rows : r.user = u /\ r.source = Console /\ IsOpen(r)}

Single(S) == \A x, y \in S : x = y

Polls == [user : Users, ends : SUBSET Games, starts : SUBSET Games]

PInv ==
    /\ IInv
    /\ poll \in SUBSET Polls /\ Single(poll)
    /\ \A p \in poll : Single(p.ends) /\ Single(p.starts)
    /\ \A p \in poll : \A r \in ConsoleRows(p.user) : r.game \in p.ends
    /\ OneConsoleSession

(* Every step is one of the table's, or leaves it alone. *)
LEMMA StepsOfTheTable == PInv /\ [PlayNext]_playVars => [Next]_vars
<1> SUFFICES ASSUME PInv, [PlayNext]_playVars PROVE [Next]_vars
  OBVIOUS
<1>1. ASSUME NEW u \in Users, ClientStep(u) PROVE [Next]_vars
  <2>1. "client" \in Sources /\ ClientGames \subseteq Games
    BY SourcesAssumption, ClientAssumption
  <2>2. QED
    BY <1>1, <2>1 DEF ClientStep, Next
<1>2. CASE EndPrevious
  <2>1. PICK p \in poll, g \in UNION {q.ends : q \in poll}, ok \in BOOLEAN :
           IF ok THEN Close(OpenRows(p.user, g)) ELSE UNCHANGED rows
    BY <1>2 DEF EndPrevious
  <2>2. p.user \in Users /\ g \in Games
    BY <2>1 DEF PInv, Polls
  <2>3. UNCHANGED now
    BY <1>2 DEF EndPrevious
  <2>4. OpenRows(p.user, g) = {} => UNCHANGED rows
    BY <2>1 DEF Close
  <2>5. OpenRows(p.user, g) # {} => EndSession(p.user, g) \/ UNCHANGED rows
    BY <2>1, <2>3 DEF EndSession
  <2>6. QED
    BY <2>2, <2>3, <2>4, <2>5 DEF Next, vars
<1>3. CASE StartNext
  <2>1. PICK p \in poll, g \in UNION {q.starts : q \in poll} :
           StartSession(p.user, g, Console) \/ UNCHANGED <<rows, now>>
    BY <1>3 DEF StartNext
  <2>2. p.user \in Users /\ g \in Games /\ Console \in Sources
    BY <2>1, ConsoleAssumption DEF PInv, Polls
  <2>3. QED
    BY <2>1, <2>2 DEF Next, vars
<1>4. ASSUME NEW u \in Users, NEW playing, Reconcile(u, playing) PROVE [Next]_vars
  BY <1>4 DEF Reconcile, vars
<1>5. ASSUME NEW u \in Users, NEW g \in SteamGames, NEW platform, Sync(u, g, platform)
      PROVE  [Next]_vars
  BY <1>5 DEF Sync, vars
<1>6. ASSUME NEW S, PlayTick(S) PROVE [Next]_vars
  BY <1>6 DEF PlayTick, Next
<1>7. CASE UNCHANGED playVars
  BY <1>7 DEF playVars, vars
<1>8. QED
  BY <1>1, <1>2, <1>3, <1>4, <1>5, <1>6, <1>7 DEF PlayNext

(* The sessions that are open on a console are left there, or ended. *)
Shrinks == \A u \in Users : ConsoleRows(u)' \subseteq ConsoleRows(u)

LEMMA CloseShrinks ==
    ASSUME IInv, NEW R \in SUBSET rows, Close(R)
    PROVE  Shrinks /\ \A u \in Users : ConsoleRows(u)' \cap R = {}
<1>1. \A r \in R : ~IsOpen([r EXCEPT !.end = now])
  BY DEF IInv, TypeOK, Rows, IsOpen, Null
<1>2. {r \in rows' : IsOpen(r)} \subseteq rows \ R
  BY <1>1 DEF Close
<1>3. QED
  BY <1>2 DEF Shrinks, ConsoleRows, IsOpen

LEMMA ClientShrinks ==
    ASSUME IInv, NEW u \in Users, ClientStep(u)
    PROVE  Shrinks
<1>1. ASSUME NEW g \in ClientGames, StartSession(u, g, "client") PROVE Shrinks
  <2>1. g \in Games /\ "client" \in Sources /\ "client" # Console
    BY ClientAssumption, SourcesAssumption DEF Console
  <2>2. PICK n : /\ {q \in rows' : IsOpen(q)} = {q \in rows : IsOpen(q)} \cup {n}
                 /\ n.source = "client"
    BY <1>1, <2>1, StartOpensOne
  <2>3. QED
    BY <2>1, <2>2 DEF Shrinks, ConsoleRows, IsOpen
<1>2. ASSUME NEW R \in SUBSET rows, Close(R) PROVE Shrinks
  BY <1>2, CloseShrinks
<1>3. OpenClientRows(u) \in SUBSET rows /\ \A g : OpenRows(u, g) \in SUBSET rows
  BY DEF OpenClientRows, OpenRows
<1>4. QED
  BY <1>1, <1>2, <1>3 DEF ClientStep, EndSession, EndClientSessions

LEMMA ShrinkingKeepsOne ==
    ASSUME PInv, IInv', Shrinks
    PROVE  OneConsoleSession'
<1> SUFFICES ASSUME NEW r \in rows', NEW q \in rows', IsOpen(r), IsOpen(q),
                    r.source = Console, q.source = Console, r.user = q.user
             PROVE  r = q
  BY DEF OneConsoleSession, IsOpen
<1>1. r.user \in Users
  BY DEF IInv, TypeOK, Rows
<1>2. r \in ConsoleRows(r.user)' /\ q \in ConsoleRows(r.user)'
  BY DEF ConsoleRows, IsOpen
<1>3. r \in ConsoleRows(r.user) /\ q \in ConsoleRows(r.user)
  BY <1>1, <1>2 DEF Shrinks
<1>4. QED
  BY <1>3 DEF PInv, OneConsoleSession, ConsoleRows

(* With nothing new open on a console, and the poller where it was, what   *)
(* the poller knows of it stays true.                                      *)
LEMMA ShrinkingKeepsPInv ==
    ASSUME PInv, IInv', Shrinks, UNCHANGED poll
    PROVE  PInv'
<1>1. \A p \in poll : p.user \in Users
  BY DEF PInv, Polls
<1>2. (\A p \in poll : \A r \in ConsoleRows(p.user) : r.game \in p.ends)'
  BY <1>1 DEF PInv, Shrinks
<1>3. QED
  BY <1>2, ShrinkingKeepsOne DEF PInv

(* A member has one session open on the console at most, so the newest is  *)
(* every one of them.                                                      *)
LEMMA NewestIsAll ==
    ASSUME PInv, NEW u \in Users
    PROVE  OpenConsole(u) = ConsoleRows(u)
<1>1. \A r \in ConsoleRows(u) : r.start \in Nat
  BY DEF ConsoleRows, PInv, IInv, TypeOK, Rows
<1>2. \A r, q \in ConsoleRows(u) : r = q
  BY DEF ConsoleRows, PInv, OneConsoleSession
<1>3. {r \in OpenOf(u) : r.source = Console} = ConsoleRows(u)
  BY DEF OpenOf, ConsoleRows
<1>4. QED
  BY <1>1, <1>2, <1>3 DEF OpenConsole, Newest

LEMMA ReconcileKeepsPInv ==
    ASSUME PInv, IInv', NEW u \in Users,
           NEW playing \in {{}} \cup {{g} : g \in Games}, Reconcile(u, playing)
    PROVE  PInv'
<1> DEFINE ends == {r.game : r \in ConsoleRows(u)} \ playing
           starts == IF \E r \in ConsoleRows(u) : r.game \in playing THEN {} ELSE playing
           p == [user |-> u, ends |-> ends, starts |-> starts]
<1>1. poll' = {p} /\ ends \cup starts # {} /\ UNCHANGED rows
  BY NewestIsAll DEF Reconcile
<1>2. \A r \in ConsoleRows(u) : r.game \in Games
  BY DEF ConsoleRows, PInv, IInv, TypeOK, Rows
<1>3. Single({r.game : r \in ConsoleRows(u)}) /\ Single(playing)
  BY DEF ConsoleRows, PInv, OneConsoleSession, Single
<1>4. p \in Polls /\ Single(p.ends) /\ Single(p.starts)
  BY <1>2, <1>3 DEF Polls, Single
<1>5. \A r \in ConsoleRows(u) : r.game \in p.ends
  <2> SUFFICES ASSUME NEW r \in ConsoleRows(u), r.game \in playing PROVE FALSE
    OBVIOUS
  <2>1. starts = {} /\ ends # {}
    BY <1>1
  <2>2. QED
    BY <1>3, <2>1 DEF Single
<1>6. (\A x \in poll : \A r \in ConsoleRows(x.user) : r.game \in x.ends)'
  BY <1>1, <1>5 DEF ConsoleRows, IsOpen
<1>7. OneConsoleSession'
  BY <1>1 DEF PInv, OneConsoleSession, IsOpen
<1> HIDE DEF p
<1>8. QED
  BY <1>1, <1>4, <1>6, <1>7 DEF PInv, Single

(* The session is ended, and the next may be started; or it is not, and    *)
(* the poller goes on to the next member.                                  *)
LEMMA EndPreviousKeepsPInv ==
    ASSUME PInv, IInv', EndPrevious
    PROVE  PInv'
<1>1. PICK p \in poll, g \in UNION {q.ends : q \in poll}, ok \in BOOLEAN :
         /\ IF ok THEN Close(OpenRows(p.user, g)) ELSE UNCHANGED rows
         /\ Rest(Proceed(p, ok))
  BY DEF EndPrevious
<1>2. p \in Polls /\ g \in p.ends /\ Single(p.ends) /\ Single(p.starts)
  BY <1>1 DEF PInv, Single
<1>3. Shrinks
  BY <1>1, CloseShrinks DEF PInv, OpenRows, Shrinks, ConsoleRows, IsOpen
<1>4. OneConsoleSession'
  BY <1>3, ShrinkingKeepsOne
<1>5. CASE ok /\ p.starts # {}
  <2> DEFINE R == OpenRows(p.user, g)
             n == [p EXCEPT !.ends = {}, !.starts = p.starts]
  <2>1. n \in Polls /\ n.user = p.user /\ n.ends = {} /\ n.starts = p.starts
    BY <1>2 DEF Polls
  <2>2. poll' = {n}
    BY <1>1, <1>5, <2>1 DEF Rest, Proceed
  <2>3. ConsoleRows(p.user)' = {}
    <3> SUFFICES ASSUME NEW r \in ConsoleRows(p.user)' PROVE FALSE
      OBVIOUS
    <3>1. r \in ConsoleRows(p.user) /\ p.user \in Users
      BY <1>2, <1>3 DEF Shrinks, Polls
    <3>2. r.game = g
      BY <1>2, <3>1 DEF PInv, Single
    <3>3. r \in R
      BY <3>1, <3>2 DEF ConsoleRows, OpenRows
    <3>4. R \in SUBSET rows /\ Close(R)
      BY <1>1, <1>5 DEF OpenRows
    <3>5. ConsoleRows(p.user)' \cap R = {}
      BY <3>1, <3>4, CloseShrinks DEF PInv
    <3>6. QED
      BY <3>3, <3>5
  <2> HIDE DEF n
  <2>4. QED
    BY <1>2, <1>4, <2>1, <2>2, <2>3 DEF PInv, Single
<1>6. CASE ~(ok /\ p.starts # {})
  <2>1. poll' = {}
    BY <1>1, <1>2, <1>6 DEF Rest, Proceed, Polls
  <2>2. QED
    BY <1>4, <2>1 DEF PInv, Single, Polls
<1>7. QED
  BY <1>5, <1>6

(* The next session is the only one on the console, or it fails. *)
LEMMA StartNextKeepsPInv ==
    ASSUME PInv, IInv', StartNext
    PROVE  PInv'
<1>1. PICK p \in poll, g \in UNION {q.starts : q \in poll} :
         /\ p.ends = {}
         /\ StartSession(p.user, g, Console) \/ UNCHANGED <<rows, now>>
  BY DEF StartNext
<1>2. p.user \in Users /\ g \in Games /\ Console \in Sources
  BY ConsoleAssumption DEF PInv, Polls
<1>3. ConsoleRows(p.user) = {}
  BY <1>1 DEF PInv
<1>4. OneConsoleSession'
  <2>1. CASE UNCHANGED <<rows, now>>
    BY <2>1 DEF PInv, OneConsoleSession, IsOpen
  <2>2. CASE StartSession(p.user, g, Console)
    <3>1. PICK n : /\ {q \in rows' : IsOpen(q)} = {q \in rows : IsOpen(q)} \cup {n}
                   /\ n.user = p.user
      BY <1>2, <2>2, StartOpensOne DEF PInv
    <3>2. QED
      BY <1>3, <3>1 DEF PInv, OneConsoleSession, ConsoleRows, IsOpen
  <2>3. QED
    BY <1>1, <2>1, <2>2
<1>5. poll' = {}
  BY DEF StartNext
<1>6. QED
  BY <1>4, <1>5 DEF PInv, Single, Polls

LEMMA PInductive == PInv /\ [PlayNext]_playVars => PInv'
<1> SUFFICES ASSUME PInv, [PlayNext]_playVars PROVE PInv'
  OBVIOUS
<1>1. IInv'
  BY StepsOfTheTable, Inductive DEF PInv
<1>2. ASSUME UNCHANGED <<rows, poll>> PROVE PInv'
  BY <1>1, <1>2 DEF PInv, ConsoleRows, OneConsoleSession, IsOpen
<1>3. ASSUME NEW u \in Users, ClientStep(u) PROVE PInv'
  BY <1>1, <1>3, ClientShrinks, ShrinkingKeepsPInv DEF PInv, ClientStep
<1>4. ASSUME NEW u \in Users, NEW playing \in {{}} \cup {{g} : g \in Games},
             Reconcile(u, playing)
      PROVE  PInv'
  BY <1>1, <1>4, ReconcileKeepsPInv
<1>5. CASE EndPrevious
  BY <1>1, <1>5, EndPreviousKeepsPInv
<1>6. CASE StartNext
  BY <1>1, <1>6, StartNextKeepsPInv
<1>7. ASSUME NEW u \in Users, NEW g \in SteamGames, NEW platform, Sync(u, g, platform)
      PROVE  PInv'
  BY <1>2, <1>7 DEF Sync
<1>8. ASSUME NEW S, PlayTick(S) PROVE PInv'
  BY <1>2, <1>8 DEF PlayTick, Tick
<1>9. CASE UNCHANGED playVars
  BY <1>2, <1>9 DEF playVars
<1>10. QED
  BY <1>3, <1>4, <1>5, <1>6, <1>7, <1>8, <1>9 DEF PlayNext

LEMMA PInvariantHolds == PlaySpec => []PInv
<1>1. PlayInit => PInv
  BY DEF PlayInit, Init, PInv, IInv, TypeOK, OneOpenPerGame, FlapsAreMerged, Single,
         OneConsoleSession
<1>2. QED
  BY <1>1, PInductive, PTL DEF PlaySpec

(* The client, the poller with its failing statements and the imports      *)
(* write the table as PlaySessions says: what is proved of PlaySpec's      *)
(* table is proved of this one, the refinement of OpenSessions included.   *)
THEOREM WritersKeepTheTable == PlaySpec => Spec
<1>1. PlayInit => Init
  BY DEF PlayInit
<1>2. QED
  BY <1>1, StepsOfTheTable, PInvariantHolds, PTL DEF PlaySpec, Spec

(* xboxsync: whatever the client writes between two statements of the      *)
(* poller and whichever of them fail, a member's console has one session   *)
(* open at most.                                                           *)
THEOREM OneOnConsole == PlaySpec => []OneConsoleSession
<1>1. PInv => OneConsoleSession
  BY DEF PInv
<1>2. QED
  BY <1>1, PInvariantHolds, PTL

(* The composition implements the abstract set of open sessions. *)
THEOREM WritersImplement == PlaySpec => ImplementsOpenSessions
BY WritersKeepTheTable, Refinement, PTL

(* The history of a member stays what it was with all three writers at it. *)
THEOREM WritersKeepHistory == PlaySpec => HistoryKept
BY WritersKeepTheTable, HistoryStays, PTL

-----------------------------------------------------------------------------
(* What is counted.                                                        *)

(* What MapThenSumSet computes. *)
LEMMA SecondsSum ==
    ASSUME NEW R, IsFiniteSet(R)
    PROVE  \E h : /\ Seconds(R) = h[R]
                  /\ h = [s \in SUBSET R |-> IF s = {} THEN 0
                                    ELSE Duration(First(s)) + h[s \ {First(s)}]]
<1> DEFINE Q(h) == h = [s \in SUBSET R |-> IF s = {} THEN 0
                                    ELSE Duration(First(s)) + h[s \ {First(s)}]]
<1>1. Seconds(R) = (CHOOSE h : Q(h))[R]
  BY DEF Seconds, MapThenSumSet, MapThenFoldSet, First
<1>2. PICK f : f = [x \in R |-> Duration(x)]
  OBVIOUS
<1>3. PICK h : Sums(f, R, h)
  BY SumExists
<1>4. \A s \in SUBSET R : s # {} => f[First(s)] = Duration(First(s))
  BY <1>2 DEF First
<1>5. Q(h)
  BY <1>3, <1>4 DEF Sums
<1> HIDE DEF Q
<1>6. Q(CHOOSE k : Q(k))
  BY <1>5
<1>7. QED
  BY <1>1, <1>6 DEF Q

(* The ticks of a session. *)
Covers(r) == {t \in 0..(now - 1) : r.start <= t /\ (IsOpen(r) \/ t < r.end)}

Covered(R) == {t \in 0..(now - 1) : \E r \in R : t \in Covers(r)}

Apart(R) == \A r, q \in R : r # q => Covers(r) \cap Covers(q) = {}

(* A closed session lasts as long as it covers ticks. *)
LEMMA CoversCounts ==
    ASSUME TypeOK, NEW r \in rows
    PROVE  /\ IsFiniteSet(Covers(r))
           /\ Duration(r) \in Nat
           /\ Duration(r) <= Cardinality(Covers(r))
<1>1. r \in Rows /\ InThePast(r) /\ now \in Nat
  BY DEF TypeOK
<1>2. Covers(r) \in SUBSET (0..(now - 1)) /\ IsFiniteSet(0..(now - 1))
  BY <1>1, FS_Interval DEF Covers
<1>3. IsFiniteSet(Covers(r)) /\ Cardinality(Covers(r)) \in Nat
  BY <1>2, FS_Subset, FS_CardinalityType
<1>4. CASE IsOpen(r)
  BY <1>3, <1>4 DEF Duration
<1>5. CASE ~IsOpen(r)
  <2>1. /\ r.start \in Nat /\ r.end \in Nat /\ r.start <= r.end /\ r.end <= now
    BY <1>1, <1>5 DEF Rows, InThePast, IsOpen
  <2>2. Covers(r) = r.start..(r.end - 1)
    BY <1>1, <1>5, <2>1 DEF Covers
  <2>3. Cardinality(r.start..(r.end - 1)) = r.end - r.start
    <3>1. PICK a \in Int, b \in Int : a = r.start /\ b = r.end - 1 /\ a <= b + 1
      BY <2>1
    <3>2. Cardinality(a..b) = IF a > b THEN 0 ELSE b - a + 1
      BY FS_Interval
    <3>3. Cardinality(a..b) = r.end - r.start
      BY <2>1, <3>1, <3>2
    <3>4. QED
      BY <3>1, <3>3
  <2>4. QED
    BY <1>3, <1>5, <2>1, <2>2, <2>3 DEF Duration
<1>6. QED
  BY <1>4, <1>5

LEMMA CoveredFinite ==
    ASSUME now \in Nat, NEW R
    PROVE  IsFiniteSet(Covered(R)) /\ Cardinality(Covered(R)) \in Nat
<1>1. Covered(R) \in SUBSET (0..(now - 1)) /\ IsFiniteSet(0..(now - 1))
  BY FS_Interval DEF Covered
<1>2. QED
  BY <1>1, FS_Subset, FS_CardinalityType

(* Sessions that share no tick last no longer than the ticks they cover. *)
LEMMA SecondsCovered ==
    ASSUME TypeOK, NEW R \in SUBSET rows, IsFiniteSet(R)
    PROVE  /\ Seconds(R) \in Nat
           /\ Apart(R) => Seconds(R) <= Cardinality(Covered(R))
<1>1. PICK h : /\ Seconds(R) = h[R]
               /\ h = [s \in SUBSET R |-> IF s = {} THEN 0
                                 ELSE Duration(First(s)) + h[s \ {First(s)}]]
  BY SecondsSum
<1> DEFINE P == {s \in SUBSET R : /\ h[s] \in Nat
                                  /\ Apart(s) => h[s] <= Cardinality(Covered(s))}
<1>2. ASSUME NEW s \in SUBSET R, \A x \in s : s \ {x} \in P PROVE s \in P
  <2>1. now \in Nat
    BY DEF TypeOK
  <2>2. IsFiniteSet(Covered(s)) /\ Cardinality(Covered(s)) \in Nat
    BY <2>1, CoveredFinite
  <2>3. CASE s = {}
    BY <1>1, <2>2, <2>3
  <2>4. CASE s # {}
    <3>1. PICK x \in s : x = First(s)
      BY <2>4 DEF First
    <3>2. PICK q : q = s \ {x}
      OBVIOUS
    <3>3. h[s] = Duration(x) + h[q]
      BY <1>1, <2>4, <3>1, <3>2
    <3>4. h[q] \in Nat /\ (Apart(q) => h[q] <= Cardinality(Covered(q)))
      BY <1>2, <3>2
    <3>5. x \in rows
      OBVIOUS
    <3>6. /\ IsFiniteSet(Covers(x)) /\ Duration(x) \in Nat
          /\ Duration(x) <= Cardinality(Covers(x))
      BY <3>5, CoversCounts
    <3>7. ASSUME Apart(s) PROVE h[s] <= Cardinality(Covered(s))
      <4>1. Apart(q)
        BY <3>2, <3>7 DEF Apart
      <4>2. IsFiniteSet(Covered(q)) /\ Cardinality(Covered(q)) \in Nat
        BY <2>1, CoveredFinite
      <4>3. Covers(x) \cap Covered(q) = {}
        BY <3>2, <3>7 DEF Apart, Covered
      <4>4. Covered(s) = Covers(x) \cup Covered(q)
        BY <3>1, <3>2 DEF Covered, Covers
      <4>5. Cardinality(Covers(x)) \in Nat
        BY <3>6, FS_CardinalityType
      <4>6. Cardinality(Covered(s)) = Cardinality(Covers(x)) + Cardinality(Covered(q))
        <5>1. Cardinality(Covers(x) \cap Covered(q)) = 0
          BY <4>3, FS_EmptySet
        <5>2. PICK A, B : A = Covers(x) /\ B = Covered(q)
          OBVIOUS
        <5>3. Cardinality(A \cup B) = Cardinality(A) + Cardinality(B) - Cardinality(A \cap B)
          BY <3>6, <4>2, <5>2, FS_Union
        <5>4. QED
          BY <4>2, <4>4, <4>5, <5>1, <5>2, <5>3
      <4>7. QED
        BY <3>3, <3>4, <3>6, <4>1, <4>2, <4>5, <4>6
    <3>8. QED
      BY <3>3, <3>4, <3>6, <3>7
  <2>5. QED
    BY <2>3, <2>4
<1> HIDE DEF P
<1>3. R \in P
  BY <1>2, SetInduction
<1>4. QED
  BY <1>1, <1>3 DEF P

(* An import is counted once. *)
LEMMA EffectiveOfOne ==
    ASSUME NEW u, NEW g, NEW e, Imported(u, g) = {e},
           e.total \in Nat, Seconds(Since(u, g, e.synced)) \in Nat
    PROVE  Effective(u, g) = e.total + Seconds(Since(u, g, e.synced))
<1> DEFINE F(x) == x.total + Seconds(Since(u, g, x.synced))
           Q(h) == h = [s \in SUBSET {e} |-> IF s = {} THEN 0
                                    ELSE F(First(s)) + h[s \ {First(s)}]]
<1>1. PICK v : v = F(e) /\ v \in Nat
  OBVIOUS
<1> HIDE DEF F
<1>2. Effective(u, g) = (CHOOSE h : Q(h))[{e}]
  BY DEF Effective, MapThenSumSet, MapThenFoldSet, First, F
<1>3. PICK h : h = [s \in SUBSET {e} |-> IF s = {} THEN 0 ELSE v]
  OBVIOUS
<1>4. \A s \in SUBSET {e} : s # {} => s = {e} /\ First(s) = e /\ s \ {First(s)} = {}
  BY DEF First
<1>5. \A s \in SUBSET {e} : s # {} => F(First(s)) + h[s \ {First(s)}] = v
  BY <1>1, <1>3, <1>4
<1>6. Q(h)
  BY <1>3, <1>5
<1> HIDE DEF Q
<1>7. Q(CHOOSE k : Q(k))
  BY <1>6
<1>8. PICK k : k = (CHOOSE x : Q(x))
  OBVIOUS
<1>9. k[{e}] = F(e) + k[{}] /\ k[{}] = 0
  <2>1. k = [s \in SUBSET {e} |-> IF s = {} THEN 0
                          ELSE F(First(s)) + k[s \ {First(s)}]]
    BY <1>7, <1>8 DEF Q
  <2>2. First({e}) = e /\ {e} \ {First({e})} = {}
    BY <1>4
  <2>3. QED
    BY <2>1, <2>2
<1>10. QED
  BY <1>1, <1>2, <1>8, <1>9 DEF F

LEMMA ImageFinite ==
    ASSUME NEW R, IsFiniteSet(R), NEW f, DOMAIN f = R, f = [x \in R |-> f[x]]
    PROVE  IsFiniteSet({f[x] : x \in R})
<1>1. f \in Surjection(R, {f[x] : x \in R})
  BY DEF Surjection
<1>2. QED
  BY <1>1, FS_Surjection

LEMMA CloseFinite ==
    ASSUME IsFiniteSet(rows), NEW R \in SUBSET rows, Close(R)
    PROVE  IsFiniteSet(rows')
<1>1. PICK f : f = [r \in R |-> [r EXCEPT !.end = now]]
  OBVIOUS
<1>2. IsFiniteSet(R) /\ IsFiniteSet(rows \ R)
  BY FS_Subset, FS_Difference
<1>3. IsFiniteSet({f[x] : x \in R})
  BY <1>1, <1>2, ImageFinite
<1>4. rows' = (rows \ R) \cup {f[x] : x \in R}
  BY <1>1 DEF Close
<1>5. QED
  BY <1>2, <1>3, <1>4, FS_Union

LEMMA RowsStayFinite == IsFiniteSet(rows) /\ [Next]_vars => IsFiniteSet(rows')
<1> SUFFICES ASSUME IsFiniteSet(rows), [Next]_vars PROVE IsFiniteSet(rows')
  OBVIOUS
<1>1. ASSUME NEW u, NEW g, NEW src, StartSession(u, g, src) PROVE IsFiniteSet(rows')
  <2>1. ASSUME NEW r, Reopen(r) PROVE IsFiniteSet(rows')
    <3>1. IsFiniteSet(rows \ {r})
      BY FS_RemoveElement
    <3>2. PICK n : rows' = (rows \ {r}) \cup {n}
      BY <2>1 DEF Reopen
    <3>3. QED
      BY <3>1, <3>2, FS_AddElement
  <2>2. ASSUME rows' = rows \cup {NewRow(u, g, src)} PROVE IsFiniteSet(rows')
    BY <2>2, FS_AddElement
  <2>3. QED
    BY <1>1, <2>1, <2>2 DEF StartSession
<1>2. ASSUME NEW u, NEW g, EndSession(u, g) PROVE IsFiniteSet(rows')
  <2>1. OpenRows(u, g) \in SUBSET rows
    BY DEF OpenRows
  <2>2. QED
    BY <1>2, <2>1, CloseFinite DEF EndSession
<1>3. ASSUME NEW u, EndClientSessions(u) PROVE IsFiniteSet(rows')
  <2>1. OpenClientRows(u) \in SUBSET rows
    BY DEF OpenClientRows
  <2>2. QED
    BY <1>3, <2>1, CloseFinite DEF EndClientSessions
<1>4. CASE UNCHANGED rows
  BY <1>4
<1>5. QED
  BY <1>1, <1>2, <1>3, <1>4 DEF Next, Tick, vars

(* Two sessions of the game share a tick. *)
Doubled(u, g) == \E r, q \in SessionsOf(u, g) : r # q /\ Covers(r) \cap Covers(q) # {}

(* A session covers no less after a step: it is closed at the tick that    *)
(* comes, or reopened.                                                     *)
LEMMA CoversGrow ==
    ASSUME IInv, IInv', [Next]_vars, NEW r \in rows, NEW q \in rows', Keeps(r, q)
    PROVE  Covers(r) \subseteq Covers(q)'
<1>1. now \in Nat /\ now' \in Nat /\ now <= now'
  BY DEF IInv, TypeOK, Next, StartSession, EndSession, EndClientSessions, Tick, vars
<1>2. r \in Rows /\ q \in Rows
  BY DEF IInv, TypeOK, Rows
<1>3. IsOpen(q)' <=> IsOpen(q)
  BY DEF IsOpen
<1>4. QED
  BY <1>1, <1>2, <1>3 DEF Covers, Keeps, IsOpen, Rows, Null

(* Two sessions that share a tick keep sharing it, and stay two.           *)
LEMMA DoubledStays ==
    ASSUME IInv, IInv', [Next]_vars, NEW u, NEW g, Doubled(u, g)
    PROVE  Doubled(u, g)'
<1>1. PICK r \in SessionsOf(u, g), q \in SessionsOf(u, g) :
         r # q /\ Covers(r) \cap Covers(q) # {}
  BY DEF Doubled
<1>2. /\ r \in rows /\ q \in rows
      /\ r.user = u /\ q.user = u /\ r.game = g /\ q.game = g
  BY DEF SessionsOf
<1>3. PICK x \in rows' : Keeps(r, x)
  BY <1>2, RowsAreKept
<1>4. PICK y \in rows' : Keeps(q, y)
  BY <1>2, RowsAreKept
<1>5. x \in SessionsOf(u, g)' /\ y \in SessionsOf(u, g)'
  BY <1>2, <1>3, <1>4 DEF SessionsOf, Keeps
<1>6. x # y
  <2> SUFFICES ASSUME x = y PROVE FALSE
    OBVIOUS
  <2>1. SameSeries(r, q) /\ r.start = q.start
    BY <1>2, <1>3, <1>4 DEF Keeps, SameSeries
  <2>2. Separated(r, q)
    BY <1>1, <1>2, <2>1 DEF IInv, FlapsAreMerged
  <2>3. r \in Rows /\ q \in Rows /\ InThePast(r) /\ InThePast(q)
    BY <1>2 DEF IInv, TypeOK
  <2>4. QED
    BY <2>1, <2>2, <2>3, WindowAssumption DEF Separated, InThePast, Rows, IsOpen
<1>7. Covers(r) \subseteq Covers(x)' /\ Covers(q) \subseteq Covers(y)'
  BY <1>2, <1>3, <1>4, CoversGrow
<1>8. Covers(x)' \cap Covers(y)' # {}
  BY <1>1, <1>7
<1>9. QED
  BY <1>5, <1>6, <1>8 DEF Doubled

(* The invariant.  What is imported need not fit once two sessions of the  *)
(* game share a tick; while none do, it fits the ticks before the sync.    *)
Imports == [user : Users, game : SteamGames, total : Nat, synced : Nat]

(* An import shows no more than was played before it. *)
Fits(e) == e.total <= Cardinality(Played(e.user, e.game) \cap 0..(e.synced - 1))

ImportsFit ==
    /\ ext \subseteq Imports
    /\ \A e \in ext : e.synced <= now
    /\ \A e, f \in ext : e.user = f.user /\ e.game = f.game => e = f
    /\ \A e \in ext : Doubled(e.user, e.game) \/ Fits(e)

Counted == \A u \in Users, g \in SteamGames : lifetime[<<u, g>>] \subseteq 0..(now - 1)

CInv ==
    /\ PInv
    /\ IsFiniteSet(rows)
    /\ Counted
    /\ ImportsFit

LEMMA PlayedFinite ==
    ASSUME now \in Nat, Counted, NEW u \in Users, NEW g \in SteamGames
    PROVE  /\ Played(u, g) \subseteq 0..(now - 1)
           /\ IsFiniteSet(Played(u, g)) /\ Cardinality(Played(u, g)) \in Nat
<1>1. Played(u, g) \in SUBSET (0..(now - 1))
  BY DEF Played, Counted
<1>2. IsFiniteSet(0..(now - 1))
  BY FS_Interval
<1>3. QED
  BY <1>1, <1>2, FS_Subset, FS_CardinalityType

LEMMA PlayedGrows ==
    ASSUME IInv, IInv', [Next]_vars, NEW u \in Users, NEW g \in SteamGames,
           lifetime[<<u, g>>] \subseteq lifetime'[<<u, g>>]
    PROVE  Played(u, g) \subseteq Played(u, g)'
<1> DEFINE Seen == {t \in 0..(now - 1) : \E r \in SessionsOf(u, g) : t \in Covers(r)}
<1>1. Played(u, g) = Seen \cup lifetime[<<u, g>>]
  BY DEF Played, Covers
<1>2. Seen' = {t \in 0..(now' - 1) : \E r \in SessionsOf(u, g)' : t \in Covers(r)'}
  OBVIOUS
<1>3. Played(u, g)' = Seen' \cup lifetime'[<<u, g>>]
  BY DEF Played, Covers
<1>4. ASSUME NEW t \in Seen PROVE t \in Seen'
  <2>1. PICK r \in SessionsOf(u, g) : t \in Covers(r)
    BY <1>4
  <2>2. r \in rows /\ r.user = u /\ r.game = g
    BY DEF SessionsOf
  <2>3. PICK x \in rows' : Keeps(r, x)
    BY <2>2, RowsAreKept
  <2>4. t \in Covers(x)'
    BY <2>1, <2>2, <2>3, CoversGrow
  <2>5. x \in SessionsOf(u, g)'
    BY <2>2, <2>3 DEF SessionsOf, Keeps
  <2>6. t \in 0..(now' - 1)
    BY <2>4 DEF Covers
  <2>7. QED
    BY <1>2, <2>4, <2>5, <2>6
<1> HIDE DEF Seen
<1>5. QED
  BY <1>1, <1>3, <1>4

(* What a step of the table or the clock, with no sync in it, does to the  *)
(* imports.                                                                *)
Grows ==
    /\ UNCHANGED ext
    /\ \A u \in Users, g \in SteamGames :
          /\ lifetime[<<u, g>>] \subseteq lifetime'[<<u, g>>]
          /\ lifetime'[<<u, g>>] \subseteq 0..(now' - 1)

LEMMA GrowingKeepsCInv ==
    ASSUME CInv, PInv', [Next]_vars, Grows
    PROVE  CInv'
<1>1. IInv /\ IInv' /\ now \in Nat /\ now' \in Nat /\ now <= now'
  BY DEF CInv, PInv, IInv, TypeOK, Next, StartSession, EndSession, EndClientSessions, Tick, vars
<1>2. IsFiniteSet(rows)'
  BY RowsStayFinite DEF CInv
<1>3. Counted'
  BY DEF Counted, Grows
<1>4. ext' = ext /\ ext \subseteq Imports /\ \A e \in ext : e.synced <= now
  BY DEF Grows, CInv, ImportsFit
<1>5. ASSUME NEW e \in ext PROVE Doubled(e.user, e.game)' \/ Fits(e)'
  <2>1. PICK u \in Users, g \in SteamGames, s \in Nat, n \in Nat :
           u = e.user /\ g = e.game /\ s = e.synced /\ n = e.total
    BY <1>4, <1>5 DEF Imports
  <2>2. CASE Doubled(u, g)
    <3>1. Doubled(u, g)'
      BY <1>1, <2>2, DoubledStays
    <3>2. QED
      BY <2>1, <3>1
  <2>3. CASE ~Doubled(u, g)
    <3>1. n <= Cardinality(Played(u, g) \cap 0..(s - 1))
      BY <2>1, <2>3 DEF CInv, ImportsFit, Fits
    <3>2. PICK A, B : A = Played(u, g) /\ B = Played(u, g)'
      OBVIOUS
    <3>3. A \subseteq B
      BY <1>1, <3>2, PlayedGrows DEF Grows
    <3>4. IsFiniteSet(B)
      <4>1. B \in SUBSET (0..(now' - 1))
        BY <1>3, <3>2 DEF Played, Counted
      <4>2. IsFiniteSet(0..(now' - 1))
        BY <1>1, FS_Interval
      <4>3. QED
        BY <4>1, <4>2, FS_Subset
    <3>5. PICK C, D : C = A \cap 0..(s - 1) /\ D = B \cap 0..(s - 1)
      OBVIOUS
    <3>6. IsFiniteSet(D) /\ C \in SUBSET D
      BY <3>3, <3>4, <3>5, FS_Subset
    <3>7. Cardinality(C) <= Cardinality(D) /\ Cardinality(C) \in Nat /\ Cardinality(D) \in Nat
      BY <3>6, FS_Subset, FS_CardinalityType
    <3>8. n <= Cardinality(B \cap 0..(s - 1))
      BY <3>1, <3>2, <3>5, <3>7
    <3>9. Fits(e)' <=> n <= Cardinality(B \cap 0..(s - 1))
      BY <2>1, <3>2 DEF Fits
    <3>10. QED
      BY <3>8, <3>9
  <2>4. QED
    BY <2>2, <2>3
<1>6. ImportsFit'
  <2>1. \A e \in ext : e.synced <= now'
    BY <1>1, <1>4 DEF Imports
  <2>2. \A e, f \in ext : e.user = f.user /\ e.game = f.game => e = f
    BY DEF CInv, ImportsFit
  <2>3. QED
    BY <1>4, <1>5, <2>1, <2>2 DEF ImportsFit
<1>7. QED
  BY <1>2, <1>3, <1>6 DEF CInv

(* What is shown of a game no two sessions of which share a tick. *)
LEMMA ShownFits ==
    ASSUME CInv, NEW u \in Users, NEW g \in SteamGames
    PROVE  /\ ~Doubled(u, g) => Seconds(SessionsOf(u, g)) <= Cardinality(Played(u, g))
           /\ \A e \in Imported(u, g) :
                 /\ e.total + Seconds(Since(u, g, e.synced)) \in Nat
                 /\ Seconds(Since(u, g, e.synced)) \in Nat
                 /\ ~Doubled(u, g) => e.total + Seconds(Since(u, g, e.synced))
                                         <= Cardinality(Played(u, g))
<1>1. TypeOK /\ now \in Nat /\ IsFiniteSet(rows) /\ Counted
  BY DEF CInv, PInv, IInv, TypeOK
<1>2. PICK A : A = Played(u, g)
  OBVIOUS
<1>3. IsFiniteSet(A) /\ Cardinality(A) \in Nat /\ A \subseteq 0..(now - 1)
  BY <1>1, <1>2, PlayedFinite
<1>4. ASSUME NEW R \in SUBSET SessionsOf(u, g)
      PROVE  /\ R \in SUBSET rows /\ IsFiniteSet(R)
             /\ Seconds(R) \in Nat
             /\ ~Doubled(u, g) => Seconds(R) <= Cardinality(Covered(R))
             /\ Covered(R) \in SUBSET A
             /\ Cardinality(Covered(R)) \in Nat
  <2>1. R \in SUBSET rows /\ IsFiniteSet(R)
    BY <1>1, FS_Subset DEF SessionsOf
  <2>2. ~Doubled(u, g) => Apart(R)
    BY DEF Doubled, Apart
  <2>3. Covered(R) \in SUBSET A
    BY <1>2 DEF Covered, Covers, Played
  <2>4. QED
    BY <1>1, <2>1, <2>2, <2>3, SecondsCovered, CoveredFinite
<1>5. ASSUME ~Doubled(u, g) PROVE Seconds(SessionsOf(u, g)) <= Cardinality(A)
  <2>1. PICK R : R = SessionsOf(u, g)
    OBVIOUS
  <2>2. Cardinality(Covered(R)) <= Cardinality(A)
    BY <1>3, <1>4, <2>1, FS_Subset
  <2>3. QED
    BY <1>3, <1>4, <1>5, <2>1, <2>2
<1>6. ASSUME NEW e \in Imported(u, g)
      PROVE  /\ e.total + Seconds(Since(u, g, e.synced)) \in Nat
             /\ Seconds(Since(u, g, e.synced)) \in Nat
             /\ ~Doubled(u, g) => e.total + Seconds(Since(u, g, e.synced)) <= Cardinality(A)
  <2>1. e \in ext /\ e.user = u /\ e.game = g
    BY DEF Imported
  <2>2. PICK s \in Nat, n \in Nat : s = e.synced /\ n = e.total /\ s <= now
    BY <2>1 DEF CInv, ImportsFit, Imports
  <2>3. PICK R : R = Since(u, g, s)
    OBVIOUS
  <2>4. R \in SUBSET SessionsOf(u, g)
    BY <2>3 DEF Since
  <2>5. Seconds(R) \in Nat
    BY <1>4, <2>4
  <2>6. ASSUME ~Doubled(u, g) PROVE n + Seconds(R) <= Cardinality(A)
    <3>1. PICK B, C : B = A \cap 0..(s - 1) /\ C = Covered(R)
      OBVIOUS
    <3>2. n <= Cardinality(B)
      BY <1>2, <2>1, <2>2, <2>6, <3>1 DEF CInv, ImportsFit, Fits
    <3>3. Seconds(R) <= Cardinality(C) /\ C \in SUBSET A /\ Cardinality(C) \in Nat
      BY <1>4, <2>4, <2>6, <3>1
    <3>4. B \cap C = {}
      <4>1. \A r \in R : r.start > s /\ r.start \in Nat
        BY <1>1, <1>4, <2>3, <2>4 DEF Since, TypeOK, Rows
      <4>2. QED
        BY <2>2, <3>1, <4>1 DEF Covered, Covers
    <3>5. IsFiniteSet(B) /\ IsFiniteSet(C) /\ B \cup C \in SUBSET A
      BY <1>3, <3>1, <3>3, FS_Subset
    <3>6. Cardinality(B) \in Nat /\ Cardinality(B \cap C) = 0
      BY <3>4, <3>5, FS_CardinalityType, FS_EmptySet
    <3>7. Cardinality(B \cup C) = Cardinality(B) + Cardinality(C) - Cardinality(B \cap C)
      BY <3>5, FS_Union
    <3>8. Cardinality(B \cup C) <= Cardinality(A)
      BY <1>3, <3>5, FS_Subset
    <3>9. QED
      BY <1>3, <2>2, <2>5, <3>2, <3>3, <3>6, <3>7, <3>8
  <2>7. QED
    BY <2>2, <2>3, <2>5, <2>6
<1>7. QED
  BY <1>2, <1>5, <1>6

(* A sync replaces the import of the game, or is the first. *)
LEMMA SyncKeepsCInv ==
    ASSUME CInv, PInv', NEW u \in Users, NEW g \in SteamGames,
           NEW platform \in 0..Cardinality(lifetime[<<u, g>>]), Sync(u, g, platform)
    PROVE  CInv'
<1>1. /\ now \in Nat /\ Counted /\ ImportsFit /\ IsFiniteSet(rows)
      /\ UNCHANGED <<rows, now, lifetime>>
  BY DEF CInv, PInv, IInv, TypeOK, Sync
<1>2. PICK A : A = Played(u, g)
  OBVIOUS
<1>3. IsFiniteSet(A) /\ Cardinality(A) \in Nat /\ A \subseteq 0..(now - 1)
  BY <1>1, <1>2, PlayedFinite
<1>4. platform \in Nat /\ platform <= Cardinality(A)
  <2>1. lifetime[<<u, g>>] \in SUBSET A
    BY <1>2 DEF Played
  <2>2. Cardinality(lifetime[<<u, g>>]) <= Cardinality(A)
        /\ Cardinality(lifetime[<<u, g>>]) \in Nat
    BY <1>3, <2>1, FS_Subset, FS_CardinalityType
  <2>3. QED
    BY <1>3, <2>2
<1>5. PICK n \in Imports :
         /\ n.user = u /\ n.game = g /\ n.synced = now
         /\ Doubled(u, g) \/ n.total <= Cardinality(A)
         /\ ext' = {e \in ext : ~(e.user = u /\ e.game = g)} \cup {n}
  <2>1. CASE Imported(u, g) = {}
    <3>1. PICK n : n = [user |-> u, game |-> g, total |-> platform, synced |-> now]
      OBVIOUS
    <3>2. n \in Imports /\ n.user = u /\ n.game = g /\ n.synced = now /\ n.total = platform
      BY <1>1, <1>4, <3>1 DEF Imports
    <3>3. ext' = ext \cup {n}
      BY <2>1, <3>1 DEF Sync
    <3>4. ext = {e \in ext : ~(e.user = u /\ e.game = g)}
      BY <2>1 DEF Imported
    <3>5. QED
      BY <1>4, <3>2, <3>3, <3>4
  <2>2. CASE Imported(u, g) # {}
    <3>1. PICK e \in ext : e.user = u /\ e.game = g /\ e \in Imported(u, g) /\ e \in Imports
      BY <1>1, <2>2 DEF Imported, ImportsFit
    <3>2. Imported(u, g) = {e}
      BY <1>1, <3>1 DEF Imported, ImportsFit
    <3>3. PICK v : v = e.total + Seconds(Since(e.user, e.game, e.synced))
      OBVIOUS
    <3>4. v \in Nat /\ (~Doubled(u, g) => v <= Cardinality(A))
      BY <1>2, <3>1, <3>3, ShownFits
    <3>5. PICK w \in Nat : /\ w = IF platform > v THEN platform ELSE v
                           /\ ~Doubled(u, g) => w <= Cardinality(A)
      BY <1>4, <3>4
    <3>6. Resynced(e, platform) = [e EXCEPT !.total = w, !.synced = now]
      BY <3>1, <3>3, <3>5 DEF Resynced, Imports
    <3>7. PICK n : n = Resynced(e, platform)
      OBVIOUS
    <3>8. n \in Imports /\ n.user = u /\ n.game = g /\ n.synced = now /\ n.total = w
      BY <1>1, <3>1, <3>5, <3>6, <3>7 DEF Imports
    <3>9. ext' = (ext \ {e}) \cup {n}
      BY <2>2, <3>1, <3>2, <3>7 DEF Sync
    <3>10. ext \ {e} = {x \in ext : ~(x.user = u /\ x.game = g)}
      BY <3>1, <3>2 DEF Imported
    <3>11. QED
      BY <3>5, <3>8, <3>9, <3>10
  <2>3. QED
    BY <2>1, <2>2
<1>6. Counted'
  BY <1>1 DEF Counted
<1>7. \A x, y : (Doubled(x, y)' <=> Doubled(x, y)) /\ Played(x, y)' = Played(x, y)
  BY <1>1 DEF Doubled, SessionsOf, Covers, Played, IsOpen
<1>8. \A e : Fits(e)' <=> Fits(e)
  BY <1>7 DEF Fits
<1>9. Doubled(u, g) \/ Fits(n)
  <2>1. A \cap 0..(now - 1) = A
    BY <1>3
  <2>2. QED
    BY <1>2, <1>5, <2>1 DEF Fits
<1>10. ImportsFit'
  <2>1. ext' \subseteq Imports
    BY <1>1, <1>5 DEF ImportsFit
  <2>2. \A e \in ext' : e.synced <= now'
    BY <1>1, <1>5 DEF ImportsFit
  <2>3. \A e, f \in ext' : e.user = f.user /\ e.game = f.game => e = f
    BY <1>1, <1>5 DEF ImportsFit
  <2>4. \A e \in ext' : Doubled(e.user, e.game)' \/ Fits(e)'
    BY <1>1, <1>5, <1>7, <1>8, <1>9 DEF ImportsFit
  <2>5. QED
    BY <2>1, <2>2, <2>3, <2>4 DEF ImportsFit
<1>11. QED
  BY <1>1, <1>6, <1>10 DEF CInv

(* Every step but a sync adds to what was played, and to nothing else. *)
LEMMA CInductive == CInv /\ [PlayNext]_playVars => CInv'
<1> SUFFICES ASSUME CInv, [PlayNext]_playVars PROVE CInv'
  OBVIOUS
<1>1. PInv /\ PInv' /\ [Next]_vars
  BY PInductive, StepsOfTheTable DEF CInv
<1>2. now \in Nat /\ now' \in Nat /\ now <= now'
  BY <1>1 DEF PInv, IInv, TypeOK, Next, StartSession, EndSession, EndClientSessions, Tick, vars
<1>3. ASSUME UNCHANGED <<lifetime, ext>> PROVE CInv'
  <2>1. Grows
    BY <1>2, <1>3 DEF Grows, CInv, Counted
  <2>2. QED
    BY <1>1, <2>1, GrowingKeepsCInv
<1>4. ASSUME NEW u \in Users, ClientStep(u) PROVE CInv'
  BY <1>3, <1>4 DEF ClientStep
<1>5. ASSUME NEW u, NEW playing, Reconcile(u, playing) PROVE CInv'
  BY <1>3, <1>5 DEF Reconcile
<1>6. CASE EndPrevious \/ StartNext
  BY <1>3, <1>6 DEF EndPrevious, StartNext
<1>7. ASSUME NEW u \in Users, NEW g \in SteamGames,
             NEW platform \in 0..Cardinality(lifetime[<<u, g>>]), Sync(u, g, platform)
      PROVE  CInv'
  BY <1>1, <1>7, SyncKeepsCInv
<1>8. ASSUME NEW S \in SUBSET (Users \X SteamGames), PlayTick(S) PROVE CInv'
  <2>1. now' = now + 1 /\ UNCHANGED ext
    BY <1>8 DEF PlayTick, Tick
  <2>2. ASSUME NEW u \in Users, NEW g \in SteamGames
        PROVE  /\ lifetime[<<u, g>>] \subseteq lifetime'[<<u, g>>]
               /\ lifetime'[<<u, g>>] \subseteq 0..(now' - 1)
    <3>1. PICK k \in Users \X SteamGames : k = <<u, g>>
      OBVIOUS
    <3>2. lifetime'[k] \subseteq lifetime[k] \cup {now} /\ lifetime[k] \subseteq lifetime'[k]
      BY <1>8 DEF PlayTick
    <3>3. lifetime[k] \subseteq 0..(now - 1)
      BY <3>1 DEF CInv, Counted
    <3>4. QED
      BY <1>2, <2>1, <3>1, <3>2, <3>3
  <2>3. QED
    BY <1>1, <2>1, <2>2, GrowingKeepsCInv DEF Grows
<1>9. CASE UNCHANGED playVars
  BY <1>3, <1>9 DEF playVars
<1>10. QED
  BY <1>4, <1>5, <1>6, <1>7, <1>8, <1>9 DEF PlayNext

(* A tick two sessions cover is one they overlap at. *)
LEMMA CountedFits == CInv => NeverDoubled
<1> SUFFICES ASSUME CInv, NEW u \in Users, NEW g \in SteamGames
             PROVE  \/ Effective(u, g) <= Cardinality(Played(u, g))
                    \/ \E r, q \in SessionsOf(u, g) : r # q /\ Overlap(r, q)
  BY DEF NeverDoubled
<1>1. CASE Doubled(u, g)
  <2>1. PICK r \in SessionsOf(u, g), q \in SessionsOf(u, g) :
           r # q /\ Covers(r) \cap Covers(q) # {}
    BY <1>1 DEF Doubled
  <2>2. PICK t \in 0..(now - 1) : t \in Covers(r) /\ t \in Covers(q)
    BY <2>1 DEF Covers
  <2>3. r \in Rows /\ q \in Rows /\ now \in Nat
    BY DEF SessionsOf, CInv, PInv, IInv, TypeOK
  <2>4. Overlap(r, q)
    BY <2>2, <2>3 DEF Overlap, Covers, Rows, IsOpen
  <2>5. QED
    BY <2>1, <2>4
<1>2. CASE ~Doubled(u, g) /\ Imported(u, g) = {}
  BY <1>2, ShownFits DEF Effective
<1>3. CASE ~Doubled(u, g) /\ Imported(u, g) # {}
  <2>1. PICK e \in Imported(u, g) : Imported(u, g) = {e}
    BY <1>3 DEF Imported, CInv, ImportsFit
  <2>2. /\ e.total \in Nat /\ Seconds(Since(u, g, e.synced)) \in Nat
        /\ e.total + Seconds(Since(u, g, e.synced)) <= Cardinality(Played(u, g))
    BY <1>3, ShownFits DEF Imported, CInv, ImportsFit, Imports
  <2>3. Effective(u, g) = e.total + Seconds(Since(u, g, e.synced))
    BY <2>1, <2>2, EffectiveOfOne
  <2>4. QED
    BY <2>2, <2>3
<1>4. QED
  BY <1>1, <1>2, <1>3

LEMMA CInvariantHolds == PlaySpec => []CInv
<1>1. PlayInit => CInv
  <2> SUFFICES ASSUME PlayInit PROVE CInv
    OBVIOUS
  <2>1. PInv
    BY DEF PlayInit, Init, PInv, IInv, TypeOK, OneOpenPerGame, FlapsAreMerged, Single,
           OneConsoleSession
  <2>2. IsFiniteSet(rows)
    BY FS_EmptySet DEF PlayInit, Init
  <2>3. Counted
    BY DEF PlayInit, Counted
  <2>4. ImportsFit
    BY DEF PlayInit, ImportsFit
  <2>5. QED
    BY <2>1, <2>2, <2>3, <2>4 DEF CInv
<1>2. QED
  BY <1>1, CInductive, PTL DEF PlaySpec

(* effectivePlaytimeSeconds: what is shown of a game is never more than    *)
(* what was played, although the client and Steam both count it, unless    *)
(* two sources recorded sessions that overlap.  An import fits the ticks   *)
(* before its sync, the sessions since cover ticks after it, and neither   *)
(* changes by the other's writes: syncedBaseline restarts the window with  *)
(* the figure.                                                             *)
THEOREM CountedOnce == PlaySpec => []NeverDoubled
  BY CInvariantHolds, CountedFits, PTL

-----------------------------------------------------------------------------
(* What the pages show.  Each computes it anew from the tables, and all    *)
(* come to Effective: the lines below give what each query answers in      *)
(* terms of it.                                                            *)

PageInv ==
    /\ TypeOK /\ FlapsAreMerged
    /\ IsFiniteSet(rows)
    /\ ext \subseteq Imports
    /\ \A e, f \in ext : e.user = f.user /\ e.game = f.game => e = f

Lasts == [r \in rows |-> Duration(r)]

LEMMA SecondsSums ==
    ASSUME PageInv, NEW R \in SUBSET rows
    PROVE  /\ IsFiniteSet(R) /\ Counts(Lasts, R)
           /\ Seconds(R) = SumFunctionOnSet(Lasts, R)
           /\ Seconds(R) \in Nat
<1>1. TypeOK /\ IsFiniteSet(R)
  BY FS_Subset DEF PageInv
<1>2. Counts(Lasts, R)
  BY <1>1, CoversCounts DEF Counts, Lasts
<1>3. PICK h : /\ Seconds(R) = h[R]
               /\ h = [s \in SUBSET R |-> IF s = {} THEN 0
                                 ELSE Duration(First(s)) + h[s \ {First(s)}]]
  BY <1>1, SecondsSum
<1>4. \A s \in SUBSET R : s # {} => Lasts[First(s)] = Duration(First(s))
  BY DEF First, Lasts
<1>5. Sums(Lasts, R, h)
  BY <1>3, <1>4 DEF Sums
<1>6. PICK k : Sums(Lasts, R, k) /\ SumFunctionOnSet(Lasts, R) = k[R]
  BY <1>1, SumIs
<1>7. h[R] = k[R]
  BY <1>1, <1>5, <1>6, SumsAgree
<1>8. SumFunctionOnSet(Lasts, R) \in Nat
  BY <1>1, <1>2, SumNat
<1>9. QED
  BY <1>1, <1>2, <1>3, <1>6, <1>7, <1>8

LEMMA TotalOfOne ==
    ASSUME NEW e, e.total \in Nat
    PROVE  MapThenSumSet(LAMBDA x : x.total, {e}) = e.total
<1> DEFINE Q(h) == h = [s \in SUBSET {e} |-> IF s = {} THEN 0
                                    ELSE First(s).total + h[s \ {First(s)}]]
<1>1. MapThenSumSet(LAMBDA x : x.total, {e}) = (CHOOSE h : Q(h))[{e}]
  BY DEF MapThenSumSet, MapThenFoldSet, First
<1>2. PICK h : h = [s \in SUBSET {e} |-> IF s = {} THEN 0 ELSE e.total]
  OBVIOUS
<1>3. \A s \in SUBSET {e} : s # {} => s = {e} /\ First(s) = e /\ s \ {First(s)} = {}
  BY DEF First
<1>4. \A s \in SUBSET {e} : s # {} => First(s).total + h[s \ {First(s)}] = e.total
  BY <1>2, <1>3
<1>5. Q(h)
  BY <1>2, <1>4
<1> HIDE DEF Q
<1>6. Q(CHOOSE k : Q(k))
  BY <1>5
<1>7. PICK k : k = (CHOOSE x : Q(x))
  OBVIOUS
<1>8. k = [s \in SUBSET {e} |-> IF s = {} THEN 0
                        ELSE First(s).total + k[s \ {First(s)}]]
  BY <1>6, <1>7 DEF Q
<1>9. First({e}) = e /\ {e} \ {First({e})} = {}
  BY <1>3
<1>10. k[{e}] = e.total + k[{}] /\ k[{}] = 0
  BY <1>8, <1>9
<1>11. QED
  BY <1>1, <1>7, <1>10

(* The merge every query spells out is effectivePlaytimeSeconds. *)
LEMMA MergedIsEffective ==
    ASSUME PageInv, NEW u, NEW g
    PROVE  /\ Merged(SessionsOf(u, g), Imported(u, g)) = Effective(u, g)
           /\ Effective(u, g) \in Nat
           /\ Effective(u, g) > 0 => SessionsOf(u, g) \cup Imported(u, g) # {}
<1>1. CASE Imported(u, g) = {}
  <2>1. Effective(u, g) = Seconds(SessionsOf(u, g))
    BY <1>1 DEF Effective
  <2>2. SessionsOf(u, g) \in SUBSET rows
    BY DEF SessionsOf
  <2>3. Seconds(SessionsOf(u, g)) \in Nat
    BY <2>2, SecondsSums
  <2>4. SessionsOf(u, g) = {} => Seconds(SessionsOf(u, g)) = 0
    BY <2>2, SecondsSums, SumEmpty
  <2>5. Merged(SessionsOf(u, g), Imported(u, g)) = Seconds(SessionsOf(u, g))
    BY <1>1 DEF Merged
  <2>6. QED
    BY <2>1, <2>3, <2>4, <2>5
<1>2. CASE Imported(u, g) # {}
  <2>1. PICK e : Imported(u, g) = {e} /\ e \in ext
    BY <1>2 DEF Imported, PageInv
  <2>2. e.total \in Nat
    BY <2>1 DEF PageInv, Imports
  <2>3. Since(u, g, e.synced) \in SUBSET rows
    BY DEF Since, SessionsOf
  <2>4. Seconds(Since(u, g, e.synced)) \in Nat
    BY <2>3, SecondsSums
  <2>5. Effective(u, g) = e.total + Seconds(Since(u, g, e.synced))
    BY <2>1, <2>2, <2>4, EffectiveOfOne
  <2>6. {r \in SessionsOf(u, g) : \A x \in {e} : r.start > x.synced} = Since(u, g, e.synced)
    BY DEF Since
  <2>7. Merged(SessionsOf(u, g), {e}) = e.total + Seconds(Since(u, g, e.synced))
    <3>1. {e} # {}
      OBVIOUS
    <3>2. Merged(SessionsOf(u, g), {e}) = MapThenSumSet(LAMBDA x : x.total, {e})
              + Seconds({r \in SessionsOf(u, g) : \A x \in {e} : r.start > x.synced})
      BY <3>1 DEF Merged
    <3>3. MapThenSumSet(LAMBDA x : x.total, {e}) = e.total
      BY <2>2, TotalOfOne
    <3>4. QED
      BY <2>6, <3>2, <3>3
  <2>8. QED
    BY <1>2, <2>1, <2>2, <2>4, <2>5, <2>7
<1>3. QED
  BY <1>1, <1>2

(* The lines of a game: who played it, and how long. *)
Line(g, out) ==
    [u \in {v \in Users \ out : Effective(v, g) > 0} |-> Effective(u, g)]

LEMMA LinesOf ==
    ASSUME PageInv, NEW g, NEW out
    PROVE  Without(Secs(g), out) = Line(g, out)
<1> DEFINE S == {r \in rows : r.game = g}
           E == {e \in ext : e.game = g}
           D == {x.user : x \in S} \cup {x.user : x \in E}
<1>1. ASSUME NEW u PROVE {r \in S : r.user = u} = SessionsOf(u, g) /\ {e \in E : e.user = u} = Imported(u, g)
  BY DEF SessionsOf, Imported
<1>2. PICK f : f = [u \in D |-> Effective(u, g)]
  OBVIOUS
<1>3. Secs(g) = f
  <2>1. Secs(g) = [u \in D |-> Merged({r \in S : r.user = u}, {e \in E : e.user = u})]
    BY DEF Secs
  <2>2. Secs(g) = [u \in D |-> Merged(SessionsOf(u, g), Imported(u, g))]
    BY <1>1, <2>1
  <2>3. QED
    BY <1>2, <2>2, MergedIsEffective
<1>4. D \subseteq Users
  BY DEF PageInv, TypeOK, Rows, Imports
<1>5. ASSUME NEW u, Effective(u, g) > 0 PROVE u \in D
  <2>1. PICK x : x \in SessionsOf(u, g) \cup Imported(u, g)
    BY <1>5, MergedIsEffective
  <2>2. x \in S \cup E /\ x.user = u
    BY <2>1 DEF SessionsOf, Imported
  <2>3. QED
    BY <2>2
<1> HIDE DEF D
<1>6. {j \in D \ out : f[j] > 0} = {v \in Users \ out : Effective(v, g) > 0}
  BY <1>2, <1>4, <1>5
<1>7. DOMAIN f = D
  BY <1>2
<1>8. QED
  BY <1>2, <1>3, <1>6, <1>7 DEF Without, Line

LEMMA StatsOf ==
    ASSUME PageInv, NEW u, NEW hidden
    PROVE  GameStats(u, hidden) =
              [g \in {h \in Games \ hidden : Effective(u, h) > 0} |-> Effective(u, g)]
<1> DEFINE S == {r \in rows : r.user = u}
           E == {e \in ext : e.user = u}
           D == ({r.game : r \in S} \cup {e.game : e \in E}) \ hidden
<1>1. ASSUME NEW g PROVE {r \in S : r.game = g} = SessionsOf(u, g) /\ {e \in E : e.game = g} = Imported(u, g)
  BY DEF SessionsOf, Imported
<1>2. PICK f : f = [g \in D |-> Effective(u, g)]
  OBVIOUS
<1>3. GameStats(u, hidden) = Positive(f)
  <2>1. GameStats(u, hidden) = Positive([g \in D |-> Merged({r \in S : r.game = g}, {e \in E : e.game = g})])
    BY DEF GameStats
  <2>2. [g \in D |-> Merged({r \in S : r.game = g}, {e \in E : e.game = g})]
          = [g \in D |-> Merged(SessionsOf(u, g), Imported(u, g))]
    BY <1>1
  <2>3. [g \in D |-> Merged(SessionsOf(u, g), Imported(u, g))] = f
    BY <1>2, MergedIsEffective
  <2>4. QED
    BY <2>1, <2>2, <2>3
<1>4. D \subseteq Games \ hidden
  BY LibraryAssumption DEF PageInv, TypeOK, Rows, Imports
<1>5. ASSUME NEW g, g \notin hidden, Effective(u, g) > 0 PROVE g \in D
  <2>1. PICK x : x \in SessionsOf(u, g) \cup Imported(u, g)
    BY <1>5, MergedIsEffective
  <2>2. x \in S \cup E /\ x.game = g
    BY <2>1 DEF SessionsOf, Imported
  <2>3. QED
    BY <1>5, <2>2
<1> HIDE DEF D
<1>6. {j \in D \ {} : f[j] > 0} = {h \in Games \ hidden : Effective(u, h) > 0}
  BY <1>2, <1>4, <1>5
<1>7. DOMAIN f = D
  BY <1>2
<1>8. QED
  BY <1>2, <1>3, <1>6, <1>7 DEF Positive, Without

LEMMA LineCounts ==
    ASSUME PageInv, NEW g, NEW out
    PROVE  IsFiniteSet(DOMAIN Line(g, out)) /\ Counts(Line(g, out), DOMAIN Line(g, out))
<1>1. DOMAIN Line(g, out) \in SUBSET Users /\ IsFiniteSet(Users)
  BY MembersAssumption DEF Line
<1>2. Counts(Line(g, out), DOMAIN Line(g, out))
  BY MergedIsEffective DEF Counts, Line
<1>3. QED
  BY <1>1, <1>2, FS_Subset

(* ListPlayedGames groups by game and member, then by game. *)
LEMMA PlayedOf ==
    ASSUME PageInv, NEW banned, NEW hidden
    PROVE  /\ DOMAIN PlayedGames(banned, hidden)
                 = {g \in Games \ hidden : DOMAIN Line(g, banned) # {}}
           /\ \A g \in DOMAIN PlayedGames(banned, hidden) :
                 PlayedGames(banned, hidden)[g] = [secs |-> SumFunction(Line(g, banned)),
                                                   players |-> Cardinality(DOMAIN Line(g, banned))]
<1> DEFINE K == {<<x.game, x.user>> : x \in rows \cup ext}
           F(k) == Merged({r \in rows : r.game = k[1] /\ r.user = k[2]},
                          {e \in ext : e.game = k[1] /\ e.user = k[2]})
           pp == [k \in K |-> F(k)]
           D == {j \in DOMAIN pp : pp[j] > 0 /\ j[2] \notin banned}
           f == [k \in D |-> pp[k]]
           res == [g \in {k[1] : k \in DOMAIN f} \ hidden |->
                     [secs |-> SumFunction([k \in {j \in DOMAIN f : j[1] = g} |-> f[k]]),
                      players |-> Cardinality({k \in DOMAIN f : k[1] = g})]]
<1>1. PlayedGames(banned, hidden) = res
  BY DEF PlayedGames
<1>2. ASSUME NEW k PROVE F(k) = Effective(k[2], k[1])
  <2>1. /\ {r \in rows : r.game = k[1] /\ r.user = k[2]} = SessionsOf(k[2], k[1])
        /\ {e \in ext : e.game = k[1] /\ e.user = k[2]} = Imported(k[2], k[1])
    BY DEF SessionsOf, Imported
  <2>2. QED
    BY <2>1, MergedIsEffective
<1>3. ASSUME NEW g, NEW u, Effective(u, g) > 0 PROVE <<g, u>> \in K
  <2>1. PICK x : x \in SessionsOf(u, g) \cup Imported(u, g)
    BY <1>3, MergedIsEffective
  <2>2. x \in rows \cup ext /\ x.game = g /\ x.user = u
    BY <2>1 DEF SessionsOf, Imported
  <2>3. QED
    BY <2>2
<1>4. ASSUME NEW k \in K PROVE k = <<k[1], k[2]>> /\ k[1] \in Games /\ k[2] \in Users
  BY LibraryAssumption DEF PageInv, TypeOK, Rows, Imports
<1> HIDE DEF F, K
<1>5. \A k : k \in D <=> /\ k \in K /\ Effective(k[2], k[1]) > 0 /\ k[2] \notin banned
  BY <1>2
<1>6. ASSUME NEW g PROVE {j \in D : j[1] = g} = {<<g, u>> : u \in DOMAIN Line(g, banned)}
  <2>1. ASSUME NEW j \in D, j[1] = g PROVE j[2] \in DOMAIN Line(g, banned) /\ j = <<g, j[2]>>
    BY <1>4, <1>5, <2>1 DEF Line
  <2>2. ASSUME NEW u \in DOMAIN Line(g, banned) PROVE <<g, u>> \in D
    BY <1>3, <1>5 DEF Line
  <2> HIDE DEF D
  <2>3. QED
    BY <2>1, <2>2
<1>7. \A k \in D : f[k] = Effective(k[2], k[1])
  BY <1>2, <1>5
<1>8. DOMAIN f = D
  OBVIOUS
<1> HIDE DEF D, f
<1>9. DOMAIN res = {g \in Games \ hidden : DOMAIN Line(g, banned) # {}}
  <2>1. ASSUME NEW k \in D PROVE k[1] \in Games /\ DOMAIN Line(k[1], banned) # {}
    <3>1. k \in {j \in D : j[1] = k[1]}
      OBVIOUS
    <3>2. k \in {<<k[1], u>> : u \in DOMAIN Line(k[1], banned)}
      BY <1>6, <3>1
    <3>3. QED
      BY <1>4, <1>5, <3>2
  <2>2. ASSUME NEW g, DOMAIN Line(g, banned) # {} PROVE \E k \in D : k[1] = g
    <3>1. PICK u \in DOMAIN Line(g, banned) : TRUE
      BY <2>2
    <3>2. <<g, u>> \in {j \in D : j[1] = g}
      BY <1>6, <3>1
    <3>3. QED
      BY <3>2
  <2>3. DOMAIN res = {k[1] : k \in D} \ hidden
    BY <1>8
  <2>4. QED
    BY <2>1, <2>2, <2>3
<1>10. ASSUME NEW g \in DOMAIN res
       PROVE  res[g] = [secs |-> SumFunction(Line(g, banned)),
                        players |-> Cardinality(DOMAIN Line(g, banned))]
  <2>1. PICK T : T = {j \in D : j[1] = g}
    OBVIOUS
  <2>2. PICK U : U = DOMAIN Line(g, banned)
    OBVIOUS
  <2>3. PICK c : c = [u \in U |-> <<g, u>>]
    OBVIOUS
  <2>4. PICK v : v = [k \in T |-> f[k]]
    OBVIOUS
  <2>5. T = {<<g, u>> : u \in U}
    BY <1>6, <2>1, <2>2
  <2>6. c \in Bijection(U, T)
    BY <2>3, <2>5 DEF Bijection, Injection, Surjection, IsInjective
  <2>7. \A u \in U : v[c[u]] = Line(g, banned)[u]
    <3> SUFFICES ASSUME NEW u \in U PROVE v[c[u]] = Line(g, banned)[u]
      OBVIOUS
    <3>1. c[u] = <<g, u>> /\ <<g, u>> \in T /\ <<g, u>> \in D
      BY <2>1, <2>3, <2>5
    <3>2. v[c[u]] = Effective(u, g)
      BY <1>7, <2>4, <3>1
    <3>3. QED
      BY <2>2, <3>2 DEF Line
  <2>8. IsFiniteSet(U) /\ Counts(Line(g, banned), U)
    BY <2>2, LineCounts
  <2>9. /\ SumFunctionOnSet(v, T) = SumFunctionOnSet(Line(g, banned), U)
        /\ Cardinality(T) = Cardinality(U)
    BY <2>6, <2>7, <2>8, SumRenamed
  <2>10. DOMAIN v = T
    BY <2>4
  <2>11. SumFunction(v) = SumFunction(Line(g, banned))
    BY <2>2, <2>9, <2>10 DEF SumFunction
  <2>12. res[g] = [secs |-> SumFunction(v), players |-> Cardinality(T)]
    BY <1>8, <2>1, <2>4
  <2>13. QED
    BY <2>2, <2>9, <2>11, <2>12
<1> HIDE DEF res
<1>11. QED
  BY <1>1, <1>9, <1>10

(* All that is shown, by game and member. *)
Pairs(banned, hidden) ==
    {k \in (Games \ hidden) \X (Users \ banned) : Effective(k[2], k[1]) > 0}

Amounts(banned, hidden) == [k \in Pairs(banned, hidden) |-> Effective(k[2], k[1])]

LEMMA AmountsAreCounts ==
    ASSUME PageInv, NEW banned, NEW hidden
    PROVE  /\ IsFiniteSet(Pairs(banned, hidden))
           /\ Counts(Amounts(banned, hidden), Pairs(banned, hidden))
<1>1. PICK A, B : A = Games \ hidden /\ B = Users \ banned
  OBVIOUS
<1>2. IsFiniteSet(A) /\ IsFiniteSet(B)
  BY <1>1, MembersAssumption, FS_Difference
<1>3. IsFiniteSet(A \X B)
  BY <1>2, FS_Product
<1>4. Pairs(banned, hidden) \in SUBSET (A \X B)
  BY <1>1 DEF Pairs
<1>5. Counts(Amounts(banned, hidden), Pairs(banned, hidden))
  BY MergedIsEffective DEF Counts, Amounts
<1>6. QED
  BY <1>3, <1>4, <1>5, FS_Subset

LEMMA StatsAreGroups ==
    ASSUME PageInv, NEW banned, NEW hidden, NEW u \in Users \ banned,
           NEW c, c = [k \in Pairs(banned, hidden) |-> k[2]]
    PROVE  SumFunction(GameStats(u, hidden))
              = SumFunctionOnSet(Amounts(banned, hidden), Group(Pairs(banned, hidden), c, u))
<1>1. PICK U : U = {h \in Games \ hidden : Effective(u, h) > 0}
  OBVIOUS
<1>2. PICK f : f = [g \in U |-> Effective(u, g)]
  OBVIOUS
<1>3. GameStats(u, hidden) = f
  BY <1>1, <1>2, StatsOf
<1>4. PICK T : T = Group(Pairs(banned, hidden), c, u)
  OBVIOUS
<1>5. \A k : k \in T <=> \E g \in U : k = <<g, u>>
  <2>1. ASSUME NEW k \in T PROVE k[1] \in U /\ k = <<k[1], u>>
    <3>1. k \in Pairs(banned, hidden) /\ c[k] = u
      BY <1>4 DEF Group
    <3>2. k[2] = u
      BY <3>1
    <3>3. k = <<k[1], k[2]>> /\ k[1] \in Games \ hidden /\ Effective(k[2], k[1]) > 0
      BY <3>1 DEF Pairs
    <3>4. QED
      BY <1>1, <3>2, <3>3
  <2>2. ASSUME NEW g \in U PROVE <<g, u>> \in T
    BY <1>1, <1>4 DEF Group, Pairs
  <2>3. QED
    BY <2>1, <2>2
<1>6. PICK e : e = [g \in U |-> <<g, u>>]
  OBVIOUS
<1>7. e \in Bijection(U, T)
  BY <1>5, <1>6 DEF Bijection, Injection, Surjection, IsInjective
<1>8. IsFiniteSet(U) /\ Counts(f, U)
  <2>1. U \in SUBSET Games
    BY <1>1
  <2>2. Counts(f, U)
    BY <1>2, MergedIsEffective DEF Counts
  <2>3. QED
    BY <2>1, <2>2, MembersAssumption, FS_Subset
<1>9. \A g \in U : Amounts(banned, hidden)[e[g]] = f[g]
  <2> SUFFICES ASSUME NEW g \in U PROVE Amounts(banned, hidden)[e[g]] = f[g]
    OBVIOUS
  <2>1. <<g, u>> \in Pairs(banned, hidden)
    BY <1>1 DEF Pairs
  <2>2. QED
    BY <1>2, <1>6, <2>1 DEF Amounts
<1>10. SumFunctionOnSet(Amounts(banned, hidden), T) = SumFunctionOnSet(f, U)
  BY <1>7, <1>8, <1>9, SumRenamed
<1>11. DOMAIN f = U
  BY <1>2
<1>12. QED
  BY <1>3, <1>4, <1>10, <1>11 DEF SumFunction

LEMMA LinesAreGroups ==
    ASSUME PageInv, NEW banned, NEW hidden, NEW g \in Games \ hidden,
           NEW c, c = [k \in Pairs(banned, hidden) |-> k[1]]
    PROVE  SumFunction(Line(g, banned))
              = SumFunctionOnSet(Amounts(banned, hidden), Group(Pairs(banned, hidden), c, g))
<1>1. PICK U : U = DOMAIN Line(g, banned)
  OBVIOUS
<1>2. PICK f : f = Line(g, banned)
  OBVIOUS
<1>3. \A u : u \in U <=> u \in Users \ banned /\ Effective(u, g) > 0
  BY <1>1 DEF Line
<1>4. PICK T : T = Group(Pairs(banned, hidden), c, g)
  OBVIOUS
<1>5. \A k : k \in T <=> \E u \in U : k = <<g, u>>
  <2>1. ASSUME NEW k \in T PROVE k[2] \in U /\ k = <<g, k[2]>>
    <3>1. k \in Pairs(banned, hidden) /\ c[k] = g
      BY <1>4 DEF Group
    <3>2. k[1] = g
      BY <3>1
    <3>3. k = <<k[1], k[2]>> /\ k[2] \in Users \ banned /\ Effective(k[2], k[1]) > 0
      BY <3>1 DEF Pairs
    <3>4. QED
      BY <1>3, <3>2, <3>3
  <2>2. ASSUME NEW u \in U PROVE <<g, u>> \in T
    BY <1>3, <1>4 DEF Group, Pairs
  <2>3. QED
    BY <2>1, <2>2
<1>6. PICK e : e = [u \in U |-> <<g, u>>]
  OBVIOUS
<1>7. e \in Bijection(U, T)
  BY <1>5, <1>6 DEF Bijection, Injection, Surjection, IsInjective
<1>8. IsFiniteSet(U) /\ Counts(f, U)
  BY <1>1, <1>2, LineCounts
<1>9. \A u \in U : Amounts(banned, hidden)[e[u]] = f[u]
  <2> SUFFICES ASSUME NEW u \in U PROVE Amounts(banned, hidden)[e[u]] = f[u]
    OBVIOUS
  <2>1. <<g, u>> \in Pairs(banned, hidden)
    BY <1>3 DEF Pairs
  <2>2. f[u] = Effective(u, g)
    BY <1>2, <1>3 DEF Line
  <2>3. QED
    BY <1>6, <2>1, <2>2 DEF Amounts
<1>10. SumFunctionOnSet(Amounts(banned, hidden), T) = SumFunctionOnSet(f, U)
  BY <1>7, <1>8, <1>9, SumRenamed
<1>11. QED
  BY <1>1, <1>2, <1>4, <1>10 DEF SumFunction

(* Profiles and games add up to the same. *)
LEMMA TotalsMeet ==
    ASSUME PageInv, NEW banned, NEW hidden
    PROVE  SumFunction([u \in Users \ banned |-> SumFunction(GameStats(u, hidden))])
              = SumFunction([g \in DOMAIN PlayedGames(banned, hidden) |->
                                PlayedGames(banned, hidden)[g].secs])
<1>1. PICK S, w : S = Pairs(banned, hidden) /\ w = Amounts(banned, hidden)
  OBVIOUS
<1>2. IsFiniteSet(S) /\ Counts(w, S)
  BY <1>1, AmountsAreCounts
<1>3. PICK U : U = Users \ banned
  OBVIOUS
<1>4. PICK f : f = [u \in U |-> SumFunction(GameStats(u, hidden))]
  OBVIOUS
<1>5. PICK c : c = [k \in S |-> k[2]]
  OBVIOUS
<1>6. SumFunctionOnSet(f, U) = SumFunctionOnSet(w, S)
  <2>1. \A k \in S : c[k] \in U
    BY <1>1, <1>3, <1>5 DEF Pairs
  <2>2. \A u \in U : f[u] = SumFunctionOnSet(w, Group(S, c, u))
    BY <1>1, <1>3, <1>4, <1>5, StatsAreGroups
  <2>3. IsFiniteSet(U)
    BY <1>3, MembersAssumption, FS_Difference
  <2>4. QED
    BY <1>2, <2>1, <2>2, <2>3, SumGroups
<1>7. PICK G : G = DOMAIN PlayedGames(banned, hidden)
  OBVIOUS
<1>8. PICK h : h = [g \in G |-> PlayedGames(banned, hidden)[g].secs]
  OBVIOUS
<1>9. PICK d : d = [k \in S |-> k[1]]
  OBVIOUS
<1>10. G = {g \in Games \ hidden : DOMAIN Line(g, banned) # {}}
  BY <1>7, PlayedOf
<1>11. SumFunctionOnSet(h, G) = SumFunctionOnSet(w, S)
  <2>1. \A k \in S : d[k] \in G
    <3> SUFFICES ASSUME NEW k \in S PROVE k[1] \in G
      BY <1>9
    <3>1. k[1] \in Games \ hidden /\ k[2] \in DOMAIN Line(k[1], banned)
      BY <1>1 DEF Pairs, Line
    <3>2. QED
      BY <1>10, <3>1
  <2>2. \A g \in G : h[g] = SumFunctionOnSet(w, Group(S, d, g))
    <3> SUFFICES ASSUME NEW g \in G PROVE h[g] = SumFunctionOnSet(w, Group(S, d, g))
      OBVIOUS
    <3>0. PlayedGames(banned, hidden)[g] = [secs |-> SumFunction(Line(g, banned)),
                                            players |-> Cardinality(DOMAIN Line(g, banned))]
      BY <1>7, PlayedOf
    <3>1. h[g] = SumFunction(Line(g, banned))
      BY <1>8, <3>0
    <3>2. g \in Games \ hidden
      BY <1>10
    <3>3. QED
      BY <1>1, <1>9, <3>1, <3>2, LinesAreGroups
  <2>3. IsFiniteSet(G)
    <3>1. G \in SUBSET Games
      BY <1>10
    <3>2. QED
      BY <3>1, MembersAssumption, FS_Subset
  <2>4. QED
    BY <1>2, <2>1, <2>2, <2>3, SumGroups
<1>12. DOMAIN f = U /\ DOMAIN h = G
  BY <1>4, <1>8
<1>13. SumFunction(f) = SumFunction(h)
  BY <1>6, <1>11, <1>12 DEF SumFunction
<1>14. QED
  BY <1>3, <1>4, <1>7, <1>8, <1>13

LEMMA LinesDoAgree ==
    ASSUME PageInv, NEW banned, NEW hiding, NEW hidden
    PROVE  LinesAgree(banned, hiding, hidden)
<1> DEFINE played == PlayedGames(banned, hidden)
           stats == [u \in Users |-> GameStats(u, hidden)]
           pages == PublicGames(banned, hiding, hidden)
<1>1. DOMAIN pages = Games \ hidden
  BY DEF PublicGames
<1>2. ASSUME NEW g \in Games \ hidden
      PROVE  /\ pages[g].board = Line(g, banned)
             /\ pages[g].totals = [secs |-> SumFunction(Line(g, {})),
                                   players |-> Cardinality(DOMAIN Line(g, {}))]
  <2>1. Board(g, FALSE, banned, hiding) = Line(g, banned)
    <3>1. banned \cup (IF FALSE THEN hiding ELSE {}) = banned
      OBVIOUS
    <3>2. QED
      BY <3>1, LinesOf DEF Board
  <2>2. Totals(g, FALSE, banned, hiding)
           = [secs |-> SumFunction(Line(g, {})), players |-> Cardinality(DOMAIN Line(g, {}))]
    BY LinesOf DEF Totals
  <2>3. pages[g] = GameDetail(g, banned, hiding, hidden)
    BY DEF PublicGames
  <2>4. /\ GameDetail(g, banned, hiding, hidden).board = Board(g, FALSE, banned, hiding)
        /\ GameDetail(g, banned, hiding, hidden).totals = Totals(g, FALSE, banned, hiding)
    BY DEF GameDetail
  <2> HIDE DEF pages
  <2>5. QED
    BY <2>1, <2>2, <2>3, <2>4
<1>3. ASSUME NEW g \in Games \ hidden, NEW u \in DOMAIN Line(g, banned)
      PROVE  Line(g, banned)[u] = stats[u][g]
  <2>1. u \in Users /\ Effective(u, g) > 0 /\ Line(g, banned)[u] = Effective(u, g)
    BY DEF Line
  <2>2. stats[u] = [h \in {j \in Games \ hidden : Effective(u, j) > 0} |-> Effective(u, h)]
    BY <2>1, StatsOf
  <2>3. g \in {j \in Games \ hidden : Effective(u, j) > 0}
    BY <2>1
  <2>4. QED
    BY <2>1, <2>2, <2>3
<1>4. ASSUME NEW g \in Games \ hidden PROVE g \in DOMAIN played <=> Line(g, banned) # <<>>
  <2>1. PICK f : f = Line(g, banned)
    OBVIOUS
  <2>2. f = [x \in DOMAIN f |-> f[x]]
    BY <2>1 DEF Line
  <2>3. f = <<>> <=> DOMAIN f = {}
    BY <2>2
  <2>4. DOMAIN played = {h \in Games \ hidden : DOMAIN Line(h, banned) # {}}
    BY PlayedOf
  <2> HIDE DEF played
  <2>5. QED
    BY <2>1, <2>3, <2>4
<1>5. ASSUME NEW g \in DOMAIN played
      PROVE  played[g] = [secs |-> SumFunction(Line(g, banned)),
                          players |-> Cardinality(DOMAIN Line(g, banned))]
  BY PlayedOf
<1>6. SumFunction([u \in Users \ banned |-> Profile(u, hidden).total])
         = SumFunction([g \in DOMAIN played |-> played[g].secs])
  <2>1. ASSUME NEW u PROVE Profile(u, hidden).total = SumFunction(GameStats(u, hidden))
    BY DEF Profile
  <2>2. PICK f : f = [u \in Users \ banned |-> SumFunction(GameStats(u, hidden))]
    OBVIOUS
  <2>3. [u \in Users \ banned |-> Profile(u, hidden).total] = f
    BY <2>1, <2>2
  <2>4. SumFunction(f) = SumFunction([g \in DOMAIN played |-> played[g].secs])
    BY <2>2, TotalsMeet
  <2>5. QED
    BY <2>3, <2>4
<1>7. \A g \in DOMAIN pages :
         LET p == pages[g]
         IN  /\ \A u \in DOMAIN p.board : p.board[u] = stats[u][g]
             /\ g \in DOMAIN played <=> p.board # <<>>
             /\ g \in DOMAIN played =>
                   /\ played[g].secs = SumFunction(p.board)
                   /\ played[g].players = Cardinality(DOMAIN p.board)
                   /\ banned = {} => played[g] = p.totals
  <2> HIDE DEF pages, played, stats
  <2> SUFFICES ASSUME NEW g \in Games \ hidden
               PROVE  /\ \A u \in DOMAIN pages[g].board : pages[g].board[u] = stats[u][g]
                      /\ g \in DOMAIN played <=> pages[g].board # <<>>
                      /\ g \in DOMAIN played =>
                            /\ played[g].secs = SumFunction(pages[g].board)
                            /\ played[g].players = Cardinality(DOMAIN pages[g].board)
                            /\ banned = {} => played[g] = pages[g].totals
    BY <1>1
  <2>1. PICK p, q : p = pages[g] /\ q = Line(g, banned)
    OBVIOUS
  <2>2. /\ p.board = q
        /\ p.totals = [secs |-> SumFunction(Line(g, {})), players |-> Cardinality(DOMAIN Line(g, {}))]
    BY <1>2, <2>1
  <2>3. /\ \A u \in DOMAIN q : q[u] = stats[u][g]
        /\ g \in DOMAIN played <=> q # <<>>
    BY <1>3, <1>4, <2>1
  <2>4. ASSUME g \in DOMAIN played
        PROVE  /\ played[g] = [secs |-> SumFunction(q), players |-> Cardinality(DOMAIN q)]
               /\ played[g].secs = SumFunction(q)
               /\ played[g].players = Cardinality(DOMAIN q)
    <3>1. played[g] = [secs |-> SumFunction(q), players |-> Cardinality(DOMAIN q)]
      BY <1>5, <2>1, <2>4
    <3>2. QED
      BY <3>1
  <2>5. ASSUME g \in DOMAIN played, banned = {} PROVE played[g] = p.totals
    BY <2>1, <2>2, <2>4, <2>5
  <2>6. QED
    BY <2>1, <2>2, <2>3, <2>4, <2>5
<1>8. QED
  BY <1>6, <1>7 DEF LinesAgree

-----------------------------------------------------------------------------
(* The week. *)

(* The seconds of a set of rows, by a column of theirs. *)
ByColumn(R, c, D, f) ==
    D = {c[r] : r \in R} /\ f = [d \in D |-> Seconds({r \in R : c[r] = d})]

LEMMA SecondsByColumn ==
    ASSUME PageInv, NEW R \in SUBSET rows, NEW c, NEW D, NEW f, ByColumn(R, c, D, f)
    PROVE  /\ IsFiniteSet(D) /\ Counts(f, D)
           /\ SumFunctionOnSet(f, D) = Seconds(R)
           /\ SumFunction(Positive(f)) = Seconds(R)
           /\ DOMAIN Positive(f) = {} <=> ~(Seconds(R) > 0)
           /\ DOMAIN Positive(f) \in SUBSET D
<1>1. IsFiniteSet(R) /\ Counts(Lasts, R)
  BY SecondsSums
<1>2. IsFiniteSet(D)
  <2>1. PICK e : e = [r \in R |-> c[r]]
    OBVIOUS
  <2>2. e \in Surjection(R, D)
    BY <2>1 DEF Surjection, ByColumn
  <2>3. QED
    BY <1>1, <2>2, FS_Surjection
<1>3. ASSUME NEW d \in D
      PROVE  f[d] = SumFunctionOnSet(Lasts, Group(R, c, d)) /\ f[d] \in Nat
  <2>1. Group(R, c, d) \in SUBSET rows
    BY DEF Group
  <2>2. f[d] = Seconds(Group(R, c, d))
    BY DEF Group, ByColumn
  <2>3. QED
    BY <2>1, <2>2, SecondsSums
<1>4. Counts(f, D)
  BY <1>3 DEF Counts
<1>5. SumFunctionOnSet(f, D) = SumFunctionOnSet(Lasts, R)
  <2>1. \A r \in R : c[r] \in D
    BY DEF ByColumn
  <2>2. \A d \in D : f[d] = SumFunctionOnSet(Lasts, Group(R, c, d))
    BY <1>3
  <2>3. QED
    BY <1>1, <1>2, <2>1, <2>2, SumGroups
<1>6. SumFunctionOnSet(f, D) = Seconds(R)
  BY <1>5, SecondsSums
<1>7. PICK p : p = Positive(f)
  OBVIOUS
<1>8. PICK P : P = {d \in D : f[d] > 0}
  OBVIOUS
<1>9. p = [d \in P |-> f[d]]
  <2>1. DOMAIN f = D
    BY DEF ByColumn
  <2>2. {j \in DOMAIN f \ {} : f[j] > 0} = P
    BY <1>8, <2>1
  <2>3. QED
    BY <1>7, <2>2 DEF Positive, Without
<1>10. SumFunctionOnSet(p, P) = SumFunctionOnSet(f, D)
  <2>1. P \in SUBSET D /\ \A d \in D \ P : f[d] = 0
    BY <1>3, <1>8
  <2>2. SumFunctionOnSet(f, D) = SumFunctionOnSet(f, P)
    BY <1>2, <1>4, <2>1, SumWithout
  <2>3. IsFiniteSet(P) /\ \A d \in P : p[d] = f[d]
    BY <1>2, <1>9, <2>1, FS_Subset
  <2>4. SumFunctionOnSet(p, P) = SumFunctionOnSet(f, P)
    BY <2>3, SumSame
  <2>5. QED
    BY <2>2, <2>4
<1>11. SumFunctionOnSet(f, D) > 0 <=> \E d \in D : f[d] > 0
  BY <1>2, <1>4, SumPositive
<1>12. DOMAIN p = P
  BY <1>9
<1>13. P = {} <=> ~ \E d \in D : f[d] > 0
  BY <1>8
<1>14. SumFunction(p) = Seconds(R)
  BY <1>6, <1>10, <1>12 DEF SumFunction
<1>15. P \in SUBSET D
  BY <1>8
<1>16. QED
  BY <1>2, <1>4, <1>6, <1>7, <1>11, <1>12, <1>13, <1>14, <1>15

LEMMA WeekDoesAgree ==
    ASSUME PageInv, NEW banned, NEW hiding, NEW hidden
    PROVE  WeekAgrees(banned, hiding, hidden)
<1>1. PICK R : R = Lately(banned, hiding, hidden)
  OBVIOUS
<1>2. R \in SUBSET rows
  BY <1>1 DEF Lately
<1>3. PICK of, in : of = [r \in rows |-> r.user] /\ in = [r \in rows |-> r.game]
  OBVIOUS
<1>4. PICK G : G = {in[r] : r \in R}
  OBVIOUS
<1>5. PICK f : f = [g \in G |-> Seconds({r \in R : in[r] = g})]
  OBVIOUS
<1>6. PICK p : p = Positive(f)
  OBVIOUS
<1>7. TopGames(banned, hiding, hidden)
        = [g \in DOMAIN p |->
             [secs |-> p[g], players |-> Cardinality({r.user : r \in {q \in R : q.game = g}})]]
  <2>1. {r.game : r \in R} = G
    BY <1>2, <1>3, <1>4
  <2>2. [g \in {r.game : r \in R} |-> Seconds({r \in R : r.game = g})] = f
    <3>1. ASSUME NEW g PROVE {r \in R : r.game = g} = {r \in R : in[r] = g}
      BY <1>2, <1>3
    <3>2. QED
      BY <1>5, <2>1, <3>1
  <2>3. QED
    BY <1>1, <1>6, <2>2 DEF TopGames
<1>8. /\ SumFunction(p) = Seconds(R)
      /\ IsFiniteSet(G) /\ Counts(f, G) /\ SumFunctionOnSet(f, G) = Seconds(R)
      /\ DOMAIN p \in SUBSET G
  <2>1. ByColumn(R, in, G, f)
    BY <1>4, <1>5 DEF ByColumn
  <2>2. QED
    BY <1>2, <1>6, <2>1, SecondsByColumn
<1>9. \A g : g \in DOMAIN p <=> g \in G /\ f[g] > 0
  BY <1>5, <1>6 DEF Positive, Without
<1>10. \A g \in DOMAIN p : p[g] = f[g]
  BY <1>6 DEF Positive, Without
<1>11. SumFunction(TopPlayers(banned, hiding, hidden)) = Seconds(R)
  <2>1. PICK U : U = {of[r] : r \in R}
    OBVIOUS
  <2>2. PICK h : h = [u \in U |-> Seconds({r \in R : of[r] = u})]
    OBVIOUS
  <2>3. TopPlayers(banned, hiding, hidden) = Positive(h)
    <3>1. {r.user : r \in R} = U
      BY <1>2, <1>3, <2>1
    <3>2. ASSUME NEW u PROVE {r \in R : r.user = u} = {r \in R : of[r] = u}
      BY <1>2, <1>3
    <3>3. [u \in {r.user : r \in R} |-> Seconds({r \in R : r.user = u})] = h
      BY <2>2, <3>1, <3>2
    <3>4. QED
      BY <1>1, <3>3 DEF TopPlayers
  <2>4. ByColumn(R, of, U, h)
    BY <2>1, <2>2 DEF ByColumn
  <2>5. QED
    BY <1>2, <2>3, <2>4, SecondsByColumn
<1>12. SumFunction([g \in DOMAIN TopGames(banned, hiding, hidden) |->
                       TopGames(banned, hiding, hidden)[g].secs]) = Seconds(R)
  <2>1. [g \in DOMAIN TopGames(banned, hiding, hidden) |->
                       TopGames(banned, hiding, hidden)[g].secs] = [g \in DOMAIN p |-> p[g]]
    BY <1>7
  <2>2. p = [g \in DOMAIN p |-> p[g]]
    BY <1>6 DEF Positive, Without
  <2>3. QED
    BY <1>8, <2>1, <2>2
<1>13. ASSUME NEW g \in Games
       PROVE  LET games == TopGames(banned, hiding, hidden)
                  recent == RecentPlayers(g, banned, hiding, hidden)
              IN  /\ g \in DOMAIN games <=> recent # <<>>
                  /\ g \in DOMAIN games => /\ games[g].secs = SumFunction(recent)
                                           /\ games[g].players >= Cardinality(DOMAIN recent)
  <2>1. PICK Q : Q = {r \in R : r.game = g}
    OBVIOUS
  <2>2. Q \in SUBSET rows /\ Q = {r \in R : in[r] = g}
    BY <1>2, <1>3, <2>1
  <2>3. PICK U : U = {of[r] : r \in Q}
    OBVIOUS
  <2>4. PICK h : h = [u \in U |-> Seconds({r \in Q : of[r] = u})]
    OBVIOUS
  <2>5. U = {r.user : r \in Q}
    BY <1>3, <2>2, <2>3
  <2>6. PICK k : k = RecentPlayers(g, banned, hiding, hidden)
    OBVIOUS
  <2>7. k = Positive(h)
    <3>1. ASSUME NEW u PROVE {r \in Q : r.user = u} = {r \in Q : of[r] = u}
      BY <1>3, <2>2
    <3>2. [u \in {r.user : r \in Q} |-> Seconds({r \in Q : r.user = u})] = h
      BY <2>4, <2>5, <3>1
    <3>3. QED
      BY <1>1, <2>1, <2>6, <3>2 DEF RecentPlayers
  <2>8. /\ IsFiniteSet(U) /\ SumFunction(k) = Seconds(Q)
        /\ DOMAIN k = {} <=> ~(Seconds(Q) > 0)
        /\ DOMAIN k \in SUBSET U
    <3>1. ByColumn(Q, of, U, h)
      BY <2>3, <2>4 DEF ByColumn
    <3>2. QED
      BY <2>2, <2>7, <3>1, SecondsByColumn
  <2>9. g \in G => f[g] = Seconds(Q)
    BY <1>5, <2>2
  <2>10. g \notin G => ~(Seconds(Q) > 0)
    <3> SUFFICES ASSUME g \notin G PROVE ~(Seconds(Q) > 0)
      OBVIOUS
    <3>1. Q = {}
      BY <1>4, <2>2
    <3>2. Seconds(Q) = SumFunctionOnSet(Lasts, {})
      BY <2>2, <3>1, SecondsSums
    <3>3. QED
      BY <3>2, SumEmpty
  <2>11. g \in DOMAIN p <=> DOMAIN k # {}
    BY <1>9, <2>8, <2>9, <2>10
  <2>12. k = <<>> <=> DOMAIN k = {}
    <3>1. k = [u \in DOMAIN k |-> k[u]]
      BY <2>7 DEF Positive, Without
    <3>2. QED
      BY <3>1
  <2>13. Cardinality(DOMAIN k) <= Cardinality(U) /\ Cardinality(U) \in Nat /\ Cardinality(DOMAIN k) \in Nat
    BY <2>8, FS_Subset, FS_CardinalityType
  <2>14. PICK games : games = TopGames(banned, hiding, hidden)
    OBVIOUS
  <2>15. /\ DOMAIN games = DOMAIN p
         /\ g \in DOMAIN p => games[g] = [secs |-> p[g], players |-> Cardinality(U)]
    BY <1>7, <2>1, <2>5, <2>14
  <2>16. g \in DOMAIN p => p[g] = Seconds(Q)
    BY <1>9, <1>10, <2>9
  <2>17. g \in DOMAIN p => games[g].secs = Seconds(Q) /\ games[g].players = Cardinality(U)
    BY <2>15, <2>16
  <2>18. QED
    BY <2>6, <2>8, <2>11, <2>12, <2>13, <2>14, <2>15, <2>17
<1>14. QED
  BY <1>11, <1>12, <1>13 DEF WeekAgrees

LEMMA FiguresDoAgree ==
    ASSUME PageInv
    PROVE  FiguresAgree
<1> SUFFICES ASSUME NEW u \in Users, NEW g \in Games
             PROVE  Effective(u, g) = IF g \in DOMAIN GameStats(u, {}) THEN GameStats(u, {})[g] ELSE 0
  BY DEF FiguresAgree
<1>1. GameStats(u, {}) = [h \in {j \in Games \ {} : Effective(u, j) > 0} |-> Effective(u, h)]
  BY StatsOf
<1>2. Effective(u, g) \in Nat
  BY MergedIsEffective
<1>3. QED
  BY <1>1, <1>2

LEMMA PagesDoAgree == PageInv => PagesAgree
  BY LinesDoAgree, WeekDoesAgree, FiguresDoAgree DEF PagesAgree

LEMMA CountsPage == CInv => PageInv
BY DEF CInv, PInv, IInv, ImportsFit, PageInv

(* However each page groups and filters the tables, they show the same     *)
(* figures (PagesAgree), for any members, games and tables the writers can *)
(* leave: each list is Effective, taken over the members and games that    *)
(* are not left out, and a sum over lines is the sum of its groups.        *)
THEOREM PagesShowOne == PlaySpec => []PagesAgree
BY CInvariantHolds, CountsPage, PagesDoAgree, PTL

-----------------------------------------------------------------------------
(* The history, page by page: the pages are what lies between two places   *)
(* of one list, the member's sessions in order.                            *)

Chron == {k \in rows \X rows : Precedes(k[1], k[2])}

OfMember(R, u) == R \in SUBSET rows /\ \A r \in R : r.user = u

LEMMA IdsTell ==
    ASSUME TypeOK, NEW r \in rows, NEW q \in rows
    PROVE  /\ Id(r) \in Nat /\ Id(q) \in Nat /\ r.start \in Nat /\ q.start \in Nat
           /\ Id(r) = Id(q) => SameSeries(r, q)
<1>1. r \in Rows /\ q \in Rows
  BY DEF TypeOK
<1>2. /\ <<r.user, r.game, r.source>> \in Users \X Games \X Sources
      /\ <<q.user, q.game, q.source>> \in Users \X Games \X Sources
  BY <1>1 DEF Rows
<1>3. r.start \in Nat /\ q.start \in Nat
  BY <1>1 DEF Rows
<1>4. DOMAIN IdOf = Users \X Games \X Sources
  BY IdsAssumption
<1>5. Id(r) \in Nat /\ Id(q) \in Nat
  BY <1>2, IdsAssumption DEF Id
<1>6. ASSUME Id(r) = Id(q) PROVE SameSeries(r, q)
  <2>1. <<r.user, r.game, r.source>> = <<q.user, q.game, q.source>>
    BY <1>2, <1>4, <1>6, IdsAssumption DEF Id
  <2>2. QED
    BY <2>1 DEF SameSeries
<1>7. QED
  BY <1>3, <1>5, <1>6

(* No two sessions of a member stand at one place: those of one source     *)
(* begin apart, and the ids decide between the sources.                    *)
LEMMA ChronIsLinear ==
    ASSUME PageInv, NEW R \in SUBSET rows
    PROVE  Linear(R, Chron)
<1>0. TypeOK /\ FlapsAreMerged
  BY DEF PageInv
<1>1. ASSUME NEW r \in rows, NEW q \in rows
      PROVE  <<r, q>> \in Chron <=> Precedes(r, q)
  BY DEF Chron
<1>2. ASSUME NEW r \in rows PROVE ~Precedes(r, r)
  BY <1>0, IdsTell DEF Precedes
<1>3. ASSUME NEW r \in rows, NEW q \in rows, r # q PROVE Precedes(r, q) \/ Precedes(q, r)
  <2>1. /\ Id(r) \in Nat /\ Id(q) \in Nat /\ r.start \in Nat /\ q.start \in Nat
        /\ Id(r) = Id(q) => SameSeries(r, q)
    BY <1>0, IdsTell
  <2>2. CASE r.start = q.start /\ Id(r) = Id(q)
    <3>1. Separated(r, q)
      BY <1>0, <1>3, <2>1, <2>2 DEF FlapsAreMerged
    <3>2. InThePast(r) /\ InThePast(q) /\ r \in Rows /\ q \in Rows
      BY <1>0 DEF TypeOK
    <3>3. QED
      BY <2>2, <3>1, <3>2, WindowAssumption DEF Separated, InThePast, Rows, IsOpen
  <2>3. QED
    BY <2>1, <2>2 DEF Precedes
<1>4. ASSUME NEW r \in rows, NEW q \in rows, NEW s \in rows, Precedes(r, q), Precedes(q, s)
      PROVE  Precedes(r, s)
  <2>1. /\ Id(r) \in Nat /\ Id(q) \in Nat /\ r.start \in Nat /\ q.start \in Nat
        /\ Id(s) \in Nat /\ s.start \in Nat
    BY <1>0, IdsTell
  <2>2. QED
    BY <1>4, <2>1 DEF Precedes
<1>5. QED
  BY <1>1, <1>2, <1>3, <1>4 DEF Linear

LEMMA OrderedLists ==
    ASSUME PageInv, NEW R \in SUBSET rows
    PROVE  Lists(Ordered(R, Precedes), R, Chron)
<1>1. IsFiniteSet(R) /\ Linear(R, Chron)
  BY ChronIsLinear, FS_Subset DEF PageInv
<1>2. PICK n : n = Cardinality(R)
  OBVIOUS
<1>3. PICK s : s = Ordered(R, Precedes)
  OBVIOUS
<1>4. s = [i \in 1..n |-> CHOOSE r \in R : Cardinality({q \in R : Precedes(q, r)}) = i - 1]
  BY <1>2, <1>3 DEF Ordered
<1>5. \A r \in R : {q \in R : Precedes(q, r)} = Below(R, Chron, r)
  BY DEF Below, Chron
<1>6. n \in Nat
  BY <1>1, <1>2, FS_CardinalityType
<1>7. ASSUME NEW i \in 1..n PROVE s[i] \in R /\ Rank(R, Chron, s[i]) = i - 1
  <2>1. PICK k : k = i - 1 /\ k \in 0..(n - 1)
    BY <1>6
  <2>2. PICK r \in R : Rank(R, Chron, r) = k
    BY <1>1, <1>2, <2>1, RanksAreTaken
  <2>3. Cardinality({q \in R : Precedes(q, r)}) = k
    BY <1>5, <2>2 DEF Rank
  <2>4. s[i] = CHOOSE x \in R : Cardinality({q \in R : Precedes(q, x)}) = k
    BY <1>4, <2>1
  <2>5. s[i] \in R /\ Cardinality({q \in R : Precedes(q, s[i])}) = k
    BY <2>3, <2>4
  <2>6. QED
    BY <1>5, <2>1, <2>5 DEF Rank
<1>8. s \in [1..n -> R]
  BY <1>4, <1>7
<1>9. QED
  BY <1>1, <1>2, <1>3, <1>7, <1>8, ListedByRank

LEMMA RestOfList ==
    ASSUME PageInv, NEW R \in SUBSET rows, NEW F, F = Ordered(R, Precedes),
           NEW m \in 1..Len(F)
    PROVE  Ordered(Past(R, {F[m]}), Precedes) = SubSeq(F, m + 1, Len(F))
<1>1. Lists(F, R, Chron) /\ Linear(R, Chron)
  BY OrderedLists, ChronIsLinear
<1>2. PICK T : T = Past(R, {F[m]})
  OBVIOUS
<1>3. T \in SUBSET rows
  BY <1>2 DEF Past
<1>4. ASSUME NEW i \in 1..Len(F) PROVE F[i] \in T <=> m < i
  <2>1. F[i] \in R /\ F[m] \in R
    BY <1>1 DEF Lists
  <2>2. <<F[m], F[i]>> \in Chron <=> m < i
    BY <1>1, PlacesTell
  <2>3. <<F[m], F[i]>> \in Chron <=> Precedes(F[m], F[i])
    BY <2>1 DEF Chron
  <2>4. F[i] \in T <=> Precedes(F[m], F[i])
    BY <1>2, <2>1 DEF Past
  <2>5. QED
    BY <2>2, <2>3, <2>4
<1>5. \A x : x \in T <=> \E i \in 1..Len(F) : m < i /\ x = F[i]
  <2>1. ASSUME NEW x \in T PROVE \E i \in 1..Len(F) : m < i /\ x = F[i]
    <3>1. x \in R
      BY <1>2 DEF Past
    <3>2. PICK i \in 1..Len(F) : F[i] = x
      BY <1>1, <3>1 DEF Lists
    <3>3. QED
      BY <1>4, <3>2
  <2>2. QED
    BY <1>4, <2>1
<1>6. m \in 0..Len(F)
  OBVIOUS
<1>7. PICK s : s = SubSeq(F, m + 1, Len(F))
  OBVIOUS
<1>8. Lists(s, T, Chron)
  BY <1>1, <1>5, <1>6, <1>7, ListEnds
<1>9. Lists(Ordered(T, Precedes), T, Chron) /\ Linear(T, Chron)
  BY <1>3, OrderedLists, ChronIsLinear
<1>10. PICK t : t = Ordered(T, Precedes)
  OBVIOUS
<1>11. Lists(t, T, Chron)
  BY <1>9, <1>10
<1>12. s = t
  BY <1>8, <1>9, <1>11, ListIsUnique
<1>13. QED
  BY <1>2, <1>7, <1>10, <1>12

(* What a walk has when it has come to the m-th session.                   *)
At(F, m) == [page |-> SubSeq(F, 1, m), next |-> IF m < Len(F) THEN {F[m]} ELSE {}]

Capped(n, m) == IF m < n THEN m ELSE n

(* The page that begins after the m-th session. *)
PageFrom(F, m, k) ==
    [page |-> SubSeq(F, m + 1, k), next |-> IF k < Len(F) THEN {F[k]} ELSE {}]

Remain(R, cursor, F, m) == Ordered(Past(R, cursor), Precedes) = SubSeq(F, m + 1, Len(F))

LEMMA PageOf ==
    ASSUME NEW X, NEW F \in Seq(X), NEW m \in 0..Len(F),
           NEW R, NEW cursor, Remain(R, cursor, F, m)
    PROVE  ListSessions(R, cursor) = PageFrom(F, m, Capped(Len(F), m + Limit))
<1>0. PICK found : /\ found = SubSeq(F, m + 1, Len(F))
                   /\ found = Ordered(Past(R, cursor), Precedes)
  BY DEF Remain
<1>1. PICK n : n = Len(F) /\ n \in Nat
  OBVIOUS
<1>2. Limit \in Nat /\ Limit >= 1
  BY PagesAssumption
<1>3. found \in Seq(X) /\ Len(found) = n - m /\ \A i \in 1..(n - m) : found[i] = F[m + i]
  BY <1>0, <1>1
<1>4. CASE n - m > Limit
  <2>1. PICK k : k = m + Limit
    OBVIOUS
  <2>2. Capped(n, m + Limit) = k /\ k < n /\ k \in Nat
    BY <1>1, <1>2, <1>4, <2>1 DEF Capped
  <2>3. PICK page : page = SubSeq(found, 1, Limit)
    OBVIOUS
  <2>4. page = SubSeq(F, m + 1, k)
    <3>1. PICK u : u = SubSeq(F, m + 1, k)
      OBVIOUS
    <3>2. u \in Seq(X) /\ Len(u) = Limit /\ \A i \in 1..Limit : u[i] = F[m + i]
      BY <1>1, <1>2, <1>4, <2>1, <3>1
    <3>3. page \in Seq(X) /\ Len(page) = Limit /\ \A i \in 1..Limit : page[i] = found[i]
      BY <1>1, <1>2, <1>3, <1>4, <2>3
    <3>4. \A i \in 1..Limit : i \in 1..(n - m)
      BY <1>1, <1>2, <1>4
    <3>5. \A i \in 1..Limit : page[i] = u[i]
      BY <1>3, <3>2, <3>3, <3>4
    <3>6. page = u
      BY <3>2, <3>3, <3>5
    <3>7. QED
      BY <3>1, <3>6
  <2>5. page[Limit] = F[k]
    BY <1>1, <1>2, <1>3, <1>4, <2>1, <2>3
  <2>6. ListSessions(R, cursor) = [page |-> page, next |-> {page[Limit]}]
    BY <1>0, <1>3, <1>4, <2>3 DEF ListSessions
  <2>7. QED
    BY <1>1, <2>2, <2>4, <2>5, <2>6 DEF PageFrom
<1>5. CASE ~(n - m > Limit)
  <2>1. Capped(n, m + Limit) = n
    BY <1>1, <1>2, <1>5 DEF Capped
  <2>2. ListSessions(R, cursor) = [page |-> found, next |-> {}]
    BY <1>0, <1>3, <1>5 DEF ListSessions
  <2>3. PageFrom(F, m, n) = [page |-> found, next |-> {}]
    <3>1. ~(n < Len(F))
      BY <1>1
    <3>2. PageFrom(F, m, n) = [page |-> SubSeq(F, m + 1, n), next |-> {}]
      BY <3>1 DEF PageFrom
    <3>3. SubSeq(F, m + 1, n) = found
      BY <1>0, <1>1
    <3>4. QED
      BY <3>2, <3>3
  <2>4. QED
    BY <1>1, <2>1, <2>2, <2>3
<1>6. QED
  BY <1>4, <1>5

LEMMA FirstPage ==
    ASSUME PageInv, NEW R \in SUBSET rows, NEW F, F = Ordered(R, Precedes)
    PROVE  ListSessions(R, {}) = At(F, Capped(Len(F), Limit))
<1>1. Lists(F, R, Chron)
  BY OrderedLists
<1>2. F \in Seq(R)
  BY <1>1 DEF Lists
<1>3. Len(F) \in Nat
  BY <1>2
<1>4. Past(R, {}) = R
  BY DEF Past
<1>5. F = SubSeq(F, 0 + 1, Len(F)) /\ 0 \in 0..Len(F)
  BY <1>2, <1>3
<1>6. Remain(R, {}, F, 0)
  BY <1>4, <1>5 DEF Remain
<1>7. PICK k : k = Capped(Len(F), 0 + Limit)
  OBVIOUS
<1>8. ListSessions(R, {}) = PageFrom(F, 0, k)
  BY <1>2, <1>5, <1>6, <1>7, PageOf
<1>9. 0 + Limit = Limit /\ 0 + 1 = 1
  BY PagesAssumption
<1>10. QED
  BY <1>7, <1>8, <1>9 DEF At, PageFrom

LEMMA NextPage ==
    ASSUME PageInv, NEW R \in SUBSET rows, NEW F, F = Ordered(R, Precedes),
           NEW m \in 1..Len(F), m < Len(F)
    PROVE  LET p == ListSessions(R, At(F, m).next)
           IN  [page |-> At(F, m).page \o p.page, next |-> p.next] = At(F, Capped(Len(F), m + Limit))
<1>1. Lists(F, R, Chron)
  BY OrderedLists
<1>2. F \in Seq(R)
  BY <1>1 DEF Lists
<1>3. Len(F) \in Nat
  BY <1>2
<1>4. At(F, m).next = {F[m]} /\ At(F, m).page = SubSeq(F, 1, m)
  BY DEF At
<1>5. Remain(R, {F[m]}, F, m)
  BY RestOfList DEF Remain
<1>6. m \in 0..Len(F)
  OBVIOUS
<1>7. PICK k : k = Capped(Len(F), m + Limit)
  OBVIOUS
<1>8. ListSessions(R, {F[m]}) = PageFrom(F, m, k)
  BY <1>2, <1>5, <1>6, <1>7, PageOf
<1>9. k \in Nat /\ m <= k /\ k <= Len(F) /\ m \in Nat
  BY <1>3, <1>7, PagesAssumption DEF Capped
<1>10. SubSeq(F, 1, m) \o SubSeq(F, m + 1, k) = SubSeq(F, 1, k)
  BY <1>2, <1>3, <1>9
<1>11. PICK p : p = ListSessions(R, At(F, m).next)
  OBVIOUS
<1>12. p = PageFrom(F, m, k)
  BY <1>4, <1>8, <1>11
<1>13. p.page = SubSeq(F, m + 1, k) /\ p.next = IF k < Len(F) THEN {F[k]} ELSE {}
  BY <1>12 DEF PageFrom
<1>14. At(F, m).page \o p.page = SubSeq(F, 1, k)
  BY <1>4, <1>10, <1>13
<1>15. [page |-> At(F, m).page \o p.page, next |-> p.next] = At(F, k)
  BY <1>13, <1>14 DEF At
<1>16. QED
  BY <1>7, <1>11, <1>15

(* The places the pages come to, of n sessions. *)
Places(m, n) ==
    /\ m \in [0..n -> 0..n]
    /\ m[0] = Capped(n, Limit)
    /\ \A k \in 1..n : m[k] = Capped(n, m[k - 1] + Limit)

LEMMA PlacesExist ==
    ASSUME NEW n \in Nat
    PROVE  \E m : Places(m, n)
<1>1. PICK a : a = Capped(n, Limit)
  OBVIOUS
<1>2. PICK step : step = [x \in 0..n |-> Capped(n, x + Limit)]
  OBVIOUS
<1>3. a \in 0..n
  BY <1>1, PagesAssumption DEF Capped
<1>4. \A x \in 0..n : Capped(n, x + Limit) \in 0..n
  BY PagesAssumption DEF Capped
<1>5. step \in [0..n -> 0..n]
  BY <1>2, <1>4
<1>6. PICK w \in [0..n -> 0..n] : Iterates(w, n, a, step)
  BY <1>3, <1>5, IterationExists
<1>7. w[0] = a
  BY <1>6 DEF Iterates
<1>8. \A k \in 1..n : k \in 0..n /\ k # 0 /\ k - 1 \in 0..n
  OBVIOUS
<1>9. \A k \in 1..n : w[k] = step[w[k - 1]]
  BY <1>6, <1>8 DEF Iterates
<1>10. QED
  BY <1>1, <1>2, <1>6, <1>7, <1>8, <1>9 DEF Places

(* Each page but the last shows a session at least. *)
LEMMA PlacesAdvance ==
    ASSUME NEW n \in Nat, NEW m, Places(m, n)
    PROVE  \A k \in 0..n : m[k] = n \/ (m[k] \in 1..n /\ m[k] > k)
<1> DEFINE P == {k \in Nat : k <= n => m[k] = n \/ (m[k] \in 1..n /\ m[k] > k)}
<1>0. Limit \in Nat /\ Limit >= 1
  BY PagesAssumption
<1>1. 0 \in P
  <2>1. PICK x : x = m[0]
    OBVIOUS
  <2>2. x = Capped(n, Limit)
    BY <2>1 DEF Places
  <2>3. x = n \/ (x \in 1..n /\ x > 0)
    BY <1>0, <2>2 DEF Capped
  <2>4. QED
    BY <2>1, <2>3
<1>2. ASSUME NEW k \in Nat, k \in P PROVE k + 1 \in P
  <2> SUFFICES ASSUME k + 1 <= n PROVE m[k + 1] = n \/ (m[k + 1] \in 1..n /\ m[k + 1] > k + 1)
    OBVIOUS
  <2>1. k + 1 \in 1..n /\ (k + 1) - 1 = k /\ k <= n
    OBVIOUS
  <2>2. PICK x : x = m[k]
    OBVIOUS
  <2>3. m[k + 1] = Capped(n, x + Limit)
    BY <2>1, <2>2 DEF Places
  <2>4. x = n \/ (x \in 1..n /\ x > k)
    BY <1>2, <2>1, <2>2
  <2>5. QED
    BY <1>0, <2>3, <2>4 DEF Capped
<1> HIDE DEF P
<1>3. \A k \in Nat : k \in P
  BY <1>1, <1>2, NumbersInduction
<1>4. QED
  BY <1>3 DEF P

(* One turn of the walk. *)
Turn(R, got) ==
    LET p == ListSessions(R, got.next)
    IN  IF got.next = {} THEN got ELSE [page |-> got.page \o p.page, next |-> p.next]

LEMMA TurnOf ==
    ASSUME PageInv, NEW R \in SUBSET rows, NEW F, F = Ordered(R, Precedes),
           NEW n, n = Len(F), n \in Nat, NEW m \in 0..n, m = n \/ m >= 1
    PROVE  Turn(R, At(F, m)) = At(F, Capped(n, m + Limit))
<1>1. Limit \in Nat /\ Limit >= 1
  BY PagesAssumption
<1>2. CASE m = n
  <2>1. Capped(n, m + Limit) = m
    BY <1>1, <1>2 DEF Capped
  <2>2. ~(m < Len(F))
    BY <1>2
  <2>3. At(F, m).next = {}
    BY <2>2 DEF At
  <2>4. QED
    BY <2>1, <2>3 DEF Turn
<1>3. CASE m < n
  <2>1. m \in 1..Len(F) /\ m < Len(F)
    BY <1>3
  <2>2. At(F, m).next = {F[m]}
    BY <2>1 DEF At
  <2>3. PICK p : p = ListSessions(R, At(F, m).next)
    OBVIOUS
  <2>4. [page |-> At(F, m).page \o p.page, next |-> p.next] = At(F, Capped(Len(F), m + Limit))
    BY <2>1, <2>3, NextPage
  <2>5. Turn(R, At(F, m)) = [page |-> At(F, m).page \o p.page, next |-> p.next]
    BY <2>2, <2>3 DEF Turn
  <2>6. QED
    BY <2>4, <2>5
<1>4. QED
  BY <1>2, <1>3

LEMMA WalkIsList ==
    ASSUME PageInv, NEW R \in SUBSET rows
    PROVE  Walk(R) = Ordered(R, Precedes)
<1>1. PICK F : F = Ordered(R, Precedes)
  OBVIOUS
<1>2. Lists(F, R, Chron) /\ Linear(R, Chron)
  BY <1>1, OrderedLists, ChronIsLinear
<1>3. F \in Seq(R)
  BY <1>2 DEF Lists
<1>4. PICK n : n = Len(F) /\ n \in Nat
  BY <1>3
<1>5. n = Cardinality(R)
  BY <1>2, <1>4, ListHasRanks
<1>6. PICK m : Places(m, n)
  BY <1>4, PlacesExist
<1>7. \A k \in 0..n : m[k] = n \/ (m[k] \in 1..n /\ m[k] > k)
  BY <1>4, <1>6, PlacesAdvance
<1> DEFINE OK(w) == w = [k \in 0..n |-> IF k = 0 THEN ListSessions(R, {}) ELSE Turn(R, w[k - 1])]
<1>8. ListSessions(R, {}) = At(F, m[0])
  BY <1>1, <1>4, <1>6, FirstPage DEF Places
<1>9. ASSUME NEW k \in 1..n PROVE Turn(R, At(F, m[k - 1])) = At(F, m[k])
  <2>1. PICK x : x = m[k - 1]
    OBVIOUS
  <2>2. k - 1 \in 0..n
    BY <1>4
  <2>3. x \in 0..n /\ (x = n \/ x >= 1)
    BY <1>4, <1>7, <2>1, <2>2
  <2>4. Turn(R, At(F, x)) = At(F, Capped(n, x + Limit))
    BY <1>1, <1>4, <2>3, TurnOf
  <2>5. m[k] = Capped(n, x + Limit)
    BY <1>6, <2>1 DEF Places
  <2>6. QED
    BY <2>1, <2>4, <2>5
<1>10. PICK v : v = [k \in 0..n |-> At(F, m[k])]
  OBVIOUS
<1>11. OK(v)
  <2>1. PICK u : u = [k \in 0..n |-> IF k = 0 THEN ListSessions(R, {}) ELSE Turn(R, v[k - 1])]
    OBVIOUS
  <2>2. ASSUME NEW k \in 0..n PROVE u[k] = v[k]
    <3>1. CASE k = 0
      BY <1>8, <1>10, <2>1, <3>1
    <3>2. CASE k # 0
      <4>1. k \in 1..n /\ k - 1 \in 0..n
        BY <1>4, <3>2
      <4>2. QED
        BY <1>9, <1>10, <2>1, <3>2, <4>1
    <3>3. QED
      BY <3>1, <3>2
  <2>3. u = v
    BY <1>10, <2>1, <2>2
  <2> DEFINE From(x, y) == x = [k \in 0..n |-> IF k = 0 THEN ListSessions(R, {}) ELSE Turn(R, y[k - 1])]
  <2>4. From(u, v)
    BY <2>1
  <2> HIDE DEF From
  <2>5. From(v, v)
    BY <2>3, <2>4
  <2>6. QED
    BY <2>5 DEF From
<1>12. Walk(R) = (CHOOSE w : OK(w))[n].page
  BY <1>5 DEF Walk, Turn
<1>13. ASSUME NEW w, OK(w) PROVE w[n] = At(F, n)
  <2> DEFINE P == {k \in Nat : k <= n => w[k] = At(F, m[k])}
  <2>1. 0 \in P
    BY <1>4, <1>8, <1>13
  <2>2. ASSUME NEW k \in Nat, k \in P PROVE k + 1 \in P
    <3> SUFFICES ASSUME k + 1 <= n PROVE w[k + 1] = At(F, m[k + 1])
      OBVIOUS
    <3>1. k + 1 \in 1..n /\ k + 1 \in 0..n /\ (k + 1) - 1 = k /\ k <= n /\ k + 1 # 0
      BY <1>4
    <3>2. w[k] = At(F, m[k])
      BY <2>2, <3>1
    <3>3. w[k + 1] = Turn(R, w[k])
      BY <1>13, <3>1
    <3>4. QED
      BY <1>9, <3>1, <3>2, <3>3
  <2> HIDE DEF P
  <2>3. \A k \in Nat : k \in P
    BY <2>1, <2>2, NumbersInduction
  <2>4. w[n] = At(F, m[n])
    BY <1>4, <2>3 DEF P
  <2>5. m[n] = n
    BY <1>4, <1>7
  <2>6. QED
    BY <2>4, <2>5
<1> HIDE DEF OK
<1>14. PICK w : w = (CHOOSE x : OK(x))
  OBVIOUS
<1>15. OK(w)
  BY <1>11, <1>14
<1>16. w[n].page = SubSeq(F, 1, n)
  BY <1>13, <1>15 DEF At
<1>17. SubSeq(F, 1, n) = F
  BY <1>3, <1>4
<1>18. QED
  BY <1>1, <1>12, <1>14, <1>16, <1>17

LEMMA HistoryIsWhole == PageInv => HistoryWhole
<1> SUFFICES ASSUME PageInv, NEW u \in Users, NEW discreet \in SUBSET {u},
                    NEW read \in BOOLEAN, u \in discreet \/ read
             PROVE  LET s == History(SessionVisibility(FALSE, {}, discreet, u), read, u)
                    IN  /\ {s[i] : i \in DOMAIN s} =
                              {r \in rows : r.user = u
                                             /\ (read /\ u \in discreet => ~IsOpen(r))}
                        /\ \A i, j \in DOMAIN s : i < j => Precedes(s[i], s[j])
  BY DEF HistoryWhole
<1>1. PICK R : R = {r \in rows : r.user = u /\ (read /\ u \in discreet => ~IsOpen(r))}
  OBVIOUS
<1>2. PICK s : s = History(SessionVisibility(FALSE, {}, discreet, u), read, u)
  OBVIOUS
<1>3. s = Walk(R)
  BY <1>1, <1>2 DEF History, SessionVisibility
<1>4. R \in SUBSET rows
  BY <1>1
<1>5. s = Ordered(R, Precedes)
  BY <1>3, <1>4, WalkIsList
<1>6. Lists(s, R, Chron)
  BY <1>4, <1>5, OrderedLists
<1>7. s \in Seq(R)
  BY <1>6 DEF Lists
<1>8. DOMAIN s = 1..Len(s)
  BY <1>7
<1>9. {s[i] : i \in DOMAIN s} = R
  BY <1>6, <1>7, <1>8 DEF Lists
<1>10. \A i, j \in DOMAIN s : i < j => Precedes(s[i], s[j])
  BY <1>6, <1>8 DEF Lists, Chron
<1>11. QED
  BY <1>1, <1>2, <1>9, <1>10

(* Whatever the length of a page, a viewer who follows the cursor of each  *)
(* gets every session they may see once, in order (HistoryWhole): a cursor *)
(* names the start and the id, and no two sessions of a member share both, *)
(* for one source's rows are apart (FlapsAreMerged).                       *)
THEOREM HistoryShown == PlaySpec => []HistoryWhole
BY CInvariantHolds, CountsPage, HistoryIsWhole, PTL
=============================================================================
