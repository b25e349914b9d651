----------------------------- MODULE Hub_proofs -----------------------------
(***************************************************************************)
(* Theorems about the hub, for any members, games, connections, requests   *)
(* and number of restarts.                                                 *)
(***************************************************************************)
EXTENDS Hub, FiniteSetTheorems, TLAPS

Broadcasting == {"bp_online", "bp_session", "bp_send"}

(* Where the goroutines can be and what they then hold, as far as the      *)
(* invariants depend on it.                                                *)
Control ==
    /\ \A p \in Conns \cup Requests : who[p] = Owner[p]
    /\ \A p \in Procs : pc[p] = "live_set" => sample[p] \in Games
    /\ \A c \in Conns : pc[c] \in Broadcasting => ret[c] \in {"ready", "gone", "bye_nil"}
    /\ \A c \in Conns : pc[c] = "end_sessions" => ret[c] \in {"gone", "bye_nil"}

IInv ==
    /\ TypeOK
    /\ Control
    /\ ConnCount
    /\ ClientLiveHasConn
    /\ ClientSessionsOwned

-----------------------------------------------------------------------------
(* Counting connections.                                                   *)

CountedOf(u) == {c \in Conns : Owner[c] = u /\ Counted(c)}

LEMMA CountedFinite ==
    ASSUME NEW u \in Users
    PROVE  IsFiniteSet(CountedOf(u)) /\ IsFiniteSet(CountedOf(u)')
  BY FiniteAssumption, FS_Subset DEF CountedOf

(* A member with a counted connection is online.                           *)
LEMMA CountedOnline ==
    ASSUME TypeOK, ConnCount, NEW c \in Conns, Counted(c)
    PROVE  online[Owner[c]] > 0
<1> DEFINE u == Owner[c]
<1>1. u \in Users
  BY OwnerAssumption
<1>2. c \in CountedOf(u)
  BY DEF CountedOf
<1>3. online[u] = Cardinality(CountedOf(u))
  BY <1>1 DEF ConnCount, CountedOf
<1>4. Cardinality(CountedOf(u)) # 0
  BY <1>1, <1>2, CountedFinite, FS_EmptySet
<1>5. QED
  BY <1>1, <1>3, <1>4 DEF TypeOK

(* Every connection stays on the side of the count it is on.               *)
SameCounted == \A c \in Conns : Counted(c)' <=> Counted(c)

LEMMA CountKept ==
    ASSUME ConnCount, SameCounted, UNCHANGED online
    PROVE  ConnCount'
<1>1. ASSUME NEW u \in Users PROVE CountedOf(u)' = CountedOf(u)
  BY DEF CountedOf, SameCounted
<1>2. QED
  BY <1>1 DEF ConnCount, CountedOf

LEMMA CountUp ==
    ASSUME TypeOK, ConnCount, NEW c \in Conns, ~Counted(c), Counted(c)',
           \A d \in Conns \ {c} : Counted(d)' <=> Counted(d),
           online' = [online EXCEPT ![Owner[c]] = @ + 1]
    PROVE  ConnCount'
<1> SUFFICES ASSUME NEW u \in Users
             PROVE  online'[u] = Cardinality(CountedOf(u)')
  BY DEF ConnCount, CountedOf
<1>1. online[u] = Cardinality(CountedOf(u))
  BY DEF ConnCount, CountedOf
<1>2. CASE u = Owner[c]
  <2>1. CountedOf(u)' = CountedOf(u) \cup {c} /\ c \notin CountedOf(u)
    BY <1>2 DEF CountedOf
  <2>2. Cardinality(CountedOf(u)') = Cardinality(CountedOf(u)) + 1
    BY <2>1, CountedFinite, FS_AddElement
  <2>3. QED
    BY <1>1, <1>2, <2>2 DEF TypeOK
<1>3. CASE u # Owner[c]
  <2>1. CountedOf(u)' = CountedOf(u)
    BY <1>3 DEF CountedOf
  <2>2. QED
    BY <1>1, <1>3, <2>1 DEF TypeOK
<1>4. QED
  BY <1>2, <1>3

LEMMA CountDown ==
    ASSUME TypeOK, ConnCount, NEW c \in Conns, Counted(c), ~Counted(c)',
           \A d \in Conns \ {c} : Counted(d)' <=> Counted(d),
           online' = [online EXCEPT ![Owner[c]] = @ - 1]
    PROVE  ConnCount'
<1> SUFFICES ASSUME NEW u \in Users
             PROVE  online'[u] = Cardinality(CountedOf(u)')
  BY DEF ConnCount, CountedOf
<1>1. online[u] = Cardinality(CountedOf(u))
  BY DEF ConnCount, CountedOf
<1>2. CASE u = Owner[c]
  <2>1. CountedOf(u)' = CountedOf(u) \ {c} /\ c \in CountedOf(u)
    BY <1>2 DEF CountedOf
  <2>2. Cardinality(CountedOf(u)') = Cardinality(CountedOf(u)) - 1
    BY <2>1, CountedFinite, FS_RemoveElement
  <2>3. QED
    BY <1>1, <1>2, <2>2 DEF TypeOK
<1>3. CASE u # Owner[c]
  <2>1. CountedOf(u)' = CountedOf(u)
    BY <1>3 DEF CountedOf
  <2>2. QED
    BY <1>1, <1>3, <2>1 DEF TypeOK
<1>4. QED
  BY <1>2, <1>3

-----------------------------------------------------------------------------
(* Type correctness, action by action.  The broadcasts' two reads store a  *)
(* truth value, which is named to keep the provers to first-order terms.   *)

LEMMA BroadcastTypes ==
    ASSUME TypeOK, NEW p \in Procs,
           ReadOnline(p) \/ ReadSession(p) \/ SendPresence(p)
    PROVE  TypeOK'
<1>1. CASE ReadOnline(p)
  <2> DEFINE b == online[who[p]] > 0
  <2>1. b \in BOOLEAN /\ seen' = [seen EXCEPT ![p].online = b]
    BY <1>1 DEF ReadOnline
  <2> HIDE DEF b
  <2>2. seen' \in [Procs -> [online : BOOLEAN, playing : BOOLEAN]]
    BY <2>1 DEF TypeOK
  <2>3. pc' \in [Procs -> Labels]
    BY <1>1 DEF TypeOK, ReadOnline, Goto, Labels
  <2>4. QED
    BY <1>1, <2>2, <2>3 DEF TypeOK, ReadOnline, db, hub, page
<1>2. CASE ReadSession(p)
  <2> DEFINE b == Playing(who[p])
  <2>1. b \in BOOLEAN /\ (seen' = [seen EXCEPT ![p].playing = b] \/ seen' = seen)
    BY <1>2 DEF ReadSession, Playing, PlayingUnless
  <2> HIDE DEF b
  <2>2. seen' \in [Procs -> [online : BOOLEAN, playing : BOOLEAN]]
    BY <2>1 DEF TypeOK
  <2>3. pc' \in [Procs -> Labels]
    BY <1>2 DEF TypeOK, ReadSession, Goto, Labels
  <2>4. QED
    BY <1>2, <2>2, <2>3 DEF TypeOK, ReadSession, db, hub, page
<1>3. CASE SendPresence(p)
  BY <1>3 DEF TypeOK, SendPresence, Goto, db, hub, page, Labels, Returns, Status, NothingSeen,
              NoIdent, Accounts
<1>4. QED
  BY <1>1, <1>2, <1>3

LEMMA LiveTypes ==
    ASSUME TypeOK, Control, NEW p \in Procs,
           LiveStore(p) \/ LiveRead(p) \/ LiveSend(p) \/ SayNil(p)
    PROVE  TypeOK'
<1>1. CASE LiveStore(p)
  <2>1. sample[p] \in Games /\ who[p] \in Users
    BY <1>1 DEF TypeOK, Control, LiveStore
  <2>2. live' \in [Users -> Entries \cup {NoEntry}]
    <3>1. \A src \in {"client", "server"} :
             [game |-> sample[p], source |-> src, fresh |-> TRUE] \in Entries
      BY <2>1 DEF Entries
    <3>2. CASE UNCHANGED live
      BY <3>2 DEF TypeOK
    <3>3. CASE \E src \in {"client", "server"} :
                 live' = [live EXCEPT ![who[p]] =
                            [game |-> sample[p], source |-> src, fresh |-> TRUE]]
      <4>1. PICK src \in {"client", "server"} :
               live' = [live EXCEPT ![who[p]] =
                          [game |-> sample[p], source |-> src, fresh |-> TRUE]]
        BY <3>3
      <4> DEFINE e == [game |-> sample[p], source |-> src, fresh |-> TRUE]
      <4>2. e \in Entries /\ live' = [live EXCEPT ![who[p]] = e]
        BY <3>1, <4>1
      <4> HIDE DEF e
      <4>3. QED
        BY <2>1, <4>2 DEF TypeOK
    <3>4. QED
      BY <1>1, <3>2, <3>3 DEF LiveStore
  <2>3. sample' \in [Procs -> Games \cup {NoGame}] /\ pc' \in [Procs -> Labels]
    BY <1>1 DEF TypeOK, LiveStore, Goto, Rest, Labels
  <2>4. QED
    BY <1>1, <2>2, <2>3 DEF TypeOK, LiveStore, db, page
<1>2. CASE LiveRead(p)
  BY <1>2 DEF TypeOK, LiveRead, Goto, db, hub, page, Labels, Entries, NoEntry
<1>3. CASE LiveSend(p)
  BY <1>3 DEF TypeOK, LiveSend, Goto, Rest, db, hub, Labels
<1>4. CASE SayNil(p)
  BY <1>4 DEF TypeOK, SayNil, Goto, Rest, db, hub, local, Labels
<1>5. QED
  BY <1>1, <1>2, <1>3, <1>4

LEMMA ConnTypes ==
    ASSUME TypeOK, ConnCount, NEW c \in Conns,
           \/ HelloRead(c) \/ HelloAllow(c) \/ HelloConnect(c) \/ Greet(c)
           \/ Unregister(c) \/ EndSessions(c) \/ EndSessionsFails(c)
    PROVE  TypeOK'
<1>1. c \in Procs /\ Owner[c] \in Users
  BY OwnerAssumption DEF Procs
<1>2. CASE HelloRead(c)
  BY <1>1, <1>2 DEF TypeOK, HelloRead, Goto, db, hub, page, Labels
<1>3. CASE HelloAllow(c)
  BY <1>1, <1>3 DEF TypeOK, HelloAllow, SetLiveVisible, Goto, db, local, page, Labels
<1>4. CASE HelloConnect(c)
  BY <1>1, <1>4 DEF TypeOK, HelloConnect, Connected, Goto, db, local, page, Labels
<1>5. CASE Greet(c)
  BY <1>1, <1>5 DEF TypeOK, Greet, CallBroadcast, Goto, db, hub, page, Labels, Returns
<1>6. CASE Unregister(c)
  <2>1. online[Owner[c]] > 0
    BY <1>6, CountedOnline DEF Unregister, Authenticated, Counted
  <2>2. online' \in [Users -> Nat]
    BY <1>1, <1>6, <2>1 DEF TypeOK, Unregister
  <2>3. live' \in [Users -> Entries \cup {NoEntry}]
    BY <1>1, <1>6 DEF TypeOK, Unregister, ForgetLive
  <2>4. liveVisible' \in [Users -> {"yes", "no", "unknown"}]
    BY <1>1, <1>6 DEF TypeOK, Unregister
  <2>5. pc' \in [Procs -> Labels] /\ ret' \in [Procs -> Returns]
    <3> DEFINE g == AfterGoodbye(Owner[c])
    <3>1. g \in Returns
      BY DEF AfterGoodbye, Returns
    <3>2. ret' = [ret EXCEPT ![c] = g] \/ UNCHANGED ret
      BY <1>6 DEF Unregister
    <3>3. Goto(c, "end_sessions") \/ Goto(c, "gone")
      BY <1>6 DEF Unregister
    <3> HIDE DEF g
    <3>4. ret' \in [Procs -> Returns]
      BY <1>1, <3>1, <3>2 DEF TypeOK
    <3>5. pc' \in [Procs -> Labels]
      BY <1>1, <3>3 DEF TypeOK, Goto, Labels
    <3>6. QED
      BY <3>4, <3>5
  <2>6. ident' \in [Procs -> Accounts]
    <3>1. NoIdent \in Accounts
      BY DEF NoIdent, Accounts
    <3>2. QED
      BY <1>1, <1>6, <3>1 DEF TypeOK, Unregister
  <2>7. QED
    BY <1>6, <2>2, <2>3, <2>4, <2>5, <2>6 DEF TypeOK, Unregister, db, page
<1>7. CASE EndSessions(c)
  BY <1>1, <1>7 DEF TypeOK, EndSessions, Store!EndClient, Store!OpenClient, Goto, hub,
                    local, page, Labels
<1>8. CASE EndSessionsFails(c)
  BY <1>1, <1>8 DEF TypeOK, EndSessionsFails, Store!OpenClient, Goto, hub, local, page, Labels
<1>9. QED
  BY <1>2, <1>3, <1>4, <1>5, <1>6, <1>7, <1>8

LEMMA EventTypes ==
    ASSUME TypeOK, NEW c \in Conns, NEW g \in Games,
           GameStarted(c, g) \/ GameStopped(c, g) \/ LiveSample(c, g) \/ LiveEnded(c, g)
    PROVE  TypeOK'
<1>1. c \in Procs /\ Owner[c] \in Users
  BY OwnerAssumption DEF Procs
<1>2. CASE GameStarted(c, g)
  <2>1. open' \subseteq Store!Sessions /\ leaked' \subseteq open'
    BY <1>1, <1>2, SourcesAssumption
       DEF TypeOK, GameStarted, Store!Start, Store!Sessions
  <2>2. QED
    BY <1>1, <1>2, <2>1 DEF TypeOK, GameStarted, CallBroadcast, Goto, hub, page, Labels, Returns
<1>3. CASE GameStopped(c, g)
  <2>1. open' \subseteq Store!Sessions /\ leaked' \subseteq open'
    BY <1>3 DEF TypeOK, GameStopped, Store!End
  <2>2. QED
    BY <1>1, <1>3, <2>1 DEF TypeOK, GameStopped, CallBroadcast, Goto, hub, page, Labels, Returns
<1>4. CASE LiveSample(c, g)
  BY <1>1, <1>4 DEF TypeOK, LiveSample, Goto, db, hub, page, Labels
<1>5. CASE LiveEnded(c, g)
  BY <1>1, <1>5 DEF TypeOK, LiveEnded, ForgetLive, Goto, db, local, page, Labels
<1>6. QED
  BY <1>2, <1>3, <1>4, <1>5

LEMMA RequestTypes ==
    ASSUME TypeOK, NEW r \in Requests,
           \/ ChangeAccount(r) \/ RequestRead(r) \/ RequestReadFails(r)
           \/ RequestAllow(r) \/ RequestCut(r)
    PROVE  TypeOK'
<1>1. r \in Procs /\ Owner[r] \in Users
  BY OwnerAssumption DEF Procs
<1>2. CASE ChangeAccount(r)
  <2>1. account' \in [Users -> Accounts]
    <3>1. ASSUME NEW v \in BOOLEAN, account' = [account EXCEPT ![Owner[r]].visible = v]
          PROVE  account' \in [Users -> Accounts]
      <4> DEFINE id == account[Owner[r]]
                 n == [id EXCEPT !.visible = v]
      <4>1. id \in Accounts
        BY <1>1 DEF TypeOK
      <4>2. account' = [account EXCEPT ![Owner[r]] = n]
        BY <3>1
      <4> HIDE DEF id
      <4>3. n \in Accounts
        BY <3>1, <4>1 DEF Accounts
      <4> HIDE DEF n
      <4>4. QED
        BY <1>1, <4>2, <4>3 DEF TypeOK
    <3>2. ASSUME NEW s \in {"online", "invisible"},
                 account' = [account EXCEPT ![Owner[r]].chosen = s]
          PROVE  account' \in [Users -> Accounts]
      <4> DEFINE id == account[Owner[r]]
                 n == [id EXCEPT !.chosen = s]
      <4>1. id \in Accounts
        BY <1>1 DEF TypeOK
      <4>2. account' = [account EXCEPT ![Owner[r]] = n]
        BY <3>2
      <4> HIDE DEF id
      <4>3. n \in Accounts
        BY <3>2, <4>1 DEF Accounts
      <4> HIDE DEF n
      <4>4. QED
        BY <1>1, <4>2, <4>3 DEF TypeOK
    <3>3. QED
      BY <1>2, <3>1, <3>2 DEF ChangeAccount
  <2>2. QED
    BY <1>1, <1>2, <2>1 DEF TypeOK, ChangeAccount, Goto, hub, local, page, Labels
<1>3. CASE RequestRead(r)
  BY <1>1, <1>3 DEF TypeOK, RequestRead, CallBroadcast, Goto, db, hub, page, Labels, Returns
<1>4. CASE RequestReadFails(r)
  BY <1>1, <1>4 DEF TypeOK, RequestReadFails, Goto, db, hub, local, page, Labels
<1>5. CASE RequestAllow(r)
  BY <1>1, <1>5 DEF TypeOK, RequestAllow, SetLiveVisible, Goto, db, page, Labels, NoIdent, Accounts
<1>6. CASE RequestCut(r)
  BY <1>1, <1>6 DEF TypeOK, RequestCut, ForgetLive, Goto, db, local, page, Labels
<1>7. QED
  BY <1>2, <1>3, <1>4, <1>5, <1>6

LEMMA BackgroundTypes ==
    ASSUME TypeOK,
           \/ PollPlayers \/ PollRead \/ PollAllow
           \/ \E u \in Users : PollVisits(u)
           \/ SweeperRuns
    PROVE  TypeOK'
<1>1. Poller \in Procs /\ Poller \in Background /\ Sweeper \in Background
  BY DEF Procs, Background
<1>2. CASE PollPlayers
  BY <1>1, <1>2 DEF TypeOK, PollPlayers, db, hub, page
<1>3. CASE PollRead
  <2>1. pc' \in [Procs -> Labels]
    BY <1>1, <1>3 DEF TypeOK, PollRead, Goto, Labels
  <2>2. ident' \in [Procs -> Accounts]
    BY <1>1, <1>3 DEF TypeOK, PollRead
  <2>3. QED
    BY <1>3, <2>1, <2>2 DEF TypeOK, PollRead, db, hub, page
<1>4. CASE PollAllow
  <2>1. pc' \in [Procs -> Labels]
    BY <1>1, <1>4 DEF TypeOK, PollAllow, Goto, Labels
  <2>2. ident' \in [Procs -> Accounts]
    BY <1>1, <1>4 DEF TypeOK, PollAllow, NoIdent, Accounts
  <2>3. sample' \in [Procs -> Games \cup {NoGame}]
    BY <1>1, <1>4, GamesAssumption DEF TypeOK, PollAllow
  <2>4. liveVisible' \in [Users -> {"yes", "no", "unknown"}]
    BY <1>1, <1>4 DEF TypeOK, PollAllow, SetLiveVisible
  <2>5. QED
    BY <1>4, <2>1, <2>2, <2>3, <2>4 DEF TypeOK, PollAllow, db, page
<1>5. CASE \E u \in Users : PollVisits(u)
  <2>1. PICK u \in Users : PollVisits(u)
    BY <1>5
  <2>2. CASE PollNothing(u)
    BY <1>1, <2>2 DEF TypeOK, PollNothing, Visit, db, hub, page
  <2>3. CASE PollEnded(u)
    BY <1>1, <2>3 DEF TypeOK, PollEnded, Visit, ForgetLive, Goto, db, page, Labels
  <2>4. CASE PollPlaying(u)
    <3>1. pc' \in [Procs -> Labels]
      BY <1>1, <2>4 DEF TypeOK, PollPlaying, Visit, Goto, Labels
    <3>2. sample' \in [Procs -> Games \cup {NoGame}]
      BY <1>1, <2>4, GamesAssumption DEF TypeOK, PollPlaying
    <3>3. who' \in [Procs -> Users] /\ queue' \in [Background -> SUBSET Users]
      BY <1>1, <2>4 DEF TypeOK, PollPlaying, Visit
    <3>4. QED
      BY <2>4, <3>1, <3>2, <3>3 DEF TypeOK, PollPlaying, db, hub, page
  <2>5. QED
    BY <2>1, <2>2, <2>3, <2>4 DEF PollVisits
<1>6. CASE Sweep
  BY <1>1, <1>6 DEF TypeOK, Sweep, db, page
<1>7. CASE \E u \in Users : SweepSay(u)
  BY <1>1, <1>7 DEF TypeOK, SweepSay, db, hub
<1>8. QED
  BY <1>2, <1>3, <1>4, <1>5, <1>6, <1>7 DEF SweeperRuns

LEMMA OtherTypes ==
    ASSUME TypeOK,
           \/ \E g \in Hideable : SetGameHidden(g)
           \/ \E u \in Users : Elapse(u)
           \/ Restart
    PROVE  TypeOK'
<1>1. CASE \E g \in Hideable : SetGameHidden(g)
  BY <1>1, GamesAssumption DEF TypeOK, SetGameHidden, hub, local, page
<1>2. CASE \E u \in Users : Elapse(u)
  <2>1. PICK u \in Users : Elapse(u)
    BY <1>2
  <2>2. live' \in [Users -> Entries \cup {NoEntry}]
    <3>1. live[u] \in Entries
      BY <2>1 DEF TypeOK, Elapse, HasLive
    <3>2. [live[u] EXCEPT !.fresh = FALSE] \in Entries
      BY <3>1 DEF Entries
    <3>3. live' = [live EXCEPT ![u] = [live[u] EXCEPT !.fresh = FALSE]]
      BY <2>1 DEF Elapse, TypeOK
    <3>4. QED
      BY <2>1, <3>2, <3>3 DEF TypeOK
  <2>3. QED
    BY <2>1, <2>2 DEF TypeOK, Elapse, db, local, page
<1>3. CASE Restart
  <2>1. /\ open' \subseteq Store!Sessions /\ leaked' \subseteq open'
        /\ UNCHANGED <<account, hidden>>
    BY <1>3 DEF TypeOK, Restart
  <2>2. /\ online' \in [Users -> Nat]
        /\ live' \in [Users -> Entries \cup {NoEntry}]
        /\ liveVisible' \in [Users -> {"yes", "no", "unknown"}]
        /\ card' \in [Users -> Games \cup {NoGame}]
    BY <1>3 DEF Restart, Everyone
  <2>3. /\ pc' \in [Procs -> Labels]
        /\ ret' \in [Procs -> Returns]
        /\ sample' \in [Procs -> Games \cup {NoGame}]
        /\ queue' \in [Background -> SUBSET Users]
    BY <1>3 DEF Restart, EachProc, StartLabels, Labels, Returns
  <2>4. who' \in [Procs -> Users]
    BY <1>3, OwnerAssumption, UsersAssumption DEF Restart, StartMembers, Nobody, Procs, Background
  <2>5. /\ ident' \in [Procs -> Accounts]
        /\ seen' \in [Procs -> [online : BOOLEAN, playing : BOOLEAN]]
    BY <1>3 DEF Restart, EachProc, NoIdent, NothingSeen, Accounts
  <2>6. shown' \in [Users -> {"offline", "online", "in_game"}]
    BY <1>3 DEF Restart, Status
  <2>7. restarts' \in 0..MaxRestarts
    BY <1>3, BoundsAssumption DEF TypeOK, Restart
  <2>8. QED
    BY <2>1, <2>2, <2>3, <2>4, <2>5, <2>6, <2>7 DEF TypeOK
<1>4. QED
  BY <1>1, <1>2, <1>3

-----------------------------------------------------------------------------
(* Every step keeps the goroutines where Control says.                     *)

LEMMA Kinds ==
    /\ Conns \subseteq Procs /\ Requests \subseteq Procs
    /\ Poller \in Procs /\ Sweeper \in Procs
    /\ Poller \notin Conns \cup Requests /\ Sweeper \notin Conns \cup Requests
    /\ Poller # Sweeper /\ Conns \cap Requests = {}
  BY ProcsAssumption DEF Procs, Background

LEMMA ControlStep ==
    ASSUME TypeOK, Control, Next
    PROVE  Control'
<1> USE Kinds DEF Goto, Broadcasting
<1>1. ASSUME NEW p \in Procs, Continue(p) PROVE Control'
  <2>1. CASE ReadOnline(p)
    BY <2>1 DEF TypeOK, Control, ReadOnline
  <2>2. CASE ReadSession(p)
    BY <2>2 DEF TypeOK, Control, ReadSession
  <2>3. CASE SendPresence(p)
    BY <2>3 DEF TypeOK, Returns, Control, SendPresence
  <2>4. CASE LiveStore(p)
    <3>1. /\ pc' = [pc EXCEPT ![p] = Rest(p)] \/ pc' = [pc EXCEPT ![p] = "live_read"]
          /\ sample' = [sample EXCEPT ![p] = NoGame] \/ UNCHANGED sample
          /\ UNCHANGED <<who, ret>>
      BY <2>4 DEF LiveStore
    <3>2. Rest(p) \in {"ready", "idle"}
      BY DEF Rest
    <3>3. \A q \in Procs \ {p} : pc'[q] = pc[q] /\ sample'[q] = sample[q]
      BY <3>1 DEF TypeOK
    <3>4. pc'[p] \in {"ready", "idle", "live_read"}
      BY <3>1, <3>2 DEF TypeOK
    <3>5. QED
      BY <3>1, <3>3, <3>4 DEF Control
  <2>5. CASE LiveRead(p)
    BY <2>5 DEF TypeOK, Control, LiveRead
  <2>6. CASE LiveSend(p)
    BY <2>6 DEF TypeOK, Control, LiveSend, Rest
  <2>7. CASE SayNil(p)
    BY <2>7 DEF TypeOK, Control, SayNil, Rest, local
  <2>8. QED
    BY <1>1, <2>1, <2>2, <2>3, <2>4, <2>5, <2>6, <2>7 DEF Continue
<1>2. ASSUME NEW c \in Conns, HelloRead(c) \/ HelloAllow(c) \/ HelloConnect(c) \/ Greet(c)
      PROVE  Control'
  <2>1. CASE HelloRead(c)
    BY <2>1 DEF TypeOK, Control, HelloRead
  <2>2. CASE HelloAllow(c)
    BY <2>2 DEF TypeOK, Control, HelloAllow, local
  <2>3. CASE HelloConnect(c)
    BY <2>3 DEF TypeOK, Control, HelloConnect, local
  <2>4. CASE Greet(c)
    <3>1. UNCHANGED <<who, sample>>
      BY <2>4 DEF Greet
    <3>2. CASE pc' = [pc EXCEPT ![c] = "bp_online"] /\ ret' = [ret EXCEPT ![c] = "ready"]
      BY <3>1, <3>2 DEF TypeOK, Control
    <3>3. CASE pc' = [pc EXCEPT ![c] = "ready"] /\ UNCHANGED ret
      BY <3>1, <3>3 DEF TypeOK, Control
    <3>4. QED
      BY <2>4, <3>2, <3>3 DEF Greet, CallBroadcast
  <2>5. QED
    BY <1>2, <2>1, <2>2, <2>3, <2>4
<1>3. ASSUME NEW c \in Conns, Unregister(c) \/ EndSessions(c) \/ EndSessionsFails(c)
      PROVE  Control'
  <2>1. CASE Unregister(c)
    <3>1. UNCHANGED <<who, sample>>
      BY <2>1 DEF Unregister
    <3>2. \/ pc' = [pc EXCEPT ![c] = "end_sessions"] /\ ret' = [ret EXCEPT ![c] = AfterGoodbye(Owner[c])]
          \/ pc' = [pc EXCEPT ![c] = "gone"] /\ UNCHANGED ret
      BY <2>1 DEF Unregister
    <3>3. AfterGoodbye(Owner[c]) \in {"gone", "bye_nil"}
      BY DEF AfterGoodbye
    <3>4. CASE pc' = [pc EXCEPT ![c] = "gone"] /\ UNCHANGED ret
      BY <3>1, <3>4 DEF TypeOK, Control
    <3>5. CASE pc' = [pc EXCEPT ![c] = "end_sessions"]
               /\ ret' = [ret EXCEPT ![c] = AfterGoodbye(Owner[c])]
      <4> DEFINE g == AfterGoodbye(Owner[c])
      <4>1. g \in {"gone", "bye_nil"} /\ ret' = [ret EXCEPT ![c] = g]
        BY <3>3, <3>5
      <4> HIDE DEF g
      <4>2. QED
        BY <3>1, <3>5, <4>1 DEF TypeOK, Control
    <3>6. QED
      BY <3>2, <3>4, <3>5
  <2>2. CASE EndSessions(c)
    BY <2>2 DEF TypeOK, Control, EndSessions, local
  <2>3. CASE EndSessionsFails(c)
    BY <2>3 DEF TypeOK, Control, EndSessionsFails, local
  <2>4. QED
    BY <1>3, <2>1, <2>2, <2>3
<1>4. ASSUME NEW c \in Conns, NEW g \in Games,
             GameStarted(c, g) \/ GameStopped(c, g) \/ LiveSample(c, g) \/ LiveEnded(c, g)
      PROVE  Control'
  <2>1. CASE GameStarted(c, g) \/ GameStopped(c, g)
    <3>1. /\ CallBroadcast(c, "ready") /\ pc[c] = "ready"
          /\ UNCHANGED <<who, sample>>
      BY <2>1 DEF GameStarted, GameStopped
    <3>2. QED
      BY <1>4, <3>1 DEF TypeOK, Control, CallBroadcast, Goto, Procs, Broadcasting
  <2>2. CASE LiveSample(c, g)
    BY <2>2 DEF TypeOK, Control, LiveSample
  <2>3. CASE LiveEnded(c, g)
    BY <2>3 DEF TypeOK, Control, LiveEnded, local
  <2>4. QED
    BY <1>4, <2>1, <2>2, <2>3
<1>5. ASSUME NEW r \in Requests,
             \/ ChangeAccount(r) \/ RequestRead(r) \/ RequestReadFails(r)
             \/ RequestAllow(r) \/ RequestCut(r)
      PROVE  Control'
  BY <1>5 DEF TypeOK, Control, ChangeAccount, RequestRead, RequestReadFails, RequestAllow,
              RequestCut, CallBroadcast, local
<1>6. ASSUME PollPlayers \/ PollRead \/ PollAllow PROVE Control'
  BY <1>6, GamesAssumption DEF TypeOK, Control, PollPlayers, PollRead, PollAllow
<1>7. ASSUME NEW u \in Users, PollVisits(u) PROVE Control'
  <2>1. CASE PollNothing(u)
    BY <2>1 DEF TypeOK, Control, PollNothing, Visit
  <2>2. CASE PollEnded(u)
    BY <2>2 DEF TypeOK, Control, PollEnded, Visit
  <2>3. CASE PollPlaying(u)
    BY <2>3, GamesAssumption DEF TypeOK, Control, PollPlaying, Visit
  <2>4. QED
    BY <1>7, <2>1, <2>2, <2>3 DEF PollVisits
<1>8. ASSUME SweeperRuns PROVE Control'
  BY <1>8 DEF Control, SweeperRuns, Sweep, SweepSay
<1>9. ASSUME (\E g \in Hideable : SetGameHidden(g)) \/ (\E u \in Users : Elapse(u))
      PROVE  Control'
  BY <1>9 DEF Control, SetGameHidden, Elapse, local
<1>10. ASSUME Restart PROVE Control'
  BY <1>10 DEF Control, Restart, StartMembers, StartLabels, Background
<1>11. QED
  BY <1>1, <1>2, <1>3, <1>4, <1>5, <1>6, <1>7, <1>8, <1>9, <1>10
     DEF Next, ConnContinues, ConnBegins, RequestContinues, PollerContinues

-----------------------------------------------------------------------------
(* Most steps concern none of the three invariants: they keep the count,   *)
(* the open sessions and every unregister on its way, and store a client's *)
(* match only for a member who is online.                                  *)
Harmless ==
    /\ UNCHANGED <<online, open, leaked>>
    /\ SameCounted
    /\ \A c \in Conns : pc[c] = "end_sessions" => pc'[c] = "end_sessions"
    /\ \A u \in Users :
          \/ live'[u] = live[u]
          \/ live'[u] = NoEntry
          \/ live'[u].source = "server"
          \/ online[u] > 0

LEMMA HarmlessKeeps ==
    ASSUME IInv, Harmless
    PROVE  ConnCount' /\ ClientLiveHasConn' /\ ClientSessionsOwned'
<1>1. ConnCount'
  BY CountKept DEF IInv, Harmless
<1>2. ClientLiveHasConn'
  BY DEF IInv, Harmless, ClientLiveHasConn, HasLive
<1>3. ClientSessionsOwned'
  BY DEF IInv, Harmless, ClientSessionsOwned
<1>4. QED
  BY <1>1, <1>2, <1>3

LEMMA ContinueHarmless ==
    ASSUME IInv, NEW p \in Procs, Continue(p)
    PROVE  Harmless
<1> USE Kinds DEF IInv, Goto, Harmless, SameCounted, Counted, Broadcasting, hub, db
<1>1. CASE ReadOnline(p)
  BY <1>1 DEF TypeOK, ReadOnline
<1>2. CASE ReadSession(p)
  BY <1>2 DEF TypeOK, ReadSession
<1>3. CASE SendPresence(p)
  BY <1>3 DEF TypeOK, Control, SendPresence
<1>4. CASE LiveStore(p)
  <2>1. SameCounted /\ UNCHANGED <<online, open, leaked>>
    BY <1>4 DEF TypeOK, LiveStore, Rest
  <2>2. p \in Conns => online[who[p]] > 0
    <3> SUFFICES ASSUME p \in Conns PROVE online[who[p]] > 0
      OBVIOUS
    <3>1. Counted(p) /\ who[p] = Owner[p]
      BY <1>4 DEF LiveStore, Control
    <3>2. QED
      BY <3>1, CountedOnline
  <2>3. \A u \in Users : live'[u] = live[u] \/ live'[u].source = "server" \/ online[u] > 0
    BY <1>4, <2>2 DEF TypeOK, LiveStore
  <2>4. QED
    BY <1>4, <2>1, <2>3 DEF TypeOK, LiveStore, Rest
<1>5. CASE LiveRead(p)
  BY <1>5 DEF TypeOK, LiveRead
<1>6. CASE LiveSend(p)
  BY <1>6 DEF TypeOK, LiveSend, Rest
<1>7. CASE SayNil(p)
  BY <1>7 DEF TypeOK, SayNil, Rest, local
<1>8. QED
  BY <1>1, <1>2, <1>3, <1>4, <1>5, <1>6, <1>7 DEF Continue

LEMMA ConnHarmless ==
    ASSUME IInv, NEW c \in Conns,
           \/ HelloRead(c) \/ HelloAllow(c) \/ Greet(c)
           \/ \E g \in Games : LiveSample(c, g) \/ LiveEnded(c, g)
    PROVE  Harmless
<1> USE Kinds DEF IInv, TypeOK, Goto, Harmless, SameCounted, Counted, hub, db
<1>1. CASE HelloRead(c)
  BY <1>1 DEF HelloRead
<1>2. CASE HelloAllow(c)
  BY <1>2 DEF HelloAllow, local
<1>3. CASE Greet(c)
  <2>1. CASE pc[c] = "greet_first" /\ pc' = [pc EXCEPT ![c] = "bp_online"]
             /\ ret' = [ret EXCEPT ![c] = "ready"]
    BY <1>3, <2>1 DEF Greet
  <2>2. CASE pc[c] = "greet_again" /\ pc' = [pc EXCEPT ![c] = "ready"] /\ UNCHANGED ret
    BY <1>3, <2>2 DEF Greet
  <2>3. QED
    BY <1>3, <2>1, <2>2 DEF Greet, CallBroadcast
<1>4. ASSUME NEW g \in Games, LiveSample(c, g) PROVE Harmless
  BY <1>4 DEF LiveSample
<1>5. ASSUME NEW g \in Games, LiveEnded(c, g) PROVE Harmless
  BY <1>5 DEF LiveEnded, ForgetLive, local
<1>6. QED
  BY <1>1, <1>2, <1>3, <1>4, <1>5

LEMMA RequestHarmless ==
    ASSUME IInv, NEW r \in Requests,
           \/ ChangeAccount(r) \/ RequestRead(r) \/ RequestReadFails(r)
           \/ RequestAllow(r) \/ RequestCut(r)
    PROVE  Harmless
<1> USE Kinds DEF IInv, TypeOK, Goto, Harmless, SameCounted, Counted, hub, db, local
<1>1. CASE ChangeAccount(r)
  BY <1>1 DEF ChangeAccount
<1>2. CASE RequestRead(r)
  BY <1>2 DEF RequestRead, CallBroadcast
<1>3. CASE RequestReadFails(r)
  BY <1>3 DEF RequestReadFails
<1>4. CASE RequestAllow(r)
  BY <1>4 DEF RequestAllow
<1>5. CASE RequestCut(r)
  BY <1>5 DEF RequestCut, ForgetLive
<1>6. QED
  BY <1>1, <1>2, <1>3, <1>4, <1>5

LEMMA BackgroundHarmless ==
    ASSUME IInv,
           \/ PollPlayers \/ PollRead \/ PollAllow
           \/ \E u \in Users : PollVisits(u)
           \/ SweeperRuns
           \/ \E g \in Hideable : SetGameHidden(g)
           \/ \E u \in Users : Elapse(u)
    PROVE  Harmless
<1> USE Kinds DEF IInv, TypeOK, Goto, Harmless, SameCounted, Counted, hub, db, local
<1>1. CASE PollPlayers
  BY <1>1 DEF PollPlayers
<1>2. CASE PollRead
  BY <1>2 DEF PollRead
<1>3. CASE PollAllow
  BY <1>3 DEF PollAllow
<1>4. ASSUME NEW u \in Users, PollVisits(u) PROVE Harmless
  <2>1. CASE PollNothing(u)
    BY <2>1 DEF PollNothing
  <2>2. CASE PollEnded(u)
    BY <2>2 DEF PollEnded, ForgetLive
  <2>3. CASE PollPlaying(u)
    BY <2>3 DEF PollPlaying
  <2>4. QED
    BY <1>4, <2>1, <2>2, <2>3 DEF PollVisits
<1>5. CASE SweeperRuns
  BY <1>5 DEF SweeperRuns, Sweep, SweepSay
<1>6. CASE \E g \in Hideable : SetGameHidden(g)
  BY <1>6 DEF SetGameHidden
<1>7. ASSUME NEW u \in Users, Elapse(u) PROVE Harmless
  <2>1. live[u].source = "client" => online[u] > 0
    BY <1>7 DEF Elapse, ClientLiveHasConn
  <2>2. live'[u].source = live[u].source /\ live[u] \in Entries
    BY <1>7 DEF Elapse, HasLive
  <2>3. \A v \in Users \ {u} : live'[v] = live[v]
    BY <1>7 DEF Elapse
  <2>4. \A v \in Users : live'[v] = live[v] \/ live'[v].source = "server" \/ online[v] > 0
    BY <2>1, <2>2, <2>3 DEF Entries
  <2>5. QED
    BY <1>7, <2>4 DEF Elapse
<1>8. QED
  BY <1>1, <1>2, <1>3, <1>4, <1>5, <1>6, <1>7

-----------------------------------------------------------------------------
(* The steps the invariants are about.                                     *)

Kept == ConnCount' /\ ClientLiveHasConn' /\ ClientSessionsOwned'

LEMMA ConnectKeeps ==
    ASSUME IInv, NEW c \in Conns, HelloConnect(c)
    PROVE  Kept
<1> USE DEF IInv, TypeOK, Goto
<1>1. c \in Procs /\ Owner[c] \in Users
  BY OwnerAssumption, Kinds
<1>2. online' = [online EXCEPT ![Owner[c]] = @ + 1]
  BY DEF HelloConnect, Connected
<1>3. UNCHANGED <<open, leaked, live, ret>>
  BY DEF HelloConnect, db, local
<1>4. /\ ~Counted(c) /\ Counted(c)'
      /\ \A d \in Conns \ {c} : Counted(d)' <=> Counted(d)
      /\ \A d \in Conns : pc[d] = "end_sessions" => pc'[d] = "end_sessions"
  BY <1>1, <1>3, Kinds DEF HelloConnect, Counted
<1>5. ConnCount'
  BY <1>2, <1>4, CountUp
<1>6. \A u \in Users : online[u] > 0 => online'[u] > 0
  BY <1>1, <1>2
<1>7. ClientLiveHasConn'
  BY <1>3, <1>6 DEF ClientLiveHasConn, HasLive
<1>8. ClientSessionsOwned'
  BY <1>3, <1>4, <1>6 DEF ClientSessionsOwned, Store!Sessions
<1>9. QED
  BY <1>5, <1>7, <1>8 DEF Kept

LEMMA GameEventKeeps ==
    ASSUME IInv, NEW c \in Conns, NEW g \in Games, GameStarted(c, g) \/ GameStopped(c, g)
    PROVE  Kept
<1> USE DEF IInv, TypeOK, Goto
<1>1. c \in Procs /\ Owner[c] \in Users
  BY OwnerAssumption, Kinds
<1>2. UNCHANGED <<online, live>>
  BY DEF GameStarted, GameStopped, hub
<1>3. /\ Counted(c) /\ SameCounted
      /\ \A d \in Conns : pc[d] = "end_sessions" => pc'[d] = "end_sessions"
  BY <1>1, Kinds DEF GameStarted, GameStopped, CallBroadcast, Counted, SameCounted
<1>4. ConnCount'
  BY <1>2, <1>3, CountKept
<1>5. ClientLiveHasConn'
  BY <1>2 DEF ClientLiveHasConn, HasLive
<1>6. online[Owner[c]] > 0
  BY <1>3, CountedOnline
<1>7. \A s \in open' : (s \in open \/ s.user = Owner[c])
  BY DEF GameStarted, GameStopped, Store!Start, Store!End
<1>8. \A s \in open' : s \in leaked => s \in leaked'
  BY DEF GameStarted, GameStopped
<1>9. ClientSessionsOwned'
  BY <1>2, <1>3, <1>6, <1>7, <1>8 DEF ClientSessionsOwned
<1>10. QED
  BY <1>4, <1>5, <1>9 DEF Kept

(* The last connection takes the member's match in the same critical       *)
(* section, and leaves the sessions to the query it is about to run.       *)
LEMMA UnregisterKeeps ==
    ASSUME IInv, NEW c \in Conns, Unregister(c)
    PROVE  Kept
<1> DEFINE u == Owner[c]
<1> USE DEF IInv, TypeOK, Goto
<1>1. c \in Procs /\ u \in Users
  BY OwnerAssumption, Kinds
<1>2. UNCHANGED <<open, leaked>> /\ online' = [online EXCEPT ![u] = @ - 1]
  BY DEF Unregister, db
<1>3. /\ Counted(c) /\ ~Counted(c)'
      /\ \A d \in Conns \ {c} : Counted(d)' <=> Counted(d)
      /\ \A d \in Conns : pc[d] = "end_sessions" => pc'[d] = "end_sessions"
  BY <1>1, Kinds DEF Unregister, Authenticated, Counted
<1>4. ConnCount'
  BY <1>2, <1>3, CountDown
<1>5. online[u] > 0
  BY <1>3, CountedOnline
<1>6. CASE IsLast(u)
  <2>1. live' = [live EXCEPT ![u] = NoEntry] /\ pc'[c] = "end_sessions"
    BY <1>1, <1>6, Kinds DEF Unregister, ForgetLive
  <2>2. \A v \in Users \ {u} : online'[v] = online[v] /\ live'[v] = live[v]
    BY <1>2, <2>1
  <2>3. ClientLiveHasConn'
    BY <1>1, <2>1, <2>2 DEF ClientLiveHasConn, HasLive
  <2>4. ClientSessionsOwned'
    BY <1>2, <1>3, <2>1, <2>2 DEF ClientSessionsOwned, Store!Sessions
  <2>5. QED
    BY <1>4, <2>3, <2>4 DEF Kept
<1>7. CASE ~IsLast(u)
  <2>1. \A v \in Users : online[v] > 0 => online'[v] > 0
    BY <1>1, <1>2, <1>5, <1>7 DEF IsLast
  <2>2. UNCHANGED live
    BY <1>7 DEF Unregister
  <2>3. ClientLiveHasConn'
    BY <2>1, <2>2 DEF ClientLiveHasConn, HasLive
  <2>4. ClientSessionsOwned'
    BY <1>2, <1>3, <2>1 DEF ClientSessionsOwned, Store!Sessions
  <2>5. QED
    BY <1>4, <2>3, <2>4 DEF Kept
<1>8. QED
  BY <1>6, <1>7

LEMMA EndSessionsKeeps ==
    ASSUME IInv, NEW c \in Conns, EndSessions(c) \/ EndSessionsFails(c)
    PROVE  Kept
<1> USE DEF IInv, TypeOK, Goto
<1>1. c \in Procs /\ Owner[c] \in Users
  BY OwnerAssumption, Kinds
<1>2. UNCHANGED <<online, live, ret>>
  BY DEF EndSessions, EndSessionsFails, hub, local
<1>3. /\ SameCounted
      /\ \A d \in Conns \ {c} : pc'[d] = pc[d]
  BY <1>1, <1>2, Kinds DEF EndSessions, EndSessionsFails, Control, SameCounted, Counted
<1>4. ConnCount'
  BY <1>2, <1>3, CountKept
<1>5. ClientLiveHasConn'
  BY <1>2 DEF ClientLiveHasConn, HasLive
<1>6. \A s \in open' :
         /\ s \in open
         /\ s.source = "client" /\ s \notin leaked' => s.user # Owner[c] /\ s \notin leaked
  BY DEF EndSessions, EndSessionsFails, Store!EndClient, Store!OpenClient
<1>7. ClientSessionsOwned'
  BY <1>2, <1>3, <1>6 DEF ClientSessionsOwned
<1>8. QED
  BY <1>4, <1>5, <1>7 DEF Kept

(* Nothing in memory survives, so nothing is left to be wrong about it; the *)
(* client sessions the database keeps are exactly those recorded as leaked. *)
LEMMA RestartKeeps ==
    ASSUME IInv, Restart
    PROVE  Kept
<1>1. \A c \in Conns : ~Counted(c)'
  BY Kinds DEF Restart, StartLabels, Counted
<1>2. ASSUME NEW u \in Users PROVE CountedOf(u)' = {}
  BY <1>1 DEF CountedOf
<1>3. ConnCount'
  BY <1>2, FS_EmptySet DEF ConnCount, CountedOf, Restart, Everyone
<1>4. ClientLiveHasConn'
  BY DEF Restart, Everyone, ClientLiveHasConn, HasLive
<1>5. ClientSessionsOwned'
  BY DEF Restart, ClientSessionsOwned
<1>6. QED
  BY <1>3, <1>4, <1>5 DEF Kept

LEMMA Inductive == IInv /\ [Next]_vars => IInv'
<1> SUFFICES ASSUME IInv, [Next]_vars PROVE IInv'
  OBVIOUS
<1>1. CASE UNCHANGED vars
  <2>1. SameCounted
    BY <1>1 DEF SameCounted, Counted, vars, local
  <2>2. ConnCount'
    BY <1>1, <2>1, CountKept DEF IInv, vars, hub
  <2>3. QED
    BY <1>1, <2>2 DEF IInv, vars, db, hub, local, page, TypeOK, Control, ClientLiveHasConn,
                      HasLive, ClientSessionsOwned
<1>2. CASE Next
  <2>1. TypeOK'
    BY <1>2, Kinds, BroadcastTypes, LiveTypes, ConnTypes, EventTypes, RequestTypes,
       BackgroundTypes, OtherTypes
       DEF IInv, Next, ConnContinues, ConnBegins, RequestContinues, PollerContinues, Continue
  <2>2. Control'
    BY <1>2, ControlStep DEF IInv
  <2>3. Kept
    BY <1>2, Kinds, HarmlessKeeps, ContinueHarmless, ConnHarmless, RequestHarmless,
       BackgroundHarmless, ConnectKeeps, GameEventKeeps, UnregisterKeeps, EndSessionsKeeps,
       RestartKeeps
       DEF Next, ConnContinues, ConnBegins, RequestContinues, PollerContinues, Kept
  <2>4. QED
    BY <2>1, <2>2, <2>3 DEF IInv, Kept
<1>3. QED
  BY <1>1, <1>2

LEMMA InvariantHolds == Spec => []IInv
<1>1. Init => IInv
  <2> SUFFICES ASSUME Init PROVE IInv
    OBVIOUS
  <2>1. TypeOK
    BY OwnerAssumption, UsersAssumption, BoundsAssumption
       DEF Init, TypeOK, Everyone, EachProc, StartLabels, StartMembers, Labels, Returns,
           Nobody, NoIdent, NothingSeen, Accounts, Procs, Background
  <2>2. Control
    BY Kinds DEF Init, Control, Broadcasting, StartLabels, StartMembers, Background
  <2>3. ASSUME NEW u \in Users PROVE CountedOf(u) = {}
    BY Kinds DEF Init, StartLabels, Counted, CountedOf
  <2>4. ConnCount
    BY <2>3, FS_EmptySet DEF Init, ConnCount, CountedOf, Everyone
  <2>5. ClientLiveHasConn /\ ClientSessionsOwned
    BY DEF Init, ClientLiveHasConn, ClientSessionsOwned, HasLive, Everyone
  <2>6. QED
    BY <2>1, <2>2, <2>4, <2>5 DEF IInv
<1>2. QED
  BY <1>1, Inductive, PTL DEF Spec

(* The variables of the hub, the database and the pages keep their types.  *)
THEOREM TypeCorrect == Spec => []TypeOK
<1>1. IInv => TypeOK
  BY DEF IInv
<1>2. QED
  BY <1>1, InvariantHolds, PTL

(* Hub.online counts the connections between connect and unregister, for   *)
(* any number of devices whose handshakes and drops interleave.            *)
THEOREM ConnectionsCounted == Spec => []ConnCount
<1>1. IInv => ConnCount
  BY DEF IInv
<1>2. QED
  BY <1>1, InvariantHolds, PTL

(* A match pushed by a client never outlives its member's last connection. *)
THEOREM ClientMatchHasConnection == Spec => []ClientLiveHasConn
<1>1. IInv => ClientLiveHasConn
  BY DEF IInv
<1>2. QED
  BY <1>1, InvariantHolds, PTL

(* Without a restart or a failed query, an open client session always has  *)
(* a connection, or an unregister under way, that will close it.           *)
THEOREM SessionsHaveCloser == Spec => []ClientSessionsOwned
<1>1. IInv => ClientSessionsOwned
  BY DEF IInv
<1>2. QED
  BY <1>1, InvariantHolds, PTL

-----------------------------------------------------------------------------
(* Steps of connections and requests are not steps of the background, and  *)
(* most background steps touch no match.                                   *)

LEMMA ForegroundRespects ==
    ASSUME \A b \in Background : pc'[b] = pc[b] /\ queue'[b] = queue[b] /\ sample'[b] = sample[b]
    PROVE  ClientRespected
  BY DEF ClientRespected, BackgroundActs

LEMMA UntouchedRespects ==
    ASSUME UNCHANGED live
    PROVE  ClientRespected
  BY DEF ClientRespected

LEMMA ContinueRespects ==
    ASSUME TypeOK, NEW p \in Conns \cup Requests \cup {Poller}, Continue(p)
    PROVE  ClientRespected
<1> USE Kinds
<1>1. CASE LiveStore(p) /\ p = Poller
  <2>1. p \notin Conns /\ who[p] \in Users
    BY <1>1, Kinds DEF TypeOK
  <2>2. CASE UNCHANGED live
    BY <2>2, UntouchedRespects
  <2>3. CASE /\ ~HeldByFreshClient(who[p], sample[p])
             /\ live' = [live EXCEPT ![who[p]] =
                           [game |-> sample[p], source |-> "server", fresh |-> TRUE]]
    <3> SUFFICES ASSUME NEW u \in Users, live[u].source = "client", live[u].fresh
                 PROVE  \/ live'[u] = live[u]
                        \/ live'[u].source = "server" /\ live'[u].game # live[u].game
      BY DEF ClientRespected
    <3>1. CASE u # who[p]
      BY <2>3, <3>1 DEF TypeOK
    <3>2. CASE u = who[p]
      <4>1. live[u].game # sample[p]
        <5>1. live[u] # [game |-> sample[p], source |-> "client", fresh |-> TRUE]
          BY <2>3, <3>2 DEF HeldByFreshClient
        <5>2. live[u] \in Entries
          BY DEF TypeOK, NoEntry
        <5>3. live[u] = [game |-> live[u].game, source |-> "client", fresh |-> TRUE]
          BY <5>2 DEF Entries
        <5>4. QED
          BY <5>1, <5>3
      <4>2. live'[u].source = "server" /\ live'[u].game = sample[p]
        BY <2>1, <2>3, <3>2 DEF TypeOK
      <4>3. QED
        BY <4>1, <4>2
    <3>3. QED
      BY <3>1, <3>2
  <2>4. QED
    BY <1>1, <2>1, <2>2, <2>3 DEF LiveStore
<1>2. CASE LiveStore(p) /\ p # Poller
  <2>1. \A b \in Background : b \in Procs /\ b # p
    BY <1>2 DEF Background
  <2>2. \A b \in Background :
           pc'[b] = pc[b] /\ queue'[b] = queue[b] /\ sample'[b] = sample[b]
    BY <1>2, <2>1 DEF TypeOK, LiveStore, Goto
  <2>3. QED
    BY <2>2, ForegroundRespects
<1>3. CASE ~LiveStore(p)
  BY <1>3, UntouchedRespects
     DEF Continue, ReadOnline, ReadSession, SendPresence, LiveRead, LiveSend, SayNil, hub
<1>4. QED
  BY <1>1, <1>2, <1>3

LEMMA ForegroundSteps ==
    ASSUME TypeOK,
           \/ \E c \in Conns : ConnContinues(c) \/ ConnBegins(c)
           \/ \E r \in Requests : RequestContinues(r) \/ ChangeAccount(r)
    PROVE  ClientRespected
<1> USE Kinds
<1>1. ASSUME NEW p \in Conns \cup Requests, NEW l \in Labels, Goto(p, l),
             UNCHANGED <<queue, sample>>
      PROVE  ClientRespected
  <2>1. \A b \in Background : b \in Procs /\ b # p
    BY DEF Background
  <2>2. \A b \in Background : pc'[b] = pc[b]
    BY <1>1, <2>1 DEF TypeOK, Goto
  <2>3. QED
    BY <1>1, <2>2, ForegroundRespects
<1>2. ASSUME NEW c \in Conns, NEW g \in Games, LiveEnded(c, g) PROVE ClientRespected
  BY <1>1, <1>2 DEF LiveEnded, local, Labels
<1>3. ASSUME NEW c \in Conns, Unregister(c) PROVE ClientRespected
  BY <1>1, <1>3 DEF Unregister, Labels
<1>4. ASSUME NEW r \in Requests, RequestCut(r) PROVE ClientRespected
  BY <1>1, <1>4 DEF RequestCut, local, Labels
<1>5. ASSUME NEW c \in Conns, ConnContinues(c) PROVE ClientRespected
  BY <1>5, ContinueRespects, UntouchedRespects
     DEF ConnContinues, HelloAllow, HelloConnect, Greet, EndSessions, EndSessionsFails, hub
<1>6. ASSUME NEW c \in Conns, ConnBegins(c) PROVE ClientRespected
  BY <1>6, <1>2, <1>3, UntouchedRespects
     DEF ConnBegins, HelloRead, GameStarted, GameStopped, LiveSample, hub
<1>7. ASSUME NEW r \in Requests, RequestContinues(r) \/ ChangeAccount(r) PROVE ClientRespected
  BY <1>7, <1>4, ContinueRespects, UntouchedRespects
     DEF RequestContinues, RequestRead, RequestReadFails, RequestAllow, ChangeAccount, hub
<1>8. QED
  BY <1>5, <1>6, <1>7

LEMMA BackgroundSteps ==
    ASSUME TypeOK, PollerContinues \/ PollPlayers \/ SweeperRuns
    PROVE  ClientRespected
<1> USE Kinds
<1>1. ASSUME NEW u \in Users, PollEnded(u) PROVE ClientRespected
  <2> SUFFICES ASSUME NEW v \in Users, live[v].source = "client", live[v].fresh
               PROVE  live'[v] = live[v]
    BY DEF ClientRespected
  <2>1. live' = [live EXCEPT ![u] = NoEntry]
    BY <1>1 DEF PollEnded, ForgetLive
  <2>2. CASE v = u
    <3>1. live[u].game = Polled /\ live[u] \in Entries
      BY <1>1, <2>2 DEF PollEnded, TypeOK, NoEntry
    <3>2. live[u] = [game |-> Polled, source |-> "client", fresh |-> TRUE]
      BY <2>2, <3>1 DEF Entries
    <3>3. QED
      BY <1>1, <3>2 DEF PollEnded, HeldByFreshClient
  <2>3. QED
    BY <2>1, <2>2 DEF TypeOK
<1>2. CASE Sweep
  BY <1>2 DEF Sweep, Expired, ClientRespected, TypeOK
<1>3. ASSUME NEW u \in Users, PollVisits(u) PROVE ClientRespected
  BY <1>1, <1>3, UntouchedRespects DEF PollVisits, PollNothing, PollPlaying, hub
<1>4. CASE PollerContinues \/ PollPlayers
  BY <1>3, <1>4, ContinueRespects, UntouchedRespects
     DEF PollerContinues, PollPlayers, PollRead, PollAllow, hub
<1>5. CASE SweeperRuns
  BY <1>2, <1>5, UntouchedRespects DEF SweeperRuns, SweepSay, hub
<1>6. QED
  BY <1>4, <1>5

(* The arbitration rule of setLive and clearLive, over every interleaving  *)
(* of the poller, the sweep and any number of clients: no background step  *)
(* takes down or overwrites the match of a fresh client.                   *)
THEOREM FreshClientNeverOverridden == Spec => FreshClientWins
<1>1. TypeOK /\ [Next]_vars => [ClientRespected]_vars
  <2> SUFFICES ASSUME TypeOK, Next PROVE ClientRespected
    OBVIOUS
  <2>1. CASE \/ \E c \in Conns : ConnContinues(c) \/ ConnBegins(c)
             \/ \E r \in Requests : RequestContinues(r) \/ ChangeAccount(r)
    BY <2>1, ForegroundSteps
  <2>2. CASE PollerContinues \/ PollPlayers \/ SweeperRuns
    BY <2>2, BackgroundSteps
  <2>3. CASE \E g \in Hideable : SetGameHidden(g)
    BY <2>3, UntouchedRespects DEF SetGameHidden, hub
  <2>4. CASE \E u \in Users : Elapse(u)
    BY <2>4, ForegroundRespects DEF Elapse, local
  <2>5. CASE Restart
    BY <2>5, BoundsAssumption DEF Restart, ClientRespected, TypeOK
  <2>6. QED
    BY <2>1, <2>2, <2>3, <2>4, <2>5 DEF Next
<1>2. QED
  BY <1>1, TypeCorrect, PTL DEF Spec, FreshClientWins

-----------------------------------------------------------------------------
(* What the pages show, when each member has one device and no request     *)
(* changes an account: two broadcasts about one member can otherwise       *)
(* overtake each other, and neither property holds.                        *)

OneDevice == \A c, d \in Conns : Owner[c] = Owner[d] => c = d

(* The pages show the presence of u, up to games hidden or brought back.   *)
Told(u) ==
    \E H \in SUBSET Hideable :
        shown[u] = Status(account[u], online[u] > 0, PlayingUnless(u, H))

(* A broadcast about the member is due, or under way. *)
Speaking == Broadcasting \cup {"greet_first", "end_sessions"}

SeenOnline(c) == seen[c].online <=> online[Owner[c]] > 0

SeenPlaying(c) == \E H \in SUBSET Hideable : seen[c].playing <=> PlayingUnless(Owner[c], H)

(* What a connection has read so far still holds, and there is a broadcast *)
(* to come whenever the pages are behind.                                  *)
ConnTold(c) ==
    /\ pc[c] # "greet_again"
    /\ pc[c] \notin {"gone", "bye_nil"} => ident[c] = account[Owner[c]]
    /\ pc[c] = "bp_session" => SeenOnline(c)
    /\ pc[c] = "bp_send" => SeenOnline(c) /\ SeenPlaying(c)
    /\ pc[c] \notin Speaking => Told(Owner[c])

Absent(u) == \A c \in Conns : Owner[c] # u

ToldInv ==
    /\ hidden \subseteq Hideable
    /\ pc[Poller] \notin Broadcasting
    /\ \A c \in Conns : ConnTold(c)
    /\ \A u \in Users : Absent(u) => Told(u)

(* The nil match is on its way. *)
NilDue(c) ==
    \/ pc[c] \in {"say_nil", "bye_nil"}
    \/ pc[c] \in Broadcasting \cup {"end_sessions"} /\ ret[c] = "bye_nil"

(* A match about to be sent is held, and one that is no longer held will   *)
(* be taken down.                                                          *)
ConnCard(c) ==
    /\ pc[c] \in {"live_read", "live_send"} => live[Owner[c]].fresh
    /\ card[Owner[c]] # NoGame =>
          HasLive(Owner[c]) \/ Owner[c] \in queue[Sweeper] \/ NilDue(c)

CardInv ==
    /\ pc[Poller] = "idle" /\ queue[Poller] = {}
    /\ \A c \in Conns : ConnCard(c)
    /\ \A u \in Users : Absent(u) => card[u] = NoGame

(* What a step of a connection leaves alone: everything about other        *)
(* members and in the hands of other goroutines.                           *)
SameLocal(p) == pc'[p] = pc[p] /\ ident'[p] = ident[p] /\ seen'[p] = seen[p] /\ ret'[p] = ret[p]

SameMember(u) == online'[u] = online[u] /\ shown'[u] = shown[u]

SameGames(u) == \A H \in SUBSET Hideable : PlayingUnless(u, H)' <=> PlayingUnless(u, H)

SameMatch(u) == live'[u] = live[u] /\ card'[u] = card[u]

OwnOnly(c) ==
    /\ UNCHANGED <<account, hidden, queue>>
    /\ \A p \in Procs \ {c} : SameLocal(p)
    /\ \A u \in Users \ {Owner[c]} : SameMember(u) /\ SameGames(u) /\ SameMatch(u)

LEMMA ContinueOwnOnly ==
    ASSUME TypeOK, Control, NEW c \in Conns, Continue(c)
    PROVE  OwnOnly(c)
<1> USE DEF TypeOK, Goto, OwnOnly, SameLocal, SameMember, SameMatch, db, hub, local
<1>1. c \in Procs /\ who[c] = Owner[c] /\ Owner[c] \in Users
  BY OwnerAssumption, Kinds DEF Control
<1>2. UNCHANGED open
  BY DEF Continue, ReadOnline, ReadSession, SendPresence, LiveStore, LiveRead, LiveSend, SayNil
<1>3. \A u \in Users : SameGames(u)
  BY <1>2 DEF SameGames, PlayingUnless
<1>4. CASE ReadOnline(c) \/ ReadSession(c)
  BY <1>1, <1>3, <1>4 DEF ReadOnline, ReadSession, page
<1>5. CASE SendPresence(c)
  BY <1>1, <1>3, <1>5 DEF SendPresence
<1>6. CASE LiveStore(c)
  BY <1>1, <1>3, <1>6 DEF LiveStore, page
<1>7. CASE LiveRead(c)
  BY <1>1, <1>3, <1>7 DEF LiveRead, page
<1>8. CASE LiveSend(c) \/ SayNil(c)
  BY <1>1, <1>3, <1>8 DEF LiveSend, SayNil
<1>9. QED
  BY <1>4, <1>5, <1>6, <1>7, <1>8 DEF Continue

LEMMA ConnOwnOnly ==
    ASSUME TypeOK, Control, NEW c \in Conns, ConnContinues(c) \/ ConnBegins(c)
    PROVE  OwnOnly(c)
<1> USE DEF TypeOK, Goto, OwnOnly, SameLocal, SameMember, SameMatch, db, hub, local, page
<1>1. c \in Procs /\ Owner[c] \in Users
  BY OwnerAssumption, Kinds
<1>2. UNCHANGED open => \A u \in Users : SameGames(u)
  BY DEF SameGames, PlayingUnless
<1>3. (\A s \in open \cup open' : s.user # Owner[c] => (s \in open <=> s \in open'))
        => \A u \in Users \ {Owner[c]} : SameGames(u)
  BY DEF SameGames, PlayingUnless
<1>4. CASE HelloRead(c) \/ HelloAllow(c) \/ HelloConnect(c) \/ Greet(c)
  BY <1>1, <1>2, <1>4 DEF HelloRead, HelloAllow, SetLiveVisible, HelloConnect, Connected, Greet,
                          CallBroadcast
<1>5. ASSUME NEW g \in Games, GameStarted(c, g) \/ GameStopped(c, g) PROVE OwnOnly(c)
  <2>1. \A s \in open \cup open' : s.user # Owner[c] => (s \in open <=> s \in open')
    BY <1>5 DEF GameStarted, GameStopped, Store!Start, Store!End, Store!OpenFor
  <2>2. QED
    BY <1>1, <1>3, <1>5, <2>1 DEF GameStarted, GameStopped, CallBroadcast
<1>6. ASSUME NEW g \in Games, LiveSample(c, g) \/ LiveEnded(c, g) PROVE OwnOnly(c)
  BY <1>1, <1>2, <1>6 DEF LiveSample, LiveEnded, ForgetLive
<1>7. CASE Unregister(c)
  <2>1. UNCHANGED <<account, hidden, queue, seen, shown, card, open>>
        /\ online' = [online EXCEPT ![Owner[c]] = @ - 1]
    BY <1>7 DEF Unregister
  <2>2. \A p \in Procs \ {c} : pc'[p] = pc[p] /\ ident'[p] = ident[p] /\ ret'[p] = ret[p]
    BY <1>1, <1>7 DEF Unregister
  <2>3. \A u \in Users \ {Owner[c]} : live'[u] = live[u]
    BY <1>7 DEF Unregister, ForgetLive
  <2>4. QED
    BY <1>2, <2>1, <2>2, <2>3
<1>8. CASE EndSessions(c) \/ EndSessionsFails(c)
  <2>1. \A s \in open \cup open' : s.user # Owner[c] => (s \in open <=> s \in open')
    BY <1>8 DEF EndSessions, EndSessionsFails, Store!EndClient, Store!OpenClient
  <2>2. QED
    BY <1>1, <1>3, <1>8, <2>1 DEF EndSessions, EndSessionsFails
<1>9. CASE Continue(c)
  BY <1>9, ContinueOwnOnly
<1>10. QED
  BY <1>4, <1>5, <1>6, <1>7, <1>8, <1>9 DEF ConnContinues, ConnBegins

LEMMA ToldKept ==
    ASSUME NEW u \in Users, Told(u), UNCHANGED account, SameMember(u), SameGames(u)
    PROVE  Told(u)'
<1>1. PICK H \in SUBSET Hideable :
         shown[u] = Status(account[u], online[u] > 0, PlayingUnless(u, H))
  BY DEF Told
<1>2. shown'[u] = Status(account'[u], online'[u] > 0, PlayingUnless(u, H)')
  BY <1>1 DEF Status, SameMember, SameGames
<1>3. QED
  BY <1>2 DEF Told

LEMMA ConnToldKept ==
    ASSUME NEW d \in Conns, ConnTold(d), UNCHANGED account, SameLocal(d),
           SameMember(Owner[d]), SameGames(Owner[d])
    PROVE  ConnTold(d)'
<1>1. Owner[d] \in Users
  BY OwnerAssumption
<1>2. Told(Owner[d]) => Told(Owner[d])'
  BY <1>1, ToldKept
<1>3. SeenOnline(d) => SeenOnline(d)'
  BY DEF SeenOnline, SameLocal, SameMember
<1>4. SeenPlaying(d) => SeenPlaying(d)'
  BY DEF SeenPlaying, SameLocal, SameGames
<1>5. QED
  BY <1>2, <1>3, <1>4 DEF ConnTold, SameLocal

(* With one device, a member is online while its connection is counted.    *)
LEMMA OneCounted ==
    ASSUME OneDevice, TypeOK, ConnCount, NEW c \in Conns
    PROVE  online[Owner[c]] = IF Counted(c) THEN 1 ELSE 0
<1>1. online[Owner[c]] = Cardinality(CountedOf(Owner[c]))
  BY OwnerAssumption DEF ConnCount, CountedOf
<1>2. CountedOf(Owner[c]) = IF Counted(c) THEN {c} ELSE {}
  BY DEF CountedOf, OneDevice
<1>3. Cardinality({c}) = 1 /\ Cardinality({}) = 0
  BY FS_EmptySet, FS_Singleton
<1>4. QED
  BY <1>1, <1>2, <1>3

(* A broadcast tells the pages what is so when it is sent.                 *)
LEMMA BroadcastTells ==
    ASSUME TypeOK, Control, ~DbMayFail, hidden \subseteq Hideable,
           NEW c \in Conns, ConnTold(c),
           ReadOnline(c) \/ ReadSession(c) \/ SendPresence(c)
    PROVE  ConnTold(c)'
<1> DEFINE u == Owner[c]
<1>1. c \in Procs /\ who[c] = u /\ u \in Users
  BY OwnerAssumption, Kinds DEF Control
<1>2. CASE ReadOnline(c)
  <2>1. /\ pc'[c] = "bp_session" /\ UNCHANGED <<online, account, ident>>
        /\ seen' = [seen EXCEPT ![c].online = online[u] > 0]
    BY <1>1, <1>2 DEF TypeOK, ReadOnline, Goto, db, hub
  <2>2. seen'[c].online <=> online[u] > 0
    <3> DEFINE b == online[u] > 0
    <3>1. b \in BOOLEAN /\ seen' = [seen EXCEPT ![c].online = b]
      BY <2>1
    <3> HIDE DEF b
    <3>2. seen'[c].online = b
      BY <1>1, <3>1 DEF TypeOK
    <3>3. QED
      BY <3>2 DEF b
  <2>3. ident[c] = account[u]
    BY <1>2 DEF ConnTold, ReadOnline
  <2>4. QED
    BY <2>1, <2>2, <2>3 DEF ConnTold, SeenOnline, Speaking, Broadcasting
<1>3. CASE ReadSession(c)
  <2>1. /\ pc'[c] = "bp_send" /\ UNCHANGED <<online, account, open, ident>>
        /\ seen' = [seen EXCEPT ![c].playing = Playing(u)]
    BY <1>1, <1>3 DEF TypeOK, ReadSession, Goto, db, hub
  <2>2. seen'[c].playing <=> PlayingUnless(u, hidden)
    <3> DEFINE b == Playing(u)
    <3>1. b \in BOOLEAN /\ seen' = [seen EXCEPT ![c].playing = b]
      BY <2>1 DEF Playing, PlayingUnless
    <3> HIDE DEF b
    <3>2. seen'[c].playing = b
      BY <1>1, <3>1 DEF TypeOK
    <3>3. QED
      BY <3>2 DEF b, Playing
  <2>3. seen'[c].online = seen[c].online
    BY <1>1, <2>1 DEF TypeOK
  <2>4. ident[c] = account[u] /\ SeenOnline(c)
    BY <1>3 DEF ConnTold, ReadSession
  <2>5. SeenOnline(c)'
    BY <2>1, <2>3, <2>4 DEF SeenOnline
  <2>6. SeenPlaying(c)'
    BY <2>1, <2>2 DEF SeenPlaying, PlayingUnless
  <2>7. QED
    BY <2>1, <2>4, <2>5, <2>6 DEF ConnTold, Speaking, Broadcasting
<1>4. CASE SendPresence(c)
  <2>1. /\ pc'[c] = ret[c] /\ UNCHANGED <<online, account, open>>
        /\ shown'[u] = Status(ident[c], seen[c].online, seen[c].playing)
        /\ ret[c] = "ready" => ident' = ident
    BY <1>1, <1>4 DEF TypeOK, SendPresence, Goto, db, hub
  <2>2. ret[c] \in {"ready", "gone", "bye_nil"}
    BY <1>4 DEF Control, SendPresence, Broadcasting
  <2>3. ident[c] = account[u] /\ SeenOnline(c) /\ SeenPlaying(c)
    BY <1>4 DEF ConnTold, SendPresence
  <2>4. PICK H \in SUBSET Hideable : seen[c].playing <=> PlayingUnless(u, H)
    BY <2>3 DEF SeenPlaying
  <2>5. shown'[u] = Status(account[u], online[u] > 0, PlayingUnless(u, H))
    BY <2>1, <2>3, <2>4 DEF Status, SeenOnline
  <2>6. Told(u)'
    BY <2>1, <2>5 DEF Told, PlayingUnless
  <2>7. QED
    BY <2>1, <2>2, <2>3, <2>6 DEF ConnTold
<1>5. QED
  BY <1>2, <1>3, <1>4

(* A step that tells nothing and calls for no broadcast. *)
LEMMA ToldUntouched ==
    ASSUME TypeOK, NEW c \in Conns, ConnTold(c), pc[c] \notin Speaking,
           UNCHANGED <<account, online, shown, open>>,
           pc'[c] \notin Speaking \cup {"greet_again"},
           pc'[c] \notin {"gone", "bye_nil"} => ident'[c] = account[Owner[c]]
    PROVE  ConnTold(c)'
<1>1. Told(Owner[c])
  BY DEF ConnTold
<1>2. Told(Owner[c])'
  BY <1>1, OwnerAssumption, ToldKept DEF SameMember, SameGames, PlayingUnless
<1>3. QED
  BY <1>2 DEF ConnTold, Speaking, Broadcasting

LEMMA OwnStepTells ==
    ASSUME OneDevice, ~DbMayFail, TypeOK, Control, ConnCount, hidden \subseteq Hideable,
           NEW c \in Conns, ConnTold(c), ConnContinues(c) \/ ConnBegins(c)
    PROVE  ConnTold(c)'
<1> DEFINE u == Owner[c]
<1>1. c \in Procs /\ who[c] = u /\ u \in Users /\ Rest(c) = "ready"
  BY OwnerAssumption, Kinds DEF Control, Rest
<1> USE DEF Goto
<1>2. ASSUME UNCHANGED <<account, ident>>, pc[c] \notin {"gone", "bye_nil"},
             pc'[c] \in {"bp_online", "end_sessions", "greet_first"}
      PROVE  ConnTold(c)'
  BY <1>2 DEF ConnTold, Speaking, Broadcasting
<1>3. CASE HelloRead(c)
  <2>1. /\ pc[c] = "gone" /\ pc'[c] = "known" /\ ident'[c] = account[u]
        /\ UNCHANGED <<account, online, shown, open>>
    BY <1>1, <1>3 DEF TypeOK, HelloRead, db, hub, page
  <2>2. QED
    BY <2>1, ToldUntouched DEF Speaking, Broadcasting
<1>4. CASE HelloAllow(c)
  <2>1. /\ pc[c] = "known" /\ pc'[c] = "allowed"
        /\ UNCHANGED <<account, online, shown, open, ident>>
    BY <1>1, <1>4 DEF TypeOK, HelloAllow, db, local, page
  <2>2. ident[c] = account[u]
    BY <2>1 DEF ConnTold
  <2>3. QED
    BY <2>1, <2>2, ToldUntouched DEF Speaking, Broadcasting
<1>5. CASE HelloConnect(c)
  <2>1. online[u] = 0
    BY <1>5, OneCounted DEF HelloConnect, Counted
  <2>2. UNCHANGED <<account, ident>> /\ pc[c] = "allowed" /\ pc'[c] = "greet_first"
    BY <1>1, <1>5, <2>1 DEF TypeOK, HelloConnect, db, local
  <2>3. QED
    BY <1>2, <2>2
<1>6. CASE Greet(c)
  <2>1. pc[c] = "greet_first"
    BY <1>6 DEF Greet, ConnTold
  <2>2. UNCHANGED <<account, ident>> /\ pc'[c] = "bp_online"
    BY <1>1, <1>6, <2>1 DEF TypeOK, Greet, CallBroadcast, db
  <2>3. QED
    BY <1>2, <2>1, <2>2
<1>7. ASSUME NEW g \in Games, GameStarted(c, g) \/ GameStopped(c, g) PROVE ConnTold(c)'
  <2>1. UNCHANGED <<account, ident>> /\ pc[c] = "ready" /\ pc'[c] = "bp_online"
    BY <1>1, <1>7 DEF TypeOK, GameStarted, GameStopped, CallBroadcast
  <2>2. QED
    BY <1>2, <2>1
<1>8. ASSUME NEW g \in Games, LiveSample(c, g) \/ LiveEnded(c, g) PROVE ConnTold(c)'
  <2>1. /\ pc[c] = "ready" /\ pc'[c] \in {"live_set", "say_nil"}
        /\ UNCHANGED <<account, online, shown, open, ident>>
    BY <1>1, <1>8 DEF TypeOK, LiveSample, LiveEnded, db, hub, local, page
  <2>2. ident[c] = account[u]
    BY <2>1 DEF ConnTold
  <2>3. QED
    BY <2>1, <2>2, ToldUntouched DEF Speaking, Broadcasting
<1>9. CASE LiveStore(c) \/ LiveRead(c) \/ LiveSend(c) \/ SayNil(c)
  <2>1. UNCHANGED <<account, online, shown, open, ident>>
    BY <1>9 DEF LiveStore, LiveRead, LiveSend, SayNil, db, hub, local, page
  <2>2. /\ pc[c] \in {"live_set", "live_read", "live_send", "say_nil", "bye_nil"}
        /\ pc'[c] \in {"ready", "live_read", "live_send", "gone"}
        /\ pc[c] = "bye_nil" => pc'[c] = "gone"
    BY <1>1, <1>9 DEF TypeOK, LiveStore, LiveRead, LiveSend, SayNil
  <2>3. pc[c] # "bye_nil" => ident[c] = account[u]
    BY <2>2 DEF ConnTold
  <2>4. QED
    BY <2>1, <2>2, <2>3, ToldUntouched DEF Speaking, Broadcasting
<1>10. CASE Unregister(c)
  <2>1. pc[c] = "ready" /\ IsLast(u)
    BY <1>10, OneCounted DEF Unregister, Authenticated, Counted, IsLast
  <2>2. UNCHANGED <<account, ident>> /\ pc'[c] = "end_sessions"
    BY <1>1, <1>10, <2>1 DEF TypeOK, Unregister, db
  <2>3. QED
    BY <1>2, <2>1, <2>2
<1>11. CASE EndSessions(c) \/ EndSessionsFails(c)
  <2>1. UNCHANGED <<account, ident>> /\ pc[c] = "end_sessions" /\ pc'[c] = "bp_online"
    BY <1>1, <1>11 DEF TypeOK, EndSessions, EndSessionsFails, local
  <2>2. QED
    BY <1>2, <2>1
<1>12. CASE ReadOnline(c) \/ ReadSession(c) \/ SendPresence(c)
  BY <1>12, BroadcastTells
<1>13. QED
  BY <1>3, <1>4, <1>5, <1>6, <1>7, <1>8, <1>9, <1>10, <1>11, <1>12
     DEF ConnContinues, ConnBegins, Continue

(* The poller, the sweep, time and the administrator say nothing about     *)
(* presence.                                                               *)
LEMMA OtherStepSilent ==
    ASSUME TypeOK, hidden \subseteq Hideable, pc[Poller] \notin Broadcasting,
           \/ PollerContinues \/ PollPlayers \/ SweeperRuns
           \/ \E g \in Hideable : SetGameHidden(g)
           \/ \E u \in Users : Elapse(u)
    PROVE  /\ UNCHANGED <<account, online, shown, open>>
           /\ \A c \in Conns : SameLocal(c)
           /\ hidden' \subseteq Hideable /\ pc'[Poller] \notin Broadcasting
<1> DEFINE Silent == /\ UNCHANGED <<account, online, shown, open>>
                     /\ \A c \in Conns : SameLocal(c)
                     /\ hidden' \subseteq Hideable /\ pc'[Poller] \notin Broadcasting
<1> USE Kinds DEF TypeOK, Goto, SameLocal, Broadcasting, db, hub, local, page
<1>1. CASE LiveStore(Poller) \/ LiveRead(Poller) \/ LiveSend(Poller) \/ SayNil(Poller)
  <2>1. UNCHANGED <<account, hidden, online, shown, open, ident, seen, ret>>
    BY <1>1 DEF LiveStore, LiveRead, LiveSend, SayNil
  <2>2. \E l \in {"idle", "live_read", "live_send", "gone"} : pc' = [pc EXCEPT ![Poller] = l]
    BY <1>1 DEF LiveStore, LiveRead, LiveSend, SayNil, Rest
  <2>3. QED
    BY <2>1, <2>2
<1>2. CASE ReadOnline(Poller) \/ ReadSession(Poller) \/ SendPresence(Poller)
  BY <1>2 DEF ReadOnline, ReadSession, SendPresence
<1>3. CASE PollRead \/ PollAllow
  BY <1>3 DEF PollRead, PollAllow
<1>4. ASSUME NEW u \in Users, PollVisits(u) PROVE Silent
  BY <1>4 DEF PollVisits, PollNothing, PollEnded, PollPlaying, Visit
<1>5. CASE PollPlayers
  BY <1>5 DEF PollPlayers
<1>6. CASE SweeperRuns
  BY <1>6 DEF SweeperRuns, Sweep, SweepSay
<1>7. CASE \E g \in Hideable : SetGameHidden(g)
  BY <1>7 DEF SetGameHidden
<1>8. CASE \E u \in Users : Elapse(u)
  BY <1>8 DEF Elapse
<1>9. QED
  BY <1>1, <1>2, <1>3, <1>4, <1>5, <1>6, <1>7, <1>8 DEF PollerContinues, Continue

(* Pages load their snapshot from the database once the server is back.    *)
LEMMA RestartTells ==
    ASSUME hidden \subseteq Hideable, Restart
    PROVE  ToldInv'
<1>1. \A c \in Conns : pc'[c] = "gone"
  BY Kinds DEF Restart, StartLabels
<1>2. pc'[Poller] = "idle"
  BY Kinds DEF Restart, StartLabels
<1>3. ASSUME NEW u \in Users PROVE Told(u)'
  <2>1. shown'[u] = Status(account[u], FALSE, Playing(u)) /\ online'[u] = 0
    BY DEF Restart, Everyone
  <2>2. UNCHANGED <<account, open, hidden>>
    BY DEF Restart
  <2>3. shown'[u] = Status(account'[u], online'[u] > 0, PlayingUnless(u, hidden)')
    BY <2>1, <2>2 DEF Status, Playing, PlayingUnless
  <2>4. QED
    BY <2>2, <2>3 DEF Told, PlayingUnless
<1>4. \A c \in Conns : ConnTold(c)'
  BY <1>1, <1>3, OwnerAssumption DEF ConnTold
<1>5. QED
  BY <1>2, <1>3, <1>4 DEF ToldInv, Broadcasting, Restart

LEMMA ToldInductive ==
    ASSUME OneDevice, Requests = {}, ~DbMayFail, IInv, ToldInv, [Next]_vars
    PROVE  ToldInv'
<1> USE DEF IInv, ToldInv
<1>1. ASSUME NEW c \in Conns, ConnContinues(c) \/ ConnBegins(c) PROVE ToldInv'
  <2>1. OwnOnly(c)
    BY <1>1, ConnOwnOnly
  <2>2. ASSUME NEW d \in Conns PROVE ConnTold(d)'
    <3>1. CASE d = c
      BY <1>1, <3>1, OwnStepTells
    <3>2. CASE d # c
      <4>1. Owner[d] # Owner[c] /\ Owner[d] \in Users /\ d \in Procs
        BY <3>2, OwnerAssumption, Kinds DEF OneDevice
      <4>2. UNCHANGED account /\ SameLocal(d) /\ SameMember(Owner[d]) /\ SameGames(Owner[d])
        BY <2>1, <3>2, <4>1 DEF OwnOnly
      <4>3. QED
        BY <4>2, ConnToldKept
    <3>3. QED
      BY <3>1, <3>2
  <2>3. ASSUME NEW u \in Users, Absent(u) PROVE Told(u)'
    <3>1. SameMember(u) /\ SameGames(u) /\ UNCHANGED account
      BY <2>1, <2>3 DEF OwnOnly, Absent
    <3>2. QED
      BY <2>3, <3>1, ToldKept
  <2>4. hidden' \subseteq Hideable /\ pc'[Poller] \notin Broadcasting
    BY <2>1, Kinds DEF OwnOnly, SameLocal
  <2>5. QED
    BY <2>2, <2>3, <2>4 DEF Absent
<1>2. ASSUME UNCHANGED <<account, online, shown, open>>, \A c \in Conns : SameLocal(c),
             hidden' \subseteq Hideable, pc'[Poller] \notin Broadcasting
      PROVE  ToldInv'
  <2>1. \A u \in Users : SameMember(u) /\ SameGames(u)
    BY <1>2 DEF SameMember, SameGames, PlayingUnless
  <2>2. \A c \in Conns : ConnTold(c)'
    BY <1>2, <2>1, ConnToldKept, OwnerAssumption
  <2>3. \A u \in Users : Absent(u) => Told(u)'
    BY <1>2, <2>1, ToldKept
  <2>4. QED
    BY <1>2, <2>2, <2>3 DEF Absent
<1>3. CASE UNCHANGED vars
  BY <1>2, <1>3 DEF vars, db, hub, local, page, SameLocal
<1>4. CASE \/ PollerContinues \/ PollPlayers \/ SweeperRuns
           \/ \E g \in Hideable : SetGameHidden(g)
           \/ \E u \in Users : Elapse(u)
  BY <1>2, <1>4, OtherStepSilent
<1>5. CASE Restart
  BY <1>5, RestartTells
<1>6. QED
  BY <1>1, <1>3, <1>4, <1>5 DEF Next

LEMMA ToldIsEnough == TypeOK /\ Control /\ ToldInv => PresenceSettles
<1> SUFFICES ASSUME TypeOK, Control, ToldInv, NEW u \in Users, Quiet(u) PROVE Told(u)
  BY DEF PresenceSettles, Told
<1>1. CASE Absent(u)
  BY <1>1 DEF ToldInv
<1>2. CASE ~Absent(u)
  <2>1. PICK c \in Conns : Owner[c] = u
    BY <1>2 DEF Absent
  <2>2. pc[c] \in {"gone", "ready", "idle"}
    BY <2>1, Kinds DEF Quiet, Control
  <2>3. QED
    BY <2>1, <2>2 DEF ToldInv, ConnTold, Speaking, Broadcasting
<1>3. QED
  BY <1>1, <1>2

(* Once nothing is under way about a member, the pages show the presence   *)
(* the hub and the database hold: for any members with a device each, any  *)
(* games hidden at any time, any matches, polls and restarts, as long as   *)
(* no account changes and the database answers.                            *)
THEOREM PresenceFollows ==
    ASSUME OneDevice, Requests = {}, ~DbMayFail
    PROVE  Spec => []PresenceSettles
<1>1. Init => ToldInv
  <2> SUFFICES ASSUME Init PROVE ToldInv
    OBVIOUS
  <2>1. /\ \A c \in Conns : pc[c] = "gone"
        /\ pc[Poller] = "idle" /\ hidden = {} /\ open = {}
    BY Kinds DEF Init, StartLabels
  <2>2. ASSUME NEW u \in Users PROVE Told(u)
    <3>1. shown[u] = "offline" /\ online[u] = 0 /\ ~PlayingUnless(u, {})
      BY <2>1 DEF Init, Everyone, PlayingUnless
    <3>2. shown[u] = Status(account[u], online[u] > 0, PlayingUnless(u, {}))
      BY <3>1 DEF Status
    <3>3. QED
      BY <3>2 DEF Told
  <2>3. \A c \in Conns : ConnTold(c)
    BY <2>1, <2>2, OwnerAssumption DEF ConnTold
  <2>4. QED
    BY <2>1, <2>2, <2>3 DEF ToldInv, Broadcasting
<1>2. IInv /\ ToldInv /\ [Next]_vars => ToldInv'
  BY ToldInductive
<1>3. IInv /\ ToldInv => PresenceSettles
  BY ToldIsEnough DEF IInv
<1>4. QED
  BY <1>1, <1>2, <1>3, InvariantHolds, PTL DEF Spec

-----------------------------------------------------------------------------
(* The match a page shows is held by the hub, or on its way out.           *)

LEMMA FreshIsHeld ==
    ASSUME NEW u \in Users, live[u].fresh
    PROVE  HasLive(u)
BY DEF HasLive, NoEntry

(* A step that neither stores nor shows a match.                           *)
LEMMA CardUntouched ==
    ASSUME NEW c \in Conns, ConnCard(c), SameMatch(Owner[c]),
           queue[Sweeper] \subseteq queue'[Sweeper],
           pc'[c] \in {"live_read", "live_send"} => pc[c] \in {"live_read", "live_send"},
           NilDue(c) => NilDue(c)'
    PROVE  ConnCard(c)'
BY DEF ConnCard, SameMatch, HasLive

LEMMA OwnStepCard ==
    ASSUME TypeOK, Control, NEW c \in Conns, ConnCard(c), ConnContinues(c) \/ ConnBegins(c)
    PROVE  ConnCard(c)'
<1> DEFINE u == Owner[c]
<1>1. c \in Procs /\ who[c] = u /\ u \in Users /\ Rest(c) = "ready"
  BY OwnerAssumption, Kinds DEF Control, Rest
<1>2. UNCHANGED queue
  BY ConnOwnOnly DEF OwnOnly
<1> USE DEF Goto
<1>3. CASE \/ HelloRead(c) \/ HelloAllow(c) \/ HelloConnect(c) \/ Greet(c)
           \/ \E g \in Games : GameStarted(c, g) \/ GameStopped(c, g) \/ LiveSample(c, g)
  <2>1. pc[c] \in {"gone", "known", "allowed", "greet_first", "greet_again", "ready"}
    BY <1>3 DEF HelloRead, HelloAllow, HelloConnect, Greet, GameStarted, GameStopped, LiveSample
  <2>2. pc'[c] \in {"known", "allowed", "greet_first", "greet_again", "ready", "bp_online",
                    "live_set"}
    BY <1>1, <1>3 DEF TypeOK, HelloRead, HelloAllow, HelloConnect, Greet, GameStarted,
                      GameStopped, LiveSample, CallBroadcast
  <2>3. UNCHANGED <<live, card>>
    BY <1>3 DEF HelloRead, HelloAllow, HelloConnect, Greet, GameStarted, GameStopped,
                LiveSample, hub, page
  <2>4. ~NilDue(c)
    BY <2>1 DEF NilDue, Broadcasting
  <2>5. QED
    BY <1>2, <2>2, <2>3, <2>4, CardUntouched DEF SameMatch
<1>4. CASE EndSessions(c) \/ EndSessionsFails(c) \/ ReadOnline(c) \/ ReadSession(c)
  <2>1. /\ pc[c] \in Broadcasting \cup {"end_sessions"} /\ pc'[c] \in Broadcasting
        /\ UNCHANGED <<live, card, ret>>
    BY <1>1, <1>4 DEF TypeOK, EndSessions, EndSessionsFails, ReadOnline, ReadSession,
                      Broadcasting, hub, page, local
  <2>2. NilDue(c) => NilDue(c)'
    BY <2>1 DEF NilDue, Broadcasting
  <2>3. QED
    BY <1>2, <2>1, <2>2, CardUntouched DEF SameMatch, Broadcasting
<1>5. CASE SendPresence(c)
  <2>1. /\ pc[c] = "bp_send" /\ pc'[c] = ret[c] /\ UNCHANGED <<live, card>>
        /\ ret[c] \in {"ready", "gone", "bye_nil"}
    BY <1>1, <1>5 DEF TypeOK, Control, SendPresence, Broadcasting, hub
  <2>2. NilDue(c) => NilDue(c)'
    BY <2>1 DEF NilDue
  <2>3. QED
    BY <1>2, <2>1, <2>2, CardUntouched DEF SameMatch
<1>6. CASE LiveStore(c)
  <2>1. live' = [live EXCEPT ![u] = [game |-> sample[c], source |-> "client", fresh |-> TRUE]]
    BY <1>1, <1>6 DEF LiveStore
  <2>2. live'[u].fresh
    BY <1>1, <2>1 DEF TypeOK
  <2>3. HasLive(u)'
    BY <1>1, <2>2 DEF HasLive, NoEntry
  <2>4. QED
    BY <2>2, <2>3 DEF ConnCard
<1>7. CASE LiveRead(c)
  <2>1. pc[c] = "live_read" /\ pc'[c] = "live_send" /\ UNCHANGED <<live, card>>
    BY <1>1, <1>7 DEF TypeOK, LiveRead, hub, page
  <2>2. QED
    BY <1>2, <2>1, CardUntouched DEF SameMatch, NilDue, Broadcasting
<1>8. CASE LiveSend(c)
  <2>1. pc[c] = "live_send" /\ pc'[c] = "ready" /\ UNCHANGED live
    BY <1>1, <1>8 DEF TypeOK, LiveSend, hub
  <2>2. HasLive(u)
    BY <1>1, <2>1, FreshIsHeld DEF ConnCard
  <2>3. QED
    BY <2>1, <2>2 DEF ConnCard, HasLive
<1>9. CASE SayNil(c)
  <2>1. card'[u] = NoGame /\ pc'[c] \in {"gone", "ready"}
    BY <1>1, <1>9 DEF TypeOK, SayNil
  <2>2. QED
    BY <2>1 DEF ConnCard
<1>10. ASSUME NEW g \in Games, LiveEnded(c, g) PROVE ConnCard(c)'
  <2>1. pc'[c] = "say_nil"
    BY <1>1, <1>10 DEF TypeOK, LiveEnded
  <2>2. QED
    BY <2>1 DEF ConnCard, NilDue
<1>11. CASE Unregister(c)
  <2>1. pc[c] = "ready" /\ UNCHANGED card
    BY <1>11 DEF Unregister, Authenticated, page
  <2>2. card[u] # NoGame => HasLive(u) \/ u \in queue[Sweeper]
    BY <2>1 DEF ConnCard, NilDue, Broadcasting
  <2>3. CASE IsLast(u)
    <3>1. pc'[c] = "end_sessions" /\ (HasLive(u) => ret'[c] = "bye_nil")
      BY <1>1, <1>11, <2>3 DEF TypeOK, Unregister, AfterGoodbye
    <3>2. HasLive(u) => NilDue(c)'
      BY <3>1 DEF NilDue
    <3>3. QED
      BY <1>2, <2>1, <2>2, <3>1, <3>2 DEF ConnCard
  <2>4. CASE ~IsLast(u)
    <3>1. pc'[c] = "gone" /\ UNCHANGED live
      BY <1>1, <1>11, <2>4 DEF TypeOK, Unregister
    <3>2. QED
      BY <1>2, <2>1, <2>2, <3>1 DEF ConnCard, HasLive
  <2>5. QED
    BY <2>3, <2>4
<1>12. QED
  BY <1>3, <1>4, <1>5, <1>6, <1>7, <1>8, <1>9, <1>10, <1>11
     DEF ConnContinues, ConnBegins, Continue

(* Without a poller, the sweep and time are what else touches a match.     *)
LEMMA SweepCard ==
    ASSUME TypeOK, Control, NEW c \in Conns, ConnCard(c),
           SweeperRuns \/ \E u \in Users : Elapse(u)
    PROVE  ConnCard(c)'
<1>1. Owner[c] \in Users /\ c \in Procs /\ who[c] = Owner[c] /\ Sweeper \in Background
  BY OwnerAssumption, Kinds DEF Control, Background
<1>2. UNCHANGED <<pc, ret>>
  BY DEF SweeperRuns, Sweep, SweepSay, Elapse, local
<1>3. NilDue(c)' <=> NilDue(c)
  BY <1>2 DEF NilDue
<1>4. CASE Sweep
  <2>1. /\ queue[Sweeper] = {} /\ UNCHANGED card
        /\ queue'[Sweeper] = {v \in Users : Expired(v)}
        /\ \A v \in Users : live'[v] = IF Expired(v) THEN NoEntry ELSE live[v]
    BY <1>1, <1>4 DEF TypeOK, Sweep, page
  <2>2. CASE Expired(Owner[c])
    BY <1>1, <1>2, <1>3, <2>1, <2>2 DEF ConnCard, Expired
  <2>3. CASE ~Expired(Owner[c])
    BY <1>1, <1>2, <1>3, <2>1, <2>3 DEF ConnCard, HasLive
  <2>4. QED
    BY <2>2, <2>3
<1>5. ASSUME NEW v \in Users, SweepSay(v) PROVE ConnCard(c)'
  <2>1. UNCHANGED live /\ card' = [card EXCEPT ![v] = NoGame]
        /\ queue'[Sweeper] = queue[Sweeper] \ {v}
    BY <1>1, <1>5 DEF TypeOK, SweepSay, hub
  <2>2. CASE v = Owner[c]
    BY <1>1, <1>2, <2>1, <2>2 DEF TypeOK, ConnCard
  <2>3. CASE v # Owner[c]
    BY <1>1, <1>2, <1>3, <2>1, <2>3 DEF TypeOK, ConnCard, HasLive
  <2>4. QED
    BY <2>2, <2>3
<1>6. ASSUME NEW v \in Users, Elapse(v) PROVE ConnCard(c)'
  <2>1. UNCHANGED <<card, queue>> /\ live' = [live EXCEPT ![v].fresh = FALSE] /\ HasLive(v)
    BY <1>6 DEF Elapse, local, page
  <2>2. CASE v = Owner[c]
    <3>1. pc[c] \notin {"live_read", "live_send"}
      BY <1>1, <1>6, <2>2 DEF Elapse
    <3>2. live[v] \in Entries
      BY <2>1 DEF TypeOK, HasLive
    <3>3. live'[v].game = live[v].game /\ live[v].game \in Games
      BY <2>1, <3>2 DEF TypeOK, Entries
    <3>4. HasLive(v)'
      BY <3>3, GamesAssumption DEF HasLive, NoEntry
    <3>5. QED
      BY <1>2, <2>2, <3>1, <3>4 DEF ConnCard
  <2>3. CASE v # Owner[c]
    BY <1>1, <1>2, <1>3, <2>1, <2>3 DEF TypeOK, ConnCard, HasLive
  <2>4. QED
    BY <2>2, <2>3
<1>7. QED
  BY <1>4, <1>5, <1>6 DEF SweeperRuns

LEMMA CardInductive ==
    ASSUME OneDevice, Requests = {}, ~PollerRuns, TypeOK, Control, CardInv, [Next]_vars
    PROVE  CardInv'
<1> USE DEF CardInv
<1>1. ASSUME NEW c \in Conns, ConnContinues(c) \/ ConnBegins(c) PROVE CardInv'
  <2>1. OwnOnly(c)
    BY <1>1, ConnOwnOnly
  <2>2. ASSUME NEW d \in Conns PROVE ConnCard(d)'
    <3>1. CASE d = c
      BY <1>1, <3>1, OwnStepCard
    <3>2. CASE d # c
      <4>1. Owner[d] # Owner[c] /\ Owner[d] \in Users /\ d \in Procs
        BY <3>2, OwnerAssumption, Kinds DEF OneDevice
      <4>2. SameMatch(Owner[d]) /\ SameLocal(d) /\ UNCHANGED queue
        BY <2>1, <3>2, <4>1 DEF OwnOnly
      <4>3. NilDue(d) => NilDue(d)'
        BY <4>2 DEF NilDue, SameLocal
      <4>4. QED
        BY <4>2, <4>3, CardUntouched DEF SameLocal
    <3>3. QED
      BY <3>1, <3>2
  <2>3. ASSUME NEW u \in Users, Absent(u) PROVE card'[u] = NoGame
    BY <2>1, <2>3 DEF OwnOnly, Absent, SameMatch
  <2>4. pc'[Poller] = "idle" /\ queue'[Poller] = {}
    BY <2>1, Kinds DEF OwnOnly, SameLocal
  <2>5. QED
    BY <2>2, <2>3, <2>4 DEF Absent
<1>2. ASSUME UNCHANGED <<pc, ret, queue, live, card>> PROVE CardInv'
  <2>1. \A c \in Conns : ConnCard(c)'
    BY <1>2 DEF ConnCard, NilDue, HasLive
  <2>2. QED
    BY <1>2, <2>1 DEF Absent
<1>3. CASE UNCHANGED vars \/ \E g \in Hideable : SetGameHidden(g)
  BY <1>2, <1>3 DEF vars, SetGameHidden, hub, local, page
<1>4. CASE PollerContinues \/ PollPlayers
  BY <1>4 DEF PollerContinues, Continue, ReadOnline, ReadSession, SendPresence, LiveStore,
              LiveRead, LiveSend, SayNil, PollRead, PollAllow, PollVisits, PollNothing,
              PollEnded, PollPlaying, Visit, PollPlayers
<1>5. CASE SweeperRuns \/ \E u \in Users : Elapse(u)
  <2>1. \A c \in Conns : ConnCard(c)'
    BY <1>5, SweepCard
  <2>2. UNCHANGED pc /\ queue'[Poller] = queue[Poller]
    BY <1>5, Kinds DEF TypeOK, Background, SweeperRuns, Sweep, SweepSay, Elapse, local
  <2>3. \A u \in Users : card[u] = NoGame => card'[u] = NoGame
    BY <1>5 DEF TypeOK, SweeperRuns, Sweep, SweepSay, Elapse, page
  <2>4. QED
    BY <2>1, <2>2, <2>3 DEF Absent
<1>6. CASE Restart
  <2>1. /\ pc'[Poller] = "idle" /\ queue'[Poller] = {}
        /\ \A c \in Conns : pc'[c] = "gone"
        /\ \A u \in Users : card'[u] = NoGame
    BY <1>6, Kinds DEF Restart, StartLabels, Everyone, Background
  <2>2. QED
    BY <2>1, OwnerAssumption DEF ConnCard
<1>7. QED
  BY <1>1, <1>3, <1>4, <1>5, <1>6 DEF Next

(* No page keeps a match that the hub does not hold, for any members with  *)
(* a device each, however their samples, their ends, the sweep, hidden     *)
(* games, failed queries and restarts interleave, without a Riot key and   *)
(* as long as no account changes.                                          *)
THEOREM CardsFollow ==
    ASSUME OneDevice, Requests = {}, ~PollerRuns
    PROVE  Spec => []NoFrozenCard
<1>1. Init => CardInv
  <2> SUFFICES ASSUME Init PROVE CardInv
    OBVIOUS
  <2>1. /\ pc[Poller] = "idle" /\ queue[Poller] = {}
        /\ \A c \in Conns : pc[c] = "gone"
        /\ \A u \in Users : card[u] = NoGame
    BY Kinds DEF Init, StartLabels, Everyone, Background
  <2>2. QED
    BY <2>1, OwnerAssumption DEF CardInv, ConnCard
<1>2. TypeOK /\ Control /\ CardInv /\ [Next]_vars => CardInv'
  BY CardInductive
<1>3. TypeOK /\ Control /\ CardInv => NoFrozenCard
  <2> SUFFICES ASSUME TypeOK, Control, CardInv, NEW u \in Users, Quiet(u), card[u] # NoGame
               PROVE  HasLive(u)
    BY DEF NoFrozenCard
  <2>1. PICK c \in Conns : Owner[c] = u
    BY DEF CardInv, Absent
  <2>2. pc[c] \in {"gone", "ready", "idle"} /\ u \notin queue[Sweeper]
    BY <2>1, Kinds DEF Quiet, Control
  <2>3. QED
    BY <2>1, <2>2 DEF CardInv, ConnCard, NilDue, Broadcasting
<1>4. IInv => TypeOK /\ Control
  BY DEF IInv
<1>5. QED
  BY <1>1, <1>2, <1>3, <1>4, InvariantHolds, PTL DEF Spec

=============================================================================
