------------------------------- MODULE Recap --------------------------------
(***************************************************************************)
(* What the pages compute from the tables of Matches: the recap of an      *)
(* evening (internal/api/recap.go, internal/store/recap.go) and the        *)
(* Hearthstone records (internal/store/hearthstone.go).  Each operator is  *)
(* asked for every window, viewer and choice of hidden and banned members, *)
(* in every state the reports can leave the tables in.                     *)
(*                                                                         *)
(* Left out: icons and the other statistics, sums like the ones below.  Of *)
(* a member's name only its rank is kept: it decides between the matches   *)
(* of one instant.                                                         *)
(***************************************************************************)
EXTENDS Matches, Orders, FiniteSetsExt

CONSTANTS
    MaxRecapWindow,     \* maxRecapWindow
    RecentMatches,      \* recentMatches
    NameRank            \* of the members, by username; no two have the same

ASSUME RecapWindowAssumption == MaxRecapWindow \in Nat /\ RecentMatches \in Nat
ASSUME NamesAssumption ==
    /\ NameRank \in [Users -> Nat]
    /\ \A u, v \in Users : NameRank[u] = NameRank[v] => u = v
ASSUME MembersAssumption == IsFiniteSet(Users)

(* parseRecapWindow: a window the recap answers for. *)
Windows == {w \in (0..MaxTime + Skew) \X (1..MaxTime + Skew + 1) :
                w[1] < w[2] /\ w[2] - w[1] <= MaxRecapWindow}

(* A viewer is a member, and may be an administrator. *)
Viewers == [user : Users, admin : BOOLEAN]

(* Whose matches a viewer sees. *)
Shown(v, hidden, banned) ==
    {u \in Users \ banned : u \notin hidden \/ u = v.user \/ v.admin}

(* What any viewer may be shown, whoever hides or is banned. *)
Audiences ==
    {Shown(v, hidden, banned) : v \in Viewers, hidden \in SUBSET Users,
                                banned \in SUBSET Users}

(* ORDER BY played_at, username *)
Earlier(p, q) ==
    p.stamp < q.stamp \/ (p.stamp = q.stamp /\ NameRank[p.user] < NameRank[q.user])

(* mutant of Between: the members a viewer may not see are not left out *)
BetweenOfAll(T, w, S) ==
    Ordered({r \in T : w[1] <= r.stamp /\ r.stamp < w[2]}, Earlier)

(* The matches of the members S in the half-open window, oldest first. *)
Between(T, w, S) ==
    Ordered({r \in T : r.user \in S /\ w[1] <= r.stamp /\ r.stamp < w[2]}, Earlier)

(* mergeRecapTimeline: one entry a turn, the earlier of the next two; on a *)
(* tie the Rocket League one.                                              *)
Merge(a, b) ==
    LET merge[k \in 0..(Len(a) + Len(b))] ==
            IF k = 0 THEN [i |-> 0, out |-> <<>>]
            ELSE LET m == merge[k - 1]
                     j == Len(m.out) - m.i
                 IN  IF \/ j = Len(b)
                        \/ m.i < Len(a) /\ ~(b[j + 1].stamp < a[m.i + 1].stamp)
                     THEN [i |-> m.i + 1, out |-> Append(m.out, a[m.i + 1])]
                     ELSE [i |-> m.i, out |-> Append(m.out, b[j + 1])]
    IN  merge[Len(a) + Len(b)].out

(* The members of a game's block; each has at least one match. *)
Members(ms) == {ms[i].user : i \in DOMAIN ms}

CountIf(ms, P(_)) == Cardinality({i \in DOMAIN ms : P(ms[i])})

(* aggregateRocketLeague *)
RocketLeagueBlock(ms) ==
    [u \in Members(ms) |-> [matches |-> CountIf(ms, LAMBDA m : m.user = u)]]

(* aggregateHearthstone: a match without a placement is not ranked. *)
HearthstoneBlock(ms) ==
    [u \in Members(ms) |->
        [matches |-> CountIf(ms, LAMBDA m : m.user = u),
         ranked  |-> CountIf(ms, LAMBDA m : m.user = u /\ m.data.place # None)]]

Timeline(w, S) == Merge(Between(rl, w, S), Between(hs, w, S))

-----------------------------------------------------------------------------
(* heroBaseID: a skin counts as the hero it dresses. *)
HeroOf(card) == IF card = "hero_SKIN" THEN "hero" ELSE card

Lobbies(S) == {r \in hs : r.user \in S /\ r.data.place # None}

(* The lobbies of which the hero is known: the hero may be unreadable. *)
WithHero(S) == {r \in Lobbies(S) : r.data.card # NoHero}

(* HearthstoneHeroesByGame: the guild's record with each hero. *)
GuildHeroes(S) ==
    [h \in {HeroOf(r.data.card) : r \in WithHero(S)} |->
        LET R == {r \in WithHero(S) : HeroOf(r.data.card) = h}
        IN  [matches |-> Cardinality(R), players |-> Cardinality({r.user : r \in R})]]

(* mutant of MemberHeroes: the skin is not folded onto its hero *)
MemberHeroesBySkin(u) ==
    [h \in {r.data.card : r \in WithHero({u})} |->
        Cardinality({r \in WithHero({u}) : r.data.card = h})]

(* HearthstoneHeroesFor: one member's, by a query of its own. *)
MemberHeroes(u) ==
    [h \in {HeroOf(r.data.card) : r \in WithHero({u})} |->
        Cardinality({r \in WithHero({u}) : HeroOf(r.data.card) = h})]

(* RocketLeagueStatsByGame: one line per member with a match.              *)
RocketLeaguePage(S) ==
    [u \in {r.user : r \in {q \in rl : q.user \in S}} |->
        Cardinality({r \in rl : r.user = u})]

(* HearthstoneMemberTotalsFor *)
MemberTotals(u) ==
    [matches |-> Cardinality({r \in hs : r.user = u}), ranked |-> Cardinality(Lobbies({u}))]

(* HearthstoneStatsByGame: the same record for everyone at once.           *)
GuildTotals(S) ==
    [u \in {r.user : r \in {q \in hs : q.user \in S}} |->
        LET R == {r \in hs : r.user = u}
        IN  [matches |-> Cardinality(R), ranked |-> Cardinality({r \in R : r.data.place # None})]]

(* HearthstonePlacementsFor: only the places that were reached.            *)
Placements(u) ==
    [p \in {r.data.place : r \in Lobbies({u})} |->
        Cardinality({r \in Lobbies({u}) : r.data.place = p})]

(* The newest rows of a member, newest first. *)
Newer(p, q) == p.stamp > q.stamp

Recent(T, u) ==
    LET newest == Ordered({r \in T : r.user = u}, Newer)
    IN  SubSeq(newest, 1, IF Len(newest) < RecentMatches THEN Len(newest) ELSE RecentMatches)

(* The Hearthstone blocks of the page of the game and of a member's page.  *)
GuildPage(S) == [players |-> GuildTotals(S), heroes |-> GuildHeroes(S)]

MemberPage(u) == [totals |-> MemberTotals(u), places |-> Placements(u),
                  heroes |-> MemberHeroes(u), recent |-> Recent(hs, u)]

-----------------------------------------------------------------------------
Sorted(s) == \A i, j \in DOMAIN s : i < j => s[i].stamp <= s[j].stamp

(* Adjacent windows share a match exactly as they share their bound: not   *)
(* at all.                                                                 *)
Adjacent(w, x) == w[2] = x[1] /\ <<w[1], x[2]>> \in Windows

(* What a recap is about: the matches, of the members shown, that were     *)
(* played in the window.                                                   *)
Due(w, S) == {r \in rl \cup hs : r.user \in S /\ r.stamp \in w[1]..(w[2] - 1)}

(* A recap is consistent: its timeline is in order and holds every match   *)
(* of the members shown once and nobody else's, its blocks are of members  *)
(* shown and count the same matches, and two adjacent recaps neither drop  *)
(* nor double a match (recap.go:351-356, store/recap.go:71-89).            *)
RecapAgrees ==
    \A S \in Audiences : \A w \in Windows :
        LET r == Between(rl, w, S)
            h == Between(hs, w, S)
            t == Merge(r, h)
            a == RocketLeagueBlock(r)
            b == HearthstoneBlock(h)
        IN  /\ Sorted(t)
            /\ {t[i] : i \in DOMAIN t} = Due(w, S)
            /\ Len(t) = Cardinality(Due(w, S))
            /\ DOMAIN a \cup DOMAIN b \subseteq S
            /\ SumFunction([u \in DOMAIN a |-> a[u].matches])
                 + SumFunction([u \in DOMAIN b |-> b[u].matches]) = Len(t)
            /\ \A i \in DOMAIN t : t[i].user \in DOMAIN a \cup DOMAIN b
            /\ \A x \in Windows :
                  Adjacent(w, x) => Timeline(<<w[1], x[2]>>, S) = t \o Timeline(x, S)

(* The six queries behind the pages agree, whoever is banned: the guild's *)
(* record with a hero is the sum of its members' and counts those who have *)
(* one, for the queries fold skins alike; a member's line is their own     *)
(* record, their places add up to it, their heroes to what of it has one,  *)
(* and the list begins with their last match.  Only Battlegrounds matches  *)
(* are ranked.                                                             *)
PagesAgree ==
    /\ \A banned \in SUBSET Users :
          LET S == Users \ banned
              G == GuildPage(S)
          IN  /\ \A h \in DOMAIN G.heroes :
                    LET P == {u \in S : h \in DOMAIN MemberHeroes(u)}
                    IN  /\ G.heroes[h].players = Cardinality(P)
                        /\ G.heroes[h].matches = SumFunction([u \in P |-> MemberHeroes(u)[h]])
              /\ \A u \in DOMAIN G.players : G.players[u] = MemberTotals(u)
    /\ \A u \in Users :
          LET page == MemberPage(u)
          IN  /\ SumFunction(page.places) = page.totals.ranked
              /\ SumFunction(page.heroes)
                    = page.totals.ranked - Cardinality({r \in Lobbies({u}) : r.data.card = NoHero})
              /\ page.recent = <<>> <=> page.totals.matches = 0 \/ RecentMatches = 0
    /\ \A T \in {rl, hs} : \A r \in T :
          RecentMatches > 0 => Recent(T, r.user)[1].stamp >= r.stamp
    /\ \A r \in Lobbies(Users) : r.data.mode = "battlegrounds"
=============================================================================
