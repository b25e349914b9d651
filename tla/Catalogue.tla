----------------------------- MODULE Catalogue ------------------------------
(***************************************************************************)
(* The catalogue of games: what is kept of Discord's list of detectable    *)
(* applications (internal/games/discord.go), its import into the games     *)
(* table on a weekly schedule or by hand (cmd/kfire-server/main.go,        *)
(* api/games.go, store/games.go), and the games a Steam library adds or    *)
(* claims (internal/steamsync, store/steam_import.go).                     *)
(*                                                                         *)
(* The stamp of the last import lives in the row of the organisation, which *)
(* the first registration inserts: the module extends Members, and shares  *)
(* its request slots; the schedule's import takes one too.                 *)
(*                                                                         *)
(* An executable is the sequence of its directories and its file name, as  *)
(* is an entry of a game; of each table of curated names one entry is kept. *)
(* An import writes its seeds in chunks, each atomic: here a chunk is one  *)
(* seed, in any order.  A name longer than the slug it yields, icons and   *)
(* achievements are left out.                                              *)
(***************************************************************************)
EXTENDS Members, Sequences

CONSTANTS
    Lists,      \* what Discord may publish: sets of applications
    Library,    \* the Steam apps the members own: [steam, slug]
    MaxShared,  \* maxGamesPerExecutable
    Week        \* catalogMaxAge, in checks of the schedule

ASSUME CatalogueAssumption == MaxShared \in Nat /\ Week \in Nat \ {0}

VARIABLES
    list,       \* Discord's list
    games,      \* the games table
    last,       \* checks since this process imported on schedule, or Never
    stamp,      \* checks since orgs.games_synced_at, or Never: NULL, or no row
    checked,    \* the check of this period is done
    age         \* checks since an import succeeded, at most Week + 1 (history)

catVars == <<list, games, last, stamp, checked, age>>
allVars == <<vars, catVars>>

Never == -1
NoApp == "no app"

-----------------------------------------------------------------------------
(* normalize                                                               *)

NeverDetect == {"setup.exe"}
AmbiguousExecutables == {"game.exe"}
TooShort == {"hl.exe"}
ExtraExecutables(slug) ==
    IF slug = "vampire-crawlers" THEN {"vampire crawlers.exe"} ELSE {}
WrongExecutables(slug) == IF slug = "crsed-f-o-a-d" THEN {"enlisted.exe"} ELSE {}

(* The paths of the executables that are looked at. *)
Executables(app) == {e.path : e \in {x \in app.exes : ~x.launcher}}

Basename(path) == path[Len(path)]

Freq(base) == Cardinality({a \in list : \E p \in Executables(a) : Basename(p) = base})

(* qualifiedPattern: none without a directory. *)
Pattern(path) == {p \in {path} : Len(p) > 1}

QFreq(pattern) ==
    Cardinality({a \in list : \E p \in Executables(a) : pattern \in Pattern(p)})

UsableBasename(base) ==
    /\ base \notin NeverDetect \cup AmbiguousExecutables \cup TooShort
    /\ Freq(base) <= MaxShared

(* The file name where it can identify the game, else the whole path. *)
Entries(app) ==
    LET E == {p \in Executables(app) : Basename(p) \notin WrongExecutables(app.slug)}
        plain == {p \in E : UsableBasename(Basename(p))}
        paths == UNION {Pattern(p) : p \in {x \in E \ plain : Basename(x) \notin NeverDetect}}
    IN  {<<Basename(p)>> : p \in plain} \cup {p \in paths : QFreq(p) <= MaxShared}
          \cup {<<x>> : x \in ExtraExecutables(app.slug)}

(* Test editions, and games nothing identifies, are not in the catalogue.  *)
Normalize ==
    {[app |-> a.id, slug |-> a.slug, steam |-> a.steam, exes |-> Entries(a)] :
        a \in {x \in list : ~x.test /\ Entries(x) # {}}}

-----------------------------------------------------------------------------
(* An import: download, read the slugs, write the seeds, stamp.            *)

Importing(q) == req[q].op = "import"

BeginImport(q, auto) ==
    /\ Begin(q, [op |-> "import", at |-> "fetch", auto |-> auto, seeds |-> {}, left |-> {},
                 byApp |-> {}, taken |-> {}])
    /\ slips' = IF \E r \in Slots : Importing(r) THEN slips \cup {<<"imports">>} ELSE slips

FetchSeed(q) ==
    /\ At(q, "import", "fetch")
    /\ req' = [req EXCEPT ![q] = [@ EXCEPT !.at = "read", !.seeds = Normalize,
                                          !.left = Normalize]]
    /\ UNCHANGED <<memberVars, slips, catVars>>

ReadSlugs(q) ==
    /\ At(q, "import", "read")
    /\ req' = [req EXCEPT ![q] = [@ EXCEPT !.at = "write",
                !.byApp = {[app |-> g.app, slug |-> g.slug] : g \in {h \in games : h.app # NoApp}},
                !.taken = {g.slug : g \in games}]]
    /\ UNCHANGED <<memberVars, slips, catVars>>

(* The slug of a seed: the one its game has, else its own, with the id of  *)
(* the application when that is taken.                                     *)
SlugFor(r, s) ==
    IF \E b \in r.byApp : b.app = s.app
    THEN (CHOOSE b \in r.byApp : b.app = s.app).slug
    ELSE IF <<s.slug>> \in r.taken THEN <<s.slug, s.app>> ELSE <<s.slug>>

(* mutant of Assigned: slugs given by this import are not remembered *)
Unremembered(r, s) == [r EXCEPT !.left = @ \ {s}]

Assigned(r, s) ==
    [r EXCEPT !.left = @ \ {s}, !.taken = @ \cup {SlugFor(r, s)},
              !.byApp = @ \cup {[app |-> s.app, slug |-> SlugFor(r, s)]}]

(* One statement of UpsertGames; a slug somebody else inserted meanwhile   *)
(* is an error, which ends the import.                                     *)
UpsertGame(q, s) ==
    /\ At(q, "import", "write") /\ s \in req[q].left
    /\ LET slug == SlugFor(req[q], s)
           row == {g \in games : g.app = s.app}
           new == [app |-> s.app, slug |-> slug, steam |-> s.steam, exes |-> s.exes]
       IN  IF row = {} /\ \E g \in games : g.slug = slug
           THEN /\ Done(q)
                /\ slips' = slips \cup {<<"refused">>}
                /\ UNCHANGED games
           ELSE /\ games' = (games \ row) \cup
                     (IF row = {} THEN {new} ELSE {[new EXCEPT !.slug = g.slug] : g \in row})
                /\ req' = [req EXCEPT ![q] = Assigned(@, s)]
                /\ UNCHANGED slips
    /\ UNCHANGED <<memberVars, list, last, stamp, checked, age>>

(* SetGamesSyncedAt, whose error is only logged; without an organisation   *)
(* there is nothing to stamp.                                              *)
Stamp(q) ==
    /\ At(q, "import", "write") /\ req[q].left = {}
    /\ \E ok \in BOOLEAN : stamp' = IF ok /\ org THEN 0 ELSE stamp
    /\ last' = IF req[q].auto THEN 0 ELSE last
    /\ age' = 0
    /\ Done(q)
    /\ UNCHANGED <<memberVars, slips, list, games, checked>>

(* syncGames: an admin asks. *)
SyncGames(q) == BeginImport(q, FALSE) /\ UNCHANGED <<memberVars, catVars>>

-----------------------------------------------------------------------------
(* The schedule. *)

(* mutant of Old: stale one check late *)
OlderThan(x) == x = Never \/ x > Week

Old(x) == x = Never \/ x >= Week

(* catalogImportReason, when its reads of the table and of the stamp       *)
(* succeed, or do not.                                                     *)
Reason(counted, read) ==
    \/ counted /\ games = {}
    \/ Old(last) /\ read /\ Old(stamp)

Check(q) ==
    /\ ~checked /\ checked' = TRUE
    /\ \E counted, read \in BOOLEAN :
          IF Reason(counted, read) THEN BeginImport(q, TRUE)
          ELSE /\ UNCHANGED req
               /\ slips' = IF Reason(TRUE, TRUE) THEN slips \cup {<<"failed">>} ELSE slips
    /\ UNCHANGED <<memberVars, list, games, last, stamp, age>>

(* The next period: the check of the last one is over, its import too. *)
Elapse ==
    /\ checked /\ checked' = FALSE
    /\ \A q \in Slots : Importing(q) => ~req[q].auto
    /\ LET Older(x) == IF x = Never \/ x > Week THEN x ELSE x + 1
       IN  last' = Older(last) /\ stamp' = Older(stamp) /\ age' = Older(age)
    /\ UNCHANGED <<memberVars, req, slips, list, games>>

(* A download or a statement fails, or the import takes too long. *)
ImportFails(q) ==
    /\ Importing(q)
    /\ slips' = slips \cup {<<"failed">>}
    /\ Done(q)
    /\ UNCHANGED <<memberVars, catVars>>

(* The process restarts; what was in flight is left to Stop.               *)
Restart ==
    /\ \A q \in Slots : req[q] = Free
    /\ <<last, checked>> # <<Never, FALSE>>
    /\ last' = Never /\ checked' = FALSE
    /\ UNCHANGED <<memberVars, req, slips, list, games, stamp, age>>

Publish ==
    /\ list' \in Lists \ {list}
    /\ UNCHANGED <<memberVars, req, slips, games, last, stamp, checked, age>>

-----------------------------------------------------------------------------
(* A Steam library is imported app by app: UpsertSteamGame, three          *)
(* statements for one the catalogue does not know.                         *)

SyncApp(q, a) ==
    /\ \A g \in games : g.steam # a.steam
    /\ Begin(q, [op |-> "steam", at |-> "adopt", app |-> a])
    /\ UNCHANGED <<memberVars, slips, catVars>>

(* The game of that slug takes the app's id, whatever id it had. *)
AdoptSteamGame(q) ==
    /\ At(q, "steam", "adopt")
    /\ LET named == {g \in games : g.slug = <<req[q].app.slug>>}
       IN  IF named = {} THEN Goto(q, "insert") /\ UNCHANGED games
           ELSE /\ games' = (games \ named)
                              \cup {[g EXCEPT !.steam = req[q].app.steam] : g \in named}
                /\ Done(q)
    /\ UNCHANGED <<memberVars, slips, list, last, stamp, checked, age>>

(* Unless another request inserted that slug first, which is an error. *)
InsertSteamGame(q) ==
    /\ At(q, "steam", "insert")
    /\ LET slug == <<req[q].app.slug>>
           free == \A g \in games : g.slug # slug
       IN  /\ games' = IF free
                       THEN games \cup {[app |-> NoApp, slug |-> slug,
                                         steam |-> req[q].app.steam, exes |-> {}]}
                       ELSE games
           /\ slips' = IF free /\ \E r \in Slots : Importing(r)
                       THEN slips \cup {<<"inserted">>} ELSE slips
    /\ Done(q)
    /\ UNCHANGED <<memberVars, list, last, stamp, checked, age>>

-----------------------------------------------------------------------------
(* The games the migrations insert: two of them. *)
Curated ==
    {[app |-> "3", slug |-> <<"vampire-crawlers">>, steam |-> "30",
      exes |-> {<<"vampire crawlers.exe">>}],
     [app |-> NoApp, slug |-> <<"wow-ascension">>, steam |-> "", exes |-> {<<"ascension.exe">>}]}

CatInit ==
    /\ Init
    /\ list \in Lists
    /\ games = Curated /\ last = Never /\ stamp = Never
    /\ checked = FALSE /\ age = 0

CatStep(q) ==
    \/ SyncGames(q) \/ Check(q) \/ FetchSeed(q) \/ ReadSlugs(q) \/ Stamp(q) \/ ImportFails(q)
    \/ Importing(q) /\ \E s \in req[q].left : UpsertGame(q, s)
    \/ \E a \in Library : SyncApp(q, a)
    \/ AdoptSteamGame(q) \/ InsertSteamGame(q)

(* The steps of Members are those of its own requests. *)
MemberStep ==
    /\ Next
    /\ \A q \in Slots : req[q].op \in {"import", "steam"} => req'[q] = req[q]
    /\ UNCHANGED catVars

CatNext ==
    \/ MemberStep
    \/ \E q \in Slots : CatStep(q)
    \/ Elapse \/ Restart \/ Publish

CatSpec == CatInit /\ [][CatNext]_allVars

-----------------------------------------------------------------------------
(* The client takes an entry for a suffix of a process's full path.        *)
Suffixes(path) == {SubSeq(path, k, Len(path)) : k \in 1..Len(path)}

Carrying(R, entry) == {g \in R : entry \in g.exes}

Detected(R, path) == {g \in R : g.exes \cap Suffixes(path) # {}}

Running == UNION {{e.path : e \in UNION {a.exes : a \in L}} : L \in Lists}

(* The games of an import that has written all of its seeds. *)
Landed(q) == At(q, "import", "write") /\ req[q].left = {} /\ <<"imports">> \notin slips

Mine(q) == {g \in games : \E s \in req[q].seeds : g.app = s.app}

(* An import leaves one game for each of its seeds, with the executables   *)
(* computed.  No more of them than the code allows to share a name carry   *)
(* one entry, and a process whose bare name is an entry is taken for no    *)
(* more than that by all its entries; one that only longer paths match may *)
(* be taken for as many games by each of them.  Nothing but an overlap     *)
(* stops an import at a slug.                                              *)
ImportLands ==
    /\ \A q \in Slots :
          Landed(q) =>
            /\ \A s \in req[q].seeds :
                  \E g \in Mine(q) : Mine(q) \cap {h \in games : h.app = s.app} = {g}
                                     /\ g.exes = s.exes
            /\ \A path \in Running :
                  /\ \A x \in Suffixes(path) : Cardinality(Carrying(Mine(q), x)) <= MaxShared
                  /\ Carrying(Mine(q), <<Basename(path)>>) # {} =>
                        Cardinality(Detected(Mine(q), path)) <= MaxShared
    /\ \A g, h \in games : g.slug = h.slug => g = h
    /\ <<"refused">> \in slips => {<<"imports">>, <<"inserted">>} \cap slips # {}

(* Refuted: qualifiedPattern's comment (discord.go:202-204) has the path   *)
(* identify the game.  Two paths of which one is a suffix of the other are *)
(* counted apart, and one process matches both.                            *)
PathIdentifies ==
    \A q \in Slots : Landed(q) =>
        \A path \in Running : Cardinality(Detected(Mine(q), path)) <= MaxShared

(* The catalogue never gets older than a week and a check, restarts, a     *)
(* missing organisation and imports by hand notwithstanding, unless a call *)
(* failed or an import was refused.                                        *)
StaysFresh ==
    \/ age <= Week
    \/ {<<"failed">>, <<"refused">>} \cap slips # {}
=============================================================================
