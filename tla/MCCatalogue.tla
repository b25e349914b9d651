---------------------------- MODULE MCCatalogue -----------------------------
(* An instance of Catalogue, and so of Members; users and slots are        *)
(* interchangeable.                                                        *)
EXTENDS Catalogue, TLC

CONSTANTS u1, u2, u3, i1, q1, q2

MCAsks == {<<"member", "keep">>, <<"admin", "keep">>, <<"keep", "ban">>, <<"keep", "unban">>,
           <<"member", "ban">>}

Exe(path) == [path |-> path, launcher |-> FALSE]

App(id, slug, steam, exes) ==
    [id |-> id, slug |-> slug, steam |-> steam, exes |-> exes, test |-> FALSE]

(* Two games of one name; one has a file that is another game's, and both  *)
(* a name only directories tell, the path of one being the end of the      *)
(* other's, and a path they share.  Later the second is gone, the first    *)
(* has its own files left, and a third game ships one of them in a         *)
(* directory of its own, what is never detected, a name too short and one  *)
(* it shares with its test edition.                                        *)
Crsed == App("1", "crsed-f-o-a-d", "10",
             {Exe(<<"crsed.exe">>), Exe(<<"enlisted.exe">>), Exe(<<"common", "hl.exe">>),
              Exe(<<"crsed", "bin", "game.exe">>)})
Remake == App("2", "crsed-f-o-a-d", "",
              {Exe(<<"common", "hl.exe">>), Exe(<<"bin", "game.exe">>)})
Crawlers == App("3", "vampire-crawlers", "30",
                {Exe(<<"mod", "crsed.exe">>), Exe(<<"mod", "setup.exe">>),
                 Exe(<<"mod", "hl.exe">>), Exe(<<"crawlers.exe">>),
                 [Exe(<<"run.exe">>) EXCEPT !.launcher = TRUE]})
Test == [App("4", "test", "", {Exe(<<"test", "crawlers.exe">>)}) EXCEPT !.test = TRUE]

First == {Crsed, Remake}
MCLists ==
    {First, {[Crsed EXCEPT !.exes = {e \in @ : Len(e.path) = 1}], Crawlers, Test}}

MCLibrary == {[steam |-> "10", slug |-> "crsed-f-o-a-d"]}

Symmetric == Permutations(Users) \cup Permutations(Slots)

(* Once two things went wrong nothing more is asked of the model. *)
FewSlips == Cardinality(slips) <= 1

(* The accounts are explored before the first import, and the catalogue    *)
(* while the first account registers; a list that was imported is not      *)
(* taken back, and of two imports at once one is the schedule's.           *)
OneStory ==
    \/ /\ list = First /\ catVars = <<list, Curated, Never, Never, FALSE, 0>>
       /\ \A q \in Slots : req[q].op \notin {"import", "steam"}
    \/ /\ \A u \in Accounts : role[u] = "admin" /\ via[u] = "bootstrap"
       /\ Cardinality(Accounts) <= 1 /\ banned = {}
       /\ \A i \in Invites : invites[i].state = "none"
       /\ \A q \in Slots : req[q].op # "patch"
       /\ \E q \in Slots : req[q].op # "register"
       /\ list = First => Curated \subseteq games
       /\ \A q, r \in Slots : q # r /\ Importing(q) /\ Importing(r) => req[q].auto # req[r].auto
=============================================================================
