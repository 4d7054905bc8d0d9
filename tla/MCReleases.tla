----------------------------- MODULE MCReleases -----------------------------
(* A small instance of Releases for TLC: two retained targets, one of them     *)
(* reduced, and one early one.                                                 *)
EXTENDS Releases, TLC

CONSTANTS good, broken, r1, r2, e1, v1, v2, q

Release(patch) == Version(5, 0, 21000 + patch, 5)

Needs(paths) == File(paths, <<"lua">>)
A == <<"research", "a", "lua">>
B == <<"runtime", "b", "lua">>
EarlyData == <<"adapters", "early", "data", "lua">>

(* A small player tree; "broken" lacks a file its early adapter imports.       *)
Tree(version, early) ==
    [p \in Entrypoints \cup PublicApi \cup {<<"adapters", "reduced">> \o e : e \in Entrypoints}
       |-> Needs(IF p = DataLua THEN {A} ELSE IF p = <<"control", "lua">> THEN {B} ELSE {})]
    @@ (A :> Needs({TargetLua})) @@ (B :> Needs({A, B}))
    @@ (EarlyData :> Needs(early))
    @@ (TargetLua :> TargetText(210, version))
    @@ (Info :> Text(<<"info">>)) @@ (License :> Text(<<"mit">>))
    @@ (Thumbnail :> Text(<<"png">>)) @@ (Changelog :> Text(<<"heading", Unified(version)>>))
    @@ (EarlyLocale :> Text(<<"cfg">>)) @@ (F210Only :> Text(<<"renames">>))
    @@ (<<"tests", "a", "lua">> :> Needs({}))

PlayerInfo(version) ==
    [name |-> "mir", version |-> version, factorio |-> <<2, 1>>, base |-> 23, extras |-> {}]

MCPlayer ==
    (good :> [tree |-> Tree(Release(1), {TargetLua}), info |-> PlayerInfo(Release(1))])
    @@ (broken :> [tree |-> Tree(Release(2), {<<"research", "gone", "lua">>}),
                   info |-> PlayerInfo(Release(2))])

Edition(factorio, base, reduced) ==
    [factorio |-> factorio, base |-> base, available |-> TRUE, reduced |-> reduced,
     extras |-> [S \in {{}} |-> S]]

Both(base) == (13 :> Edition(<<0, 13>>, 20, TRUE)) @@ (210 :> Edition(<<2, 1>>, base, FALSE))

(* r2 asks for another minimum base than the sources declare.                  *)
MCEditions ==
    (r1 :> Both(23)) @@ (r2 :> Both(24)) @@ (e1 :> (9 :> Edition(<<0, 9>>, 8, TRUE)))

MCRetained == <<13, 210>>
MCEarly == <<9>>

(* Trees whose modules import each other, or something that is not there, in   *)
(* every way; the adapters of the reduced and the early editions among them.   *)
Gone == <<"research", "gone", "lua">>
Graphs ==
    {(DataLua :> Needs(d)) @@ (A :> Needs(a)) @@ (B :> Needs(b))
        @@ (<<"adapters", "reduced", "data", "lua">> :> Needs(r)) @@ (EarlyData :> Needs(r))
        @@ Tree(Release(1), {}) :
       d \in SUBSET {A, B}, a \in SUBSET {A, B, Gone, DataLua}, b \in SUBSET {A, Gone, TargetLua},
       r \in SUBSET {A, B}}

(* The tree of the first release with one thing wrong: a file is missing, or   *)
(* is a link.                                                                  *)
Wrong ==
    LET tree == Tree(Release(1), {})
        needed == {Info, License, Thumbnail, Changelog, EarlyLocale, TargetLua}
    IN  {Restrict(tree, DOMAIN tree \ {p}) : p \in needed}
            \cup {[tree EXCEPT ![p] = Text(<<"link">>)] : p \in needed}

(* The trees by what imports what, by what is wrong with them, and by the      *)
(* patch up to the last one; and metadata of another release or another mod.   *)
MCEdits ==
    {[tree |-> g, info |-> PlayerInfo(Release(1))] : g \in Graphs \cup Wrong}
    \cup {[tree |-> Tree(Release(i), {}), info |-> PlayerInfo(Release(i))] : i \in {0, 1, 42, 99}}
    \cup {[tree |-> Tree(Release(1), {}), info |-> i] :
             i \in {PlayerInfo(Release(2)), [PlayerInfo(Release(1)) EXCEPT !.name = "other"]}}

(* One good release at first; either there is another commit or the tool files *)
(* change, once; the early record is tracked from the start or not.  A         *)
(* second run joins in while there is one commit, one tool and nothing edited: *)
(* what it shares with the first is the output.                                *)
MCInit ==
    /\ Init /\ disk = v1
    /\ commits[1].source = good /\ commits[1].record = r1

MCNext ==
    /\ Next
    /\ disk = v2 => disk' = v2
    /\ Len(commits') = 1 \/ disk' = v1
    /\ job'[q].pc # "idle" =>
          /\ Len(commits') = 1 /\ disk' = v1
          /\ work' = [record |-> Tip'.record, early |-> Tip'.early]

MCSpec == MCInit /\ [][MCNext]_rvars
=============================================================================
