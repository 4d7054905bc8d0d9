------------------------------ MODULE Packaging ------------------------------
(* tools/package.py: the members of a package, as functions of a source tree   *)
(* and of an edition record.  A path is the sequence of its parts, its suffix  *)
(* last: data.lua is <<"data", "lua">>.  A target is the number in its name:   *)
(* f210 is 210.                                                                *)
EXTENDS Integers, Sequences, FiniteSets, SequencesExt

CONSTANTS
    Retained,   \* targets of the ordinary edition record
    Early,      \* targets of the early, data-only record
    Refused     \* the value of a selection that raises

(* A file: the paths its Lua imports, and what else its text says.             *)
File(requires, text) == [requires |-> requires, text |-> text]
Text(words) == File({}, words)

Version(major, minor, encoded, digits) ==
    [major |-> major, minor |-> minor, encoded |-> encoded, digits |-> digits]
-----------------------------------------------------------------------------
(* The distribution codec: target * 100 + patch, in five digits.               *)

Codec(v) == v.digits = 5
CodeOf(v) == v.encoded \div 100

(* The unified version a changelog is headed with.                             *)
Unified(v) == [major |-> v.major, minor |-> v.minor, patch |-> v.encoded % 100]

(* Mutant of Recoded: the source's own target code is left in the number.      *)
RecodedTwice(v, t) == Version(v.major, v.minor, t * 100 + v.encoded, 5)

(* The same release in the codec of target t.                                  *)
Recoded(v, t) == Version(v.major, v.minor, t * 100 + (v.encoded % 100), 5)
-----------------------------------------------------------------------------
(* Paths                                                                       *)

Lua(p) == Last(p) = "lua"
Info == <<"info", "json">>
License == <<"LICENSE", "">>
Changelog == <<"changelog", "txt">>
Thumbnail == <<"thumbnail", "png">>
TargetLua == <<"platform", "target", "lua">>
DataLua == <<"data", "lua">>
F210Only == <<"migrations", "4.7.0", "json">>
F110Plus == <<"migrations", "5.0.11000", "json">>
EarlyLocale == <<"adapters", "early", "locale", "en", "mir", "cfg">>
EarlyLocaleOut == <<"locale", "en", "mir", "cfg">>
Entrypoints == {DataLua, <<"settings", "lua">>, <<"data-final-fixes", "lua">>,
                <<"control", "lua">>}
PublicApi == {<<"api", "v1", "data", "lua">>, <<"api", "v1", "runtime", "lua">>}
Development == {"tests", "tools", "docs", "sdk", "fixtures", "build", "dist", ".hidden"}

(* Whole parts are compared: a directory, or a file name that starts with a    *)
(* dot; a name with a suffix is no other name of the list.                     *)
Barred(p) ==
    \/ \E i \in 1 .. Len(p) - 2 : p[i] \in Development
    \/ p[Len(p) - 1] = ".hidden"

Admitted(p) ==
    /\ ~Barred(p)
    /\ \/ p \in {Info, License, Changelog, Thumbnail}
       \/ Lua(p)
       \/ Len(p) = 3 /\ p[1] = "migrations" /\ Last(p) = "json"
       \/ Len(p) > 2 /\ p[1] = "locale" /\ Last(p) = "cfg"
       \/ Len(p) > 2 /\ p[1] = "graphics" /\ Last(p) \in {"png", "jpg", "ogg"}

(* git_source and the reading half of members: every entry must be an ordinary *)
(* file; what is not admitted is passed over.                                  *)
Read(tree, early) ==
    LET taken == {p \in DOMAIN tree : Admitted(p) \/ (early /\ p = EarlyLocale)}
    IN  IF (\E p \in DOMAIN tree : tree[p].text = <<"link">>) \/ Info \notin taken
        THEN Refused
        ELSE Restrict(tree, taken)
(* What a source tree is: finitely many files, each importing finitely many    *)
(* Lua files, and no Lua below the directory the presentation is left out of.  *)
Ordinary(tree) ==
    /\ IsFiniteSet(DOMAIN tree)
    /\ \A p \in DOMAIN tree : /\ IsFiniteSet(tree[p].requires)
                              /\ \A d \in tree[p].requires : Lua(d)
    /\ \A p \in DOMAIN tree : Lua(p) => ~IsPrefix(<<"presentation", "changelog">>, p)
-----------------------------------------------------------------------------
(* require_closure: a worklist of paths, whose order does not matter.  Outside *)
(* paths (.., a leading slash) are refused as missing ones are.                *)

Work(pending, closure) == [pending |-> pending, closure |-> closure]

(* Mutant of Popped: the imports of imports are not followed.                  *)
PoppedOnce(files, w, p) == Work(w.pending \ {p}, w.closure \cup {p})

Popped(files, w, p) ==
    IF p \in w.closure
    THEN Work(w.pending \ {p}, w.closure)
    ELSE Work((w.pending \ {p}) \cup files[p].requires, w.closure \cup {p})

Stuck(files, w, p) == p \notin w.closure /\ p \notin DOMAIN files

RequireClosure(files, entries) ==
    LET named == (UNION {files[p].requires : p \in DOMAIN files}) \cup entries \cup DOMAIN files
        follow[w \in [pending: SUBSET named, closure: SUBSET named]] ==
            IF w.pending = {} THEN w.closure
            ELSE LET p == CHOOSE p \in w.pending : TRUE
                 IN  IF Stuck(files, w, p) THEN Refused ELSE follow[Popped(files, w, p)]
    IN  follow[Work(entries, {})]
-----------------------------------------------------------------------------
(* Selection                                                                   *)

(* player_presentation: the assets are there, the changelog has the heading.   *)
Presentable(files, info) ==
    /\ \A p \in {License, Thumbnail, Changelog} : p \in DOMAIN files /\ files[p].text # <<>>
    /\ Codec(info.version) /\ files[Changelog].text = <<"heading", Unified(info.version)>>

PlayerPresentation(files, info) ==
    IF ~Presentable(files, info) THEN Refused
    ELSE [info |-> info,
          files |-> Restrict(files, {p \in DOMAIN files :
                                       ~IsPrefix(<<"presentation", "changelog">>, p)})]

(* The Lua the closure reaches, beside every other file.                       *)
Reached(files, closure) == Restrict(files, {p \in DOMAIN files : Lua(p) => p \in closure})

TargetText(t, version) == Text(<<"target", t, version>>)

(* select_edition                                                              *)
Lines(info, editions) == {k \in DOMAIN editions : editions[k].factorio = info.factorio}

Selectable(info, t, editions) ==
    /\ info.name = "mir" /\ t \in DOMAIN editions /\ editions[t].available
    /\ \E k \in DOMAIN editions : Lines(info, editions) = {k} /\ CodeOf(info.version) = k
    /\ Codec(info.version)

EditionInfo(info, t, edition) ==
    [info EXCEPT !.version = Recoded(@, t), !.factorio = edition.factorio,
                 !.base = edition.base,
                 !.extras = IF edition.reduced THEN {} ELSE edition.extras[@]]

EditionFiles(files, t, edition, version) ==
    [p \in (DOMAIN files) \cup {TargetLua} \cup (IF edition.reduced THEN Entrypoints ELSE {}) |->
        IF p = TargetLua THEN TargetText(t, version)
        ELSE IF edition.reduced /\ p \in Entrypoints
             THEN File({<<"adapters", "reduced">> \o p}, <<"adapter">>)
             ELSE files[p]]

SelectEdition(files, info, t, editions) ==
    IF ~Selectable(info, t, editions) THEN Refused
    ELSE LET named   == EditionInfo(info, t, editions[t])
             all     == EditionFiles(files, t, editions[t], named.version)
             closure == RequireClosure(all, Entrypoints \cup PublicApi \cup {TargetLua})
         IN  IF closure = Refused THEN Refused
             ELSE PlayerPresentation(Reached(all, closure), named)

(* select_early_edition: the data adapter and the shared assets only.          *)
EarlyAssets == {Info, License, Thumbnail, Changelog, EarlyLocale}

EarlySelectable(info, t, editions) ==
    /\ info.name = "mir" /\ t \in Early /\ t \in DOMAIN editions
    /\ editions[t].available /\ editions[t].factorio = <<0, t>>
    /\ Codec(info.version)

EarlyFiles(files, t) ==
    [p \in (DOMAIN files) \cup {TargetLua, DataLua} |->
        IF p = TargetLua THEN TargetText(t, <<>>)
        ELSE IF p = DataLua
             THEN File({<<"adapters", "early", "data", "lua">>, TargetLua}, <<"adapter">>)
             ELSE files[p]]

EarlyShipped(files, closure) ==
    [p \in closure \cup (EarlyAssets \ {EarlyLocale}) \cup {EarlyLocaleOut} |->
        IF p = EarlyLocaleOut THEN files[EarlyLocale] ELSE files[p]]

SelectEarlyEdition(files, info, t, editions) ==
    IF ~EarlySelectable(info, t, editions) THEN Refused
    ELSE LET named   == [info EXCEPT !.version = Recoded(@, t), !.base = editions[t].base,
                                     !.factorio = editions[t].factorio, !.extras = {}]
             all     == EarlyFiles(files, t)
             closure == RequireClosure(all, {DataLua, TargetLua})
         IN  IF closure = Refused \/ ~(EarlyAssets \subseteq DOMAIN files) THEN Refused
             ELSE PlayerPresentation(EarlyShipped(all, closure), named)

(* render_local_mir_target_version: a local build under another version of the *)
(* same edition rewrites the one version literal and the changelog heading.    *)
Renderable(files, old, new) ==
    /\ TargetLua \in DOMAIN files /\ Codec(old) /\ Codec(new)
    /\ \E t \in Retained : /\ files[TargetLua] = TargetText(t, old)
                           /\ CodeOf(old) = t /\ CodeOf(new) = t
    /\ Changelog \in DOMAIN files => files[Changelog].text = <<"heading", Unified(old)>>

RenderLocalMirTargetVersion(files, old, new, name) ==
    IF name # "mir" THEN files
    ELSE IF ~Renderable(files, old, new) THEN Refused
    ELSE [p \in DOMAIN files |->
            CASE p = TargetLua -> TargetText(CodeOf(new), new)
              [] p = Changelog -> Text(<<"heading", Unified(new)>>)
              [] OTHER -> files[p]]
-----------------------------------------------------------------------------
(* members                                                                     *)

(* Renames belong to the editions whose published saves know the old names.    *)
Unmigrated(selected, t) ==
    LET dropped == (IF t # 210 THEN {F210Only} ELSE {})
                       \cup (IF t \notin {110, 200, 210} THEN {F110Plus} ELSE {})
    IN  [selected EXCEPT !.files = Restrict(@, DOMAIN @ \ dropped)]

Rows(selected) ==
    IF selected = Refused THEN Refused
    ELSE [selected EXCEPT !.files = Restrict(@, {p \in DOMAIN @ : Admitted(p)})]

(* A declared edition, whose version derives from the source's codec.          *)
Members(tree, info, t, editions) ==
    LET files == Read(tree, t \in Early)
    IN  IF files = Refused THEN Refused
        ELSE IF t \in Early THEN Rows(SelectEarlyEdition(files, info, t, editions))
        ELSE LET selected == SelectEdition(files, info, t, editions)
             IN  IF selected = Refused THEN Refused ELSE Rows(Unmigrated(selected, t))

(* A generic package, under the source's own version or a requested one.       *)
Presented(files, info) ==
    IF files = Refused THEN Refused
    ELSE IF Changelog \in DOMAIN files THEN Rows(PlayerPresentation(files, info))
    ELSE Rows([info |-> info, files |-> files])

LocalMembers(tree, info) == Presented(Read(tree, FALSE), info)

RenamedMembers(tree, info, version) ==
    LET files == Read(tree, FALSE)
    IN  IF files = Refused THEN Refused
        ELSE Presented(RenderLocalMirTargetVersion(files, info.version, version, info.name),
                       [info EXCEPT !.version = version])
-----------------------------------------------------------------------------
(* What a package promises                                                     *)

Entries(t) == IF t \in Early THEN {DataLua, TargetLua}
              ELSE Entrypoints \cup PublicApi \cup {TargetLua}

Closed(files, S) == \A p \in S : files[p].requires \subseteq S

(* What a source has to bring along: its assets under the heading of its own   *)
(* version, and an edition that is offered for it.                             *)
Offered(files, info, t, editions) ==
    /\ Presentable(files, info)
    /\ IF t \in Early
       THEN EarlySelectable(info, t, editions) /\ EarlyAssets \subseteq DOMAIN files
       ELSE Selectable(info, t, editions)

(* The files an edition's modules import from, its adapters in place.          *)
Body(files, info, t, editions) ==
    IF t \in Early THEN EarlyFiles(files, t)
    ELSE EditionFiles(files, t, editions[t], Recoded(info.version, t))

(* The Lua of a package is the least set that holds the entry points of its    *)
(* edition and everything its members import: nothing is missing when the game *)
(* loads it, and no other edition's body comes along.                          *)
Whole(package, t) ==
    LET lua == {p \in DOMAIN package.files : Lua(p)}
    IN  /\ Entries(t) \subseteq lua /\ Closed(package.files, lua)
        /\ \A S \in SUBSET (lua \ Entries(t)) : S # {} => ~Closed(package.files, lua \ S)

(* The three places a package states its version say the same release.         *)
SameRelease(package, t) ==
    LET v == package.info.version
    IN  /\ CodeOf(v) = t
        /\ package.files[TargetLua].text \in {<<"target", t, v>>, <<"target", t, <<>>>>}
        /\ package.files[Changelog].text = <<"heading", Unified(v)>>
=============================================================================
