------------------------------ MODULE MCReplays ------------------------------
(* A small instance of Replays for TLC.  Captures of the game without MIR (b), *)
(* of the published MIR (p) and of a candidate (c): a good one of each, and    *)
(* ones that differ from it in what the tools must tell apart.                 *)
EXTENDS Replays, JsonValues

CONSTANTS b0, bPatched, p0, pReordered, pRemoves, pAgain, c0, cExtra, cFlag, cReordered,
          expected, another, malformed, k, l, s, t, r, w

Row3(kind, name, fields) ==
    name :> Map(fields @@ ("type" :> Str(kind)) @@ ("name" :> Str(name)))
Technology(name, fields) == Row3("technology", name, fields)
ModData(name, fields) == Row3("mod-data", name, fields)
Setting(name, fields) == Row3("bool-setting", name, fields)

Unit(count, time) == "unit" :> Map(("count" :> count) @@ ("time" :> time))

(* The game's technologies without MIR: a switch, a number, a list, an object. *)
Upstream ==
    Technology("steel", ("hidden" :> Flag(TRUE)) @@ ("level" :> Whole(1)) @@ Unit(Whole(5), Float(30))
                            @@ ("needs" :> List(<<Str("iron")>>)) @@ ("icons" :> Map(Empty)))
    @@ Technology("rail", ("hidden" :> Flag(FALSE)))

(* What the published MIR makes of them: the switch becomes the number one,    *)
(* the number is spelt another way, a nested field goes, another comes, and    *)
(* the list is another; rail is left alone.                                    *)
Changed47 ==
    Technology("steel", ("hidden" :> Whole(1)) @@ ("level" :> Float(1))
                            @@ ("unit" :> Map(("count" :> Whole(6)) @@ ("formula" :> Str("L"))))
                            @@ ("needs" :> List(<<Str("iron"), Str("coal")>>)) @@ ("icons" :> Map(Empty)))
    @@ Technology("rail", ("hidden" :> Flag(FALSE)))

Research == Technology("mining", ("effects" :> List(<<>>)) @@ Unit(Whole(1), Whole(60)))
Kept(bindings) == ModData("mir-policy", "bindings" :> List(bindings)) @@ ModData("mir-private", Empty)
Unknown == Technology("extra", Empty)
Options == Setting("mir-mining", ("targets" :> List(<<Str("ore")>>)) @@ ("default" :> Flag(TRUE)))
OptionsKept == Setting("mir-mining", "default" :> Flag(TRUE))
Theirs == Setting("other", "targets" :> List(<<>>))

Dump(technologies, data) == ("technology" :> technologies) @@ data
Policies(bindings) == "mod-data" :> Kept(bindings)

Unaltered(mods, loaded, mir) ==
    [completed |-> TRUE, altered |-> {}, engine |-> <<"hash", "2.1.23", "2.1">>,
     mods |-> mods, recorded |-> mods,
     selected |-> IF mir = Nil THEN mods ELSE SelectSeq(mods, LAMBDA m : m[1] # Mir) \o <<<<Mir, mir.hash>>>>,
     loaded |-> loaded, mir |-> mir, profile |-> <<"here", "profile">>]

Base == <<"base", "2.1">>
Other == <<"other", "1.0">>
Ours(v) == <<Mir, v>>
Archive(version, hash) == [version |-> version, hash |-> hash]
P47 == Archive(<<4, 7, 21000>>, expected)
P5 == Archive(<<5, 0, 21000>>, another)
With(shell, raw, settings) == shell @@ [raw |-> raw, settings |-> ("bool-setting" :> settings)]

NoMir == Unaltered(<<Base, Other>>, <<Base, Other>>, Nil)
WithMir(mir) == Unaltered(<<Base, Other, Ours(mir.version)>>, <<Base, Ours(mir.version), Other>>, mir)
Reordered(mir) == [WithMir(mir) EXCEPT !.loaded = <<Other, Base, Ours(mir.version)>>]

Published4 == Dump(Changed47 @@ Research, Policies(<<Str("mining"), Str("steel")>>))
Candidate5 == Dump(Changed47 @@ Research, Empty)

MCCapture ==
    (b0 :> With(NoMir, Dump(Upstream, Empty), Theirs))
    @@ (bPatched :> With(NoMir, Dump(Changed47, Empty), Theirs))
    @@ (p0 :> With(WithMir(P47), Published4, Theirs @@ Options))
    @@ (pReordered :> With(Reordered(P47), Published4, Theirs @@ Options))
    @@ (pRemoves :> With(WithMir(P47), Dump(Research, Policies(<<Str("mining")>>)), Theirs))
    @@ (pAgain :> With([WithMir(P47) EXCEPT !.altered = {"mod_settings"}], Published4, Theirs))
    @@ (c0 :> With(WithMir(P5), Candidate5, Theirs @@ OptionsKept))
    @@ (cExtra :> With([WithMir(P5) EXCEPT !.profile = <<"there", "rewritten">>],
                       Dump(Changed47 @@ Unknown, Empty), Theirs @@ OptionsKept))
    @@ (cFlag :> With(WithMir(P5), Dump(Upstream @@ Research, Empty), Theirs @@ Options))
    @@ (cReordered :> With(Reordered(P5), Candidate5, Theirs @@ OptionsKept))

MCRoots ==
    ("base" :> {b0, bPatched}) @@ ("published" :> {p0, pReordered, pRemoves, pAgain})
    @@ ("candidate" :> {c0, cExtra, cFlag, cReordered})

(* Another archive is well formed too, with a member more and a stage less;    *)
(* a malformed one has two members of one name but for their case.             *)
Member(path, folded) ==
    [path |-> <<"mir_4.7.21000">> \o path, folded |-> <<"mir_4.7.21000">> \o folded, plain |-> TRUE]
Plain(path) == Member(path, path)
InfoJson == Plain(<<"info.json">>)
Zip47(members) ==
    [root |-> "mir_4.7.21000", members |-> members,
     info |-> [name |-> Mir, version |-> <<4, 7, 21000>>, factorio |-> "2.1"]]

MCZipped ==
    (expected :> Zip47(<<InfoJson, Plain(Settings), Plain(Data)>>))
    @@ (another :> Zip47(<<InfoJson, Plain(<<"runtime", "control.lua">>), Plain(Data)>>))
    @@ (malformed :> Zip47(<<InfoJson, Plain(Data), Member(<<"INFO.json">>, <<"info.json">>)>>))

Review(domain, kind, name, value) == [domain |-> domain, key |-> <<kind, name>>, value |-> value]
NoResearch == Review("data", "technology", "mining", Nothing)
AndUnknown == Review("data", "technology", "extra", Unknown["extra"])
MCReviews == {<<>>, <<NoResearch, AndUnknown>>, <<NoResearch, NoResearch>>,
              <<Review("settings", "bool-setting", "mir-mining", Nothing)>>}
MCProfiles ==
    {Nil, <<[hash |-> "profile", document |-> "d"], [hash |-> "rewritten", document |-> "d"]>>}

MCPublished == <<4, 7, 21000>>

(* Captures are compared or replayed, not both at once, which share nothing    *)
(* but the captures they read; two builders meet, or a builder and a composer, *)
(* or two composers; a composer starts when there is something to compose, the *)
(* comparer when there is an oracle.  An archive that was replaced is not put  *)
(* back: between a hash and the next, compose_replay could not tell.           *)
Started(runs) == \E p \in runs : job[p].pc # "idle"
MCNext ==
    /\ Next
    /\ Started({k, l, s, t})' => ~Started({r, w})' /\ captures'["candidate"] = c0
    /\ Started({l})' => Started({k}) /\ ~Started({s})'
    /\ Started({t})' => Started({s}) /\ job[k].pc \in Ended
    /\ Started({s})' => replay.files[ReceiptFile] # NoFile \/ Started({s})
    /\ archive # expected => archive' = archive
    /\ Started({w})' => oracle # NoFile \/ Started({w})

MCSpec == Init /\ [][MCNext]_vars
=============================================================================
