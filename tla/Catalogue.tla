------------------------------ MODULE Catalogue ------------------------------
(* tools/recover_modern_catalogue.py, with the admission of captures that      *)
(* tools/replay.py and tools/compare_captures.py share with it: what a capture *)
(* is taken for, the oracle recovered from a pair of captures, and the verdict *)
(* on a candidate.                                                             *)
(*                                                                             *)
(* A capture: completed, the run ended well; altered, the files whose bytes    *)
(* are no longer those its receipt records; engine, <<hash, base, family>>;    *)
(* mods and recorded, the selection as the file and as the receipt have it;    *)
(* selected, archives; loaded, names; all in order, as <<name, identity>>;     *)
(* mir, the published archive or Nil; profile, <<path, hash>>; raw, settings.  *)
EXTENDS Prototypes, SequencesExt

CONSTANT Nil

Mir == "mir"
WithoutMir(rows) == SelectSeq(rows, LAMBDA row : row[1] # Mir)
OnlyMir(rows) == SelectSeq(rows, LAMBDA row : row[1] = Mir)
Dumps == {"selection", "data_raw", "mod_settings"}
External == {"engine", "profile", "harness", "archives"}
Published47(version) == version[1] = 4 /\ version[2] = 7

(* replay._read_capture: custody is the hash of an archive handed in for the   *)
(* recorded one, or Nil.                                                       *)
ReplayReads(c, mir, custody) ==
    /\ c.completed
    /\ c.altered \cap (Dumps \cup External) = {}
    /\ IF mir THEN /\ c.mir # Nil /\ Published47(c.mir.version)
                   /\ IF custody = Nil THEN "mir_archive" \notin c.altered
                      ELSE custody = c.mir.hash /\ \A i \in DOMAIN OnlyMir(c.selected) :
                                                       OnlyMir(c.selected)[i][2] = c.mir.hash
              ELSE c.mir = Nil /\ custody = Nil
    /\ WithoutMir(c.mods) = WithoutMir(c.recorded)

(* read_capture: the archives themselves are not hashed here, but the          *)
(* selection must say of MIR what the receipt says.                            *)
CatalogueReads(c, mir) ==
    /\ c.completed
    /\ c.altered \cap Dumps = {}
    /\ c.mods = c.recorded
    /\ (\E i \in DOMAIN c.mods : c.mods[i][1] = Mir) <=> mir
    /\ IF mir THEN c.mir # Nil /\ OnlyMir(c.selected) = <<<<Mir, c.mir.hash>>>>
              ELSE c.mir = Nil /\ OnlyMir(c.selected) = <<>>

(* Mutant of SameInputs: the order in which the mods were loaded is taken for  *)
(* an identity set, as the selected archives are.                              *)
SameInputsUnordered(b, c) ==
    /\ b.engine = c.engine
    /\ WithoutMir(b.mods) = WithoutMir(c.mods)
    /\ ToSet(WithoutMir(b.selected)) = ToSet(WithoutMir(c.selected))
    /\ ToSet(WithoutMir(b.loaded)) = ToSet(WithoutMir(c.loaded))

(* _assert_matching_inputs.  The selected archives are sorted first; no        *)
(* selection names an archive twice.                                           *)
SameInputs(b, c) ==
    /\ b.engine = c.engine
    /\ WithoutMir(b.mods) = WithoutMir(c.mods)
    /\ ToSet(WithoutMir(b.selected)) = ToSet(WithoutMir(c.selected))
    /\ WithoutMir(b.loaded) = WithoutMir(c.loaded)

SameProfile(b, c) == b.profile[2] = c.profile[2]

(* _capture_receipt; result.json has the hashes of the dumps.                  *)
Receipt(name, c) ==
    [engine |-> c.engine, mods |-> WithoutMir(c.mods), selected |-> ToSet(WithoutMir(c.selected)),
     loaded |-> WithoutMir(c.loaded), profile |-> c.profile, files |-> name]
-----------------------------------------------------------------------------
(* The oracle                                                                  *)

(* _diff_domain: a patched row is recorded before and after.                   *)
DiffDomain(before, after) ==
    LET diff == DiffPrototypes(before, after)
    IN  IF diff = Refused THEN Refused
        ELSE [additions |-> diff.additions,
              patches   |-> [key \in DOMAIN diff.patches |->
                               [before |-> Row(before, key),
                                after  |-> ApplyChanges(Row(before, key), diff.patches[key])]]]

Private(key) == key[1] = "mod-data" /\ key[2] \in {"mir-policy", "mir-private"}
Policy == <<"mod-data", "mir-policy">>

(* _captured_maximum_level_bindings, which an engine without mod-data has not. *)
BindingsRead(c) ==
    \/ "mod-data" \notin DOMAIN c.raw /\ c.engine[3] = "2.0"
    \/ /\ Policy \in Keys(c.raw) /\ Placed(Policy, Row(c.raw, Policy))
       /\ IsInjective(Fields(Row(c.raw, Policy))["bindings"][2])

Recoverable(b, p, version) ==
    /\ CatalogueReads(b, FALSE) /\ CatalogueReads(p, TRUE)
    /\ Published47(p.mir.version) /\ p.mir.version = version
    /\ SameInputs(b, p) /\ SameProfile(b, p)
    /\ BindingsRead(p)

(* recover_profile: what was published, and what of it is retired on purpose.  *)
RecoverProfile(name, b, p, version) ==
    LET data     == DiffDomain(b.raw, p.raw)
        settings == DiffDomain(b.settings, p.settings)
    IN  IF ~Recoverable(b, p, version) \/ data = Refused \/ settings = Refused
        THEN Refused
        ELSE [receipt  |-> Receipt(name, b),
              data     |-> data, settings |-> settings,
              excluded |-> {key \in DOMAIN data.additions : Private(key)},
              retired  |-> {key \in DOMAIN settings.additions :
                              "targets" \in DOMAIN Fields(settings.additions[key])}]

(* recover_inventory for one profile: the target, the version and the engine   *)
(* must belong together.                                                       *)
RecoverInventory(name, b, p, target, version) ==
    IF /\ target \in {200, 210}
       /\ Published47(version) /\ version[3] \div 100 = target
       /\ p.engine[3] = (IF target = 200 THEN "2.0" ELSE "2.1")
    THEN RecoverProfile(name, b, p, version)
    ELSE Refused
-----------------------------------------------------------------------------
(* The verdict                                                                 *)

(* _intended_domain: what was published, less what is retired.                 *)
Stripped(row) == Map(Restrict(Fields(row), (DOMAIN Fields(row)) \ {"targets"}))
Intended(profile, domain) ==
    IF domain = "data"
    THEN [profile.data EXCEPT !.additions = Restrict(@, DOMAIN @ \ profile.excluded)]
    ELSE [profile.settings EXCEPT !.additions =
            [key \in DOMAIN @ |-> IF key \in profile.retired THEN Stripped(@[key]) ELSE @[key]]]

(* _overlay_domain                                                             *)
OverlayDomain(baseline, expected) ==
    LET extended == Put(baseline, expected.additions)
    IN  IF \/ DOMAIN expected.additions \cap Keys(baseline) # {}
           \/ ~(DOMAIN expected.patches \subseteq Keys(extended))
           \/ \E key \in DOMAIN expected.patches :
                 ~Same(Row(extended, key), expected.patches[key].before)
        THEN Refused
        ELSE Put(extended, [key \in DOMAIN expected.patches |-> expected.patches[key].after])

(* A review is a sequence of rows: domain, key and value, Nothing for a        *)
(* prototype a candidate is to be without.                                     *)
ReviewValid(review) ==
    IsInjective([i \in DOMAIN review |-> <<review[i].domain, review[i].key>>])

(* _apply_reviewed: one row of the domain after another.                       *)
ApplyRow(expected, row, domain) ==
    LET kind == row.key[1]
        left == IF kind \in DOMAIN expected
                THEN Restrict(expected[kind], DOMAIN expected[kind] \ {row.key[2]}) ELSE Empty
    IN  IF row.domain # domain THEN expected
        ELSE IF row.value # Nothing THEN Put(expected, [key \in {row.key} |-> row.value])
        ELSE IF DOMAIN left = {} THEN Restrict(expected, (DOMAIN expected) \ {kind})
        ELSE [expected EXCEPT ![kind] = left]
ApplyReviewed(expected, review, domain) ==
    LET applied[i \in 0..Len(review)] ==
            IF i = 0 THEN expected ELSE ApplyRow(applied[i - 1], review[i], domain)
    IN  applied[Len(review)]

(* Mutant of Differences: only what is expected is looked for.                 *)
ExpectedDifferences(expected, actual) ==
    {key \in Keys(expected) : key \notin Keys(actual) \/ ~Same(Row(expected, key), Row(actual, key))}

(* _difference_summary, and the report of compare_captures.                    *)
Differences(expected, actual) ==
    {key \in Keys(expected) \cup Keys(actual) :
        \/ key \notin Keys(expected) \cap Keys(actual)
        \/ ~Same(Row(expected, key), Row(actual, key))}

(* _paired_profile_equivalence, over the parsed documents of the two profile   *)
(* files, or Nil where none were handed in.                                    *)
Paired(b, c, profiles) ==
    /\ profiles # Nil
    /\ profiles[1].hash = b.profile[2] /\ profiles[2].hash = c.profile[2]
    /\ profiles[1].document = profiles[2].document

(* compare_candidate: Refused, or the keys that differ, by domain.             *)
CompareCandidate(profile, name, b, c, review, profiles) ==
    LET data     == OverlayDomain(b.raw, Intended(profile, "data"))
        settings == OverlayDomain(b.settings, Intended(profile, "settings"))
        admitted == /\ CatalogueReads(b, FALSE) /\ CatalogueReads(c, TRUE)
                    /\ Receipt(name, b) = profile.receipt
                    /\ profiles = Nil \/ Paired(b, c, profiles)
                    /\ SameInputs(b, c)
                    /\ profiles # Nil \/ SameProfile(b, c)
    IN  IF ~admitted THEN Refused
        ELSE IF data = Refused \/ settings = Refused \/ ~ReviewValid(review) THEN Refused
        ELSE [data     |-> Differences(ApplyReviewed(data, review, "data"), c.raw),
              settings |-> Differences(ApplyReviewed(settings, review, "settings"), c.settings)]

(* compare_captures.compare: everything counts, nothing is reviewed.           *)
CompareCaptures(left, right, custody) ==
    IF ~(ReplayReads(left, TRUE, custody[1]) /\ ReplayReads(right, TRUE, custody[2]) /\ SameInputs(left, right))
    THEN Refused
    ELSE [data     |-> Differences(left.raw, right.raw),
          settings |-> Differences(left.settings, right.settings)]
=============================================================================
