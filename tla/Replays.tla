------------------------------- MODULE Replays -------------------------------
(* tools/replay.py, tools/compose_replay.py and the commands of                *)
(* tools/recover_modern_catalogue.py as runs over shared files: captures are   *)
(* taken again, stages and the published archive change, and runs crash,       *)
(* between any two of their reads and writes.                                  *)
EXTENDS Catalogue

CONSTANTS
    Builders, Composers, Recoverers, Comparers,     \* runs, by what they do
    Captures,       \* names of captures
    Capture,        \* Capture[c], what the capture c holds
    Roots,          \* Roots[r], the captures that may stand at root r
    Archives,       \* hashes of archives
    Zipped,         \* Zipped[a], the members of a in order, and what its info.json says
    Expected,       \* the hash the composition is asked for
    Target, Published,      \* the target and the version recovered
    Reviews, Profiles,      \* what a comparison may be handed
    MaxChanges      \* how often files change from outside

(* A run is of one command.                                                    *)
ASSUME RunsAssumption ==
    /\ Builders \cap (Composers \cup Recoverers \cup Comparers) = {}
    /\ Composers \cap (Recoverers \cup Comparers) = {}
    /\ Recoverers \cap Comparers = {}

(* What a capture is, and that its selection names the archive of MIR it ran.  *)
ASSUME CapturesAssumption ==
    /\ {"base", "published", "candidate"} \subseteq DOMAIN Roots
    /\ \A r \in DOMAIN Roots : Roots[r] \subseteq Captures
    /\ \A c \in Captures :
          /\ DOMAIN Capture[c] = {"completed", "altered", "engine", "mods", "recorded", "selected",
                                   "loaded", "mir", "profile", "raw", "settings"}
          /\ Capture[c].mir # Nil => \A i \in DOMAIN OnlyMir(Capture[c].selected) :
                                         OnlyMir(Capture[c].selected)[i][2] = Capture[c].mir.hash
(* A review has a place and a descriptor, or none, for every row.              *)
ASSUME ReviewsAssumption ==
    \A review \in Reviews :
        /\ review \in Seq({review[i] : i \in DOMAIN review})
        /\ \A i \in DOMAIN review : /\ review[i].domain \in {"data", "settings"}
                                    /\ review[i].key = <<review[i].key[1], review[i].key[2]>>
(* The members of an archive come in an order.                                 *)
ASSUME ArchivesAssumption ==
    /\ Expected \in Archives
    /\ \A a \in Archives : Zipped[a].members \in Seq({Zipped[a].members[i] : i \in DOMAIN Zipped[a].members})

VARIABLES
    captures,   \* captures[r], what stands at root r
    archive,    \* the published archive on disk
    replay,     \* the output root of the builders
    composed,   \* the output root of the composers
    oracle,     \* the inventory file: the captures it was recovered from
    job,        \* job[p], where p's run stands
    changes,    \* how often files changed from outside
    raced       \* a composer found the root it wanted to make

vars == <<captures, archive, replay, composed, oracle, job, changes, raced>>
-----------------------------------------------------------------------------
(* Files                                                                       *)

NoFile == <<>>
Partial == <<"partial">>
Junk == <<"junk">>
Data == <<"data-final-fixes.lua">>
Settings == <<"settings.lua">>
Quiet == <<"data.lua">>         \* for the four entrypoints that start nothing
Stages == {Data, Settings, Quiet}
WriteOrder == <<Data, Settings, Quiet>>

(* A stage is what it does; one that starts nothing does nothing.              *)
Rendered(f, b, p) == IF f \in {Data, Settings} THEN <<"stage", f, b, p>> ELSE <<"empty", f>>
ReceiptOf(b, p, outputs) == <<"receipt", b, p, outputs>>
InventoryOf(receipt) == <<"inventory", receipt[4], receipt>>

ReceiptFile == <<"comparison-receipt.json">>
InventoryFile == <<"hash-inventory.json">>
ReplayFiles == Stages \cup {ReceiptFile, InventoryFile}
NoReplay == [made |-> FALSE, owner |-> Nil, damaged |-> FALSE, files |-> [f \in ReplayFiles |-> NoFile]]
NewReplay(p) == [NoReplay EXCEPT !.made = TRUE, !.owner = p]

NoComposed == [made |-> FALSE, owner |-> Nil, zip |-> <<>>, closed |-> FALSE, receipt |-> NoFile]
NewComposed(p) == [NoComposed EXCEPT !.made = TRUE, !.owner = p]

(* _validate_archive after the hash.  A member has a path, the same in one     *)
(* case, and is plain or not (a link, a directory, encrypted).  One below an   *)
(* earlier one is ambiguous; one above an earlier one is let through.          *)
Family(version) == IF version[3] \div 100 = 200 THEN "2.0" ELSE "2.1"
ArchiveValid(a) ==
    LET members == Zipped[a].members
        path(i) == members[i].path
    IN  /\ \A i \in DOMAIN members : members[i].plain /\ path(i)[1] = Zipped[Expected].root
        /\ \A i, j \in DOMAIN members : i # j => members[i].folded # members[j].folded
        /\ \A i, j \in DOMAIN members : j < i => ~IsStrictPrefix(path(j), path(i))
        /\ \E i \in DOMAIN members : Tail(path(i)) = <<"info.json">>
        /\ Zipped[a].info = [name |-> Mir, version |-> Published, factorio |-> Family(Published)]

(* The members in the order they are written, the stages it lacks last.        *)
Relative(a) == [i \in DOMAIN Zipped[a].members |-> Tail(Zipped[a].members[i].path)]
Lacking(a, f) == IF f \in ToSet(Relative(a)) THEN <<>> ELSE <<f>>
CopyOrder(a) == Relative(a) \o Lacking(a, Quiet) \o Lacking(a, Data) \o Lacking(a, Settings)
-----------------------------------------------------------------------------
(* Runs: b, p and c, the captures read; n, the place in an order; outputs, the *)
(* records read or made; handle, the archive opened; given, a review and       *)
(* profiles, or what was hashed.                                               *)
Idle == [pc |-> "idle", b |-> Nil, p |-> Nil, c |-> Nil, n |-> 0, outputs |-> <<>>,
         handle |-> Nil, given |-> <<>>, outcome |-> Nil]

Ended == {"idle", "done", "failed", "crashed"}

At(p, pc) == job[p].pc = pc
Became(p, new) == job' = [job EXCEPT ![p] = new]
Goes(p, pc) == Became(p, [job[p] EXCEPT !.pc = pc])
Ends(p, how) == Became(p, [Idle EXCEPT !.pc = how])
Fails(p) == Ends(p, "failed")

Outside == <<captures, archive, changes>>
Only(others) == UNCHANGED <<Outside, others>>

(* One step of a run that either goes on or raises, and writes nothing.        *)
Try(p, holds, pc) ==
    /\ IF holds THEN Goes(p, pc) ELSE Fails(p)
    /\ Only(<<replay, composed, oracle, raced>>)

Start(p, runs, pc) ==
    /\ p \in runs /\ At(p, "idle")
    /\ Goes(p, pc)
    /\ Only(<<replay, composed, oracle, raced>>)
-----------------------------------------------------------------------------
(* build_replay                                                                *)

StartBuild(p) == Start(p, Builders, "no-mir")

ReadNoMir(p) ==
    LET b == captures["base"]
    IN  /\ At(p, "no-mir")
        /\ IF ReplayReads(Capture[b], FALSE, Nil)
           THEN Became(p, [job[p] EXCEPT !.b = b, !.pc = "published"]) ELSE Fails(p)
        /\ Only(<<replay, composed, oracle, raced>>)

ReadPublished(p) ==
    LET q == captures["published"]
    IN  /\ At(p, "published")
        /\ IF ReplayReads(Capture[q], TRUE, Nil)
           THEN Became(p, [job[p] EXCEPT !.p = q, !.pc = "diff"]) ELSE Fails(p)
        /\ Only(<<replay, composed, oracle, raced>>)

Pairs == Captures \X Captures
DataDiff == [o \in Pairs |-> DiffPrototypes(DataStage(Capture[o[1]].raw), DataStage(Capture[o[2]].raw))]
SettingsDiff == [o \in Pairs |-> DiffPrototypes(Capture[o[1]].settings, Capture[o[2]].settings)]

(* The comparison, the rendering, and the look whether the root is fresh.      *)
Diff(p) ==
    LET b == job[p].b
        q == job[p].p
    IN  At(p, "diff") /\ Try(p, /\ SameInputs(Capture[b], Capture[q])
                                /\ DataDiff[<<b, q>>] # Refused /\ SettingsDiff[<<b, q>>] # Refused
                                /\ ~replay.made, "mkdir")

(* Mutant of MakeReplay: the root is made inside the try, as the composer does.*)
MakeReplayInside(p) ==
    /\ At(p, "mkdir")
    /\ IF replay.made
       THEN Fails(p) /\ replay' = NoReplay
       ELSE Became(p, [job[p] EXCEPT !.pc = "write", !.n = 1]) /\ replay' = NewReplay(p)
    /\ Only(<<composed, oracle, raced>>)

(* Mutant of MakeReplay: a root that is there already will do.                 *)
MakeReplayAnyway(p) ==
    /\ At(p, "mkdir")
    /\ Became(p, [job[p] EXCEPT !.pc = "write", !.n = 1])
    /\ replay' = IF replay.made THEN replay ELSE NewReplay(p)
    /\ Only(<<composed, oracle, raced>>)

MakeReplay(p) ==
    /\ At(p, "mkdir")
    /\ IF replay.made
       THEN Fails(p) /\ UNCHANGED replay
       ELSE Became(p, [job[p] EXCEPT !.pc = "write", !.n = 1]) /\ replay' = NewReplay(p)
    /\ Only(<<composed, oracle, raced>>)

WriteStage(p) ==
    LET f == WriteOrder[job[p].n]
    IN  /\ At(p, "write")
        /\ Became(p, [job[p] EXCEPT !.n = @ + 1,
                        !.pc = IF job[p].n = Len(WriteOrder) THEN "record" ELSE "write"])
        /\ replay' = [replay EXCEPT !.files[f] = Rendered(f, job[p].b, job[p].p)]
        /\ Only(<<composed, oracle, raced>>)

(* The outputs are hashed as they are on disk; one that is gone raises.        *)
Record(p) ==
    LET outputs == [f \in Stages |-> replay.files[f]]
    IN  /\ At(p, "record")
        /\ IF \E f \in Stages : outputs[f] = NoFile
           THEN Fails(p) /\ replay' = NoReplay
           ELSE /\ Became(p, [job[p] EXCEPT !.pc = "inventory", !.outputs = outputs])
                /\ replay' = [replay EXCEPT !.files[ReceiptFile] = ReceiptOf(job[p].b, job[p].p, outputs)]
        /\ Only(<<composed, oracle, raced>>)

WriteInventory(p) ==
    /\ At(p, "inventory")
    /\ Ends(p, "done")
    /\ replay' = [replay EXCEPT !.files[InventoryFile] =
                    InventoryOf(ReceiptOf(job[p].b, job[p].p, job[p].outputs))]
    /\ Only(<<composed, oracle, raced>>)

(* A write that raises: the run takes its root with it.                        *)
WriteFails(p) ==
    /\ job[p].pc \in {"write", "record", "inventory"}
    /\ Fails(p) /\ replay' = NoReplay
    /\ Only(<<composed, oracle, raced>>)

Build(p) ==
    \/ StartBuild(p) \/ ReadNoMir(p) \/ ReadPublished(p) \/ Diff(p) \/ MakeReplay(p)
    \/ WriteStage(p) \/ Record(p) \/ WriteInventory(p) \/ WriteFails(p)
-----------------------------------------------------------------------------
(* compose_replay                                                              *)

StartCompose(p) == Start(p, Composers, "records")

Genuine(content, kind) == content # NoFile /\ content[1] = kind

(* _validate_replay_root, its first half: what the two records say.            *)
ReadRecords(p) ==
    LET receipt   == replay.files[ReceiptFile]
        inventory == replay.files[InventoryFile]
        holds     == /\ Genuine(receipt, "receipt") /\ Genuine(inventory, "inventory")
                     /\ Capture[receipt[3]].mir.version = Published
                     /\ receipt[4] = inventory[2]
    IN  /\ At(p, "records")
        /\ IF holds
           THEN Became(p, [job[p] EXCEPT !.pc = "stages", !.outputs = inventory]) ELSE Fails(p)
        /\ Only(<<replay, composed, oracle, raced>>)

RecordedStage(p, f) == job[p].outputs[2][f]
RecordedReceipt(p) == job[p].outputs[3]
RecordedMir(p) == Capture[RecordedReceipt(p)[3]].mir.hash

(* ... and its second half: the files are what the records say.                *)
VerifyStages(p) ==
    At(p, "stages") /\ Try(p, /\ \A f \in Stages : replay.files[f] = RecordedStage(p, f)
                              /\ replay.files[ReceiptFile] = RecordedReceipt(p), "fresh")

(* _safe_output_root                                                           *)
SafeOutputRoot(p) == At(p, "fresh") /\ Try(p, ~composed.made, "hash")

(* _validate_archive hashes the path, then opens it again.                     *)
HashArchive(p) == At(p, "hash") /\ Try(p, archive = Expected, "open")

OpenArchive(p) ==
    /\ At(p, "open")
    /\ IF ArchiveValid(archive) /\ RecordedMir(p) = Expected
       THEN Became(p, [job[p] EXCEPT !.pc = "make", !.handle = archive]) ELSE Fails(p)
    /\ Only(<<replay, composed, oracle, raced>>)

(* Everything from here on is inside the try: whatever raises, the root goes.  *)
Abandon(p) == Fails(p) /\ composed' = NoComposed

MakeOutput(p) ==
    /\ At(p, "make")
    /\ IF composed.made
       THEN Abandon(p) /\ raced' = TRUE
       ELSE /\ Became(p, [job[p] EXCEPT !.pc = "copy", !.n = 1])
            /\ composed' = NewComposed(p) /\ UNCHANGED raced
    /\ Only(<<replay, oracle>>)

(* Mutant of Copies: the member is not held against the record.                *)
CopiesUnchecked(p, member) ==
    IF member \notin Stages THEN <<job[p].handle, member>>
    ELSE IF replay.files[member] # NoFile THEN replay.files[member] ELSE Refused

(* A member as it is written: a stage as it is on disk now, if that is still   *)
(* what was verified, or the archive's own.                                    *)
Copies(p, member) ==
    IF member \notin Stages THEN <<job[p].handle, member>>
    ELSE IF replay.files[member] = RecordedStage(p, member) THEN replay.files[member]
    ELSE Refused

(* A handle whose root another run has removed is written to in vain.          *)
CopyMember(p) ==
    LET order   == CopyOrder(job[p].handle)
        member  == order[job[p].n]
        content == Copies(p, member)
    IN  /\ At(p, "copy")
        /\ IF content = Refused
           THEN Abandon(p)
           ELSE /\ Became(p, [job[p] EXCEPT !.n = @ + 1,
                                !.pc = IF job[p].n = Len(order) THEN "close" ELSE "copy"])
                /\ composed' = IF composed.owner # p THEN composed
                               ELSE [composed EXCEPT !.zip = Beside([m \in {member} |-> content], @),
                                                     !.closed = job[p].n = Len(order)]
        /\ Only(<<replay, oracle, raced>>)

(* An archive written over in place no longer matches its members' checksums;  *)
(* any write may raise.                                                        *)
CopyFails(p) ==
    /\ job[p].pc \in {"copy", "close", "receipt"}
    /\ Abandon(p)
    /\ Only(<<replay, oracle, raced>>)

(* Output and source are hashed where their paths lead now.                    *)
CloseOutput(p) ==
    /\ At(p, "close")
    /\ IF composed.made
       THEN /\ Became(p, [job[p] EXCEPT !.pc = "receipt", !.given = <<composed.zip, archive>>])
            /\ UNCHANGED composed
       ELSE Abandon(p)
    /\ Only(<<replay, oracle, raced>>)

WriteReceipt(p) ==
    /\ At(p, "receipt")
    /\ IF composed.made
       THEN /\ Ends(p, "done")
            /\ composed' = [composed EXCEPT !.receipt =
                 [zip |-> job[p].given[1], source |-> job[p].given[2], replay |-> job[p].outputs]]
       ELSE Abandon(p)
    /\ Only(<<replay, oracle, raced>>)

Compose(p) ==
    \/ StartCompose(p) \/ ReadRecords(p) \/ VerifyStages(p) \/ SafeOutputRoot(p)
    \/ HashArchive(p) \/ OpenArchive(p) \/ MakeOutput(p) \/ CopyMember(p) \/ CopyFails(p)
    \/ CloseOutput(p) \/ WriteReceipt(p)
-----------------------------------------------------------------------------
(* recover and compare                                                         *)

Oracle == [o \in Pairs |-> RecoverInventory(o[1], Capture[o[1]], Capture[o[2]], Target, Published)]

StartRecover(p) == Start(p, Recoverers, "read-base")

ReadBase(p) ==
    /\ At(p, "read-base")
    /\ Became(p, [job[p] EXCEPT !.pc = "read-published", !.b = captures["base"]])
    /\ Only(<<replay, composed, oracle, raced>>)

ReadOther(p) ==
    /\ At(p, "read-published")
    /\ Became(p, [job[p] EXCEPT !.pc = "recover", !.p = captures["published"]])
    /\ Only(<<replay, composed, oracle, raced>>)

(* The recovery, and _write_new_json's look at the path.                       *)
Recover(p) ==
    At(p, "recover") /\ Try(p, Oracle[<<job[p].b, job[p].p>>] # Refused /\ oracle = NoFile, "save")

Save(p) ==
    /\ At(p, "save")
    /\ Ends(p, "done")
    /\ oracle' = <<job[p].b, job[p].p>>
    /\ Only(<<replay, composed, raced>>)

StartCompare(p) ==
    \E review \in Reviews, profiles \in Profiles :
        /\ p \in Comparers /\ At(p, "idle")
        /\ Became(p, [job[p] EXCEPT !.pc = "read-oracle", !.given = <<review, profiles>>])
        /\ Only(<<replay, composed, oracle, raced>>)

ReadOracle(p) ==
    /\ At(p, "read-oracle")
    /\ IF oracle = NoFile THEN Fails(p)
       ELSE Became(p, [job[p] EXCEPT !.pc = "read-baseline", !.outputs = oracle])
    /\ Only(<<replay, composed, oracle, raced>>)

ReadBaseline(p) ==
    /\ At(p, "read-baseline")
    /\ Became(p, [job[p] EXCEPT !.pc = "read-candidate", !.b = captures["base"]])
    /\ Only(<<replay, composed, oracle, raced>>)

ReadCandidate(p) ==
    /\ At(p, "read-candidate")
    /\ Became(p, [job[p] EXCEPT !.pc = "judge", !.c = captures["candidate"]])
    /\ Only(<<replay, composed, oracle, raced>>)

Judge(p) ==
    LET j       == job[p]
        outcome == CompareCandidate(Oracle[j.outputs], j.b, Capture[j.b],
                                    Capture[j.c], j.given[1], j.given[2])
    IN  /\ At(p, "judge")
        /\ IF outcome = Refused THEN Fails(p)
           ELSE Became(p, [j EXCEPT !.pc = "done", !.outcome = outcome])
        /\ Only(<<replay, composed, oracle, raced>>)

Catalogued(p) ==
    \/ StartRecover(p) \/ ReadBase(p) \/ ReadOther(p) \/ Recover(p) \/ Save(p)
    \/ StartCompare(p) \/ ReadOracle(p) \/ ReadBaseline(p) \/ ReadCandidate(p) \/ Judge(p)
-----------------------------------------------------------------------------
(* The world                                                                   *)

Runs == Builders \cup Composers \cup Recoverers \cup Comparers

(* A run that is stopped leaves what it has written, the file it was at cut    *)
(* short.                                                                      *)
Crash(p) ==
    LET at == IF job[p].pc = "write" THEN WriteOrder[job[p].n]
              ELSE IF job[p].pc = "record" THEN ReceiptFile ELSE InventoryFile
    IN  /\ job[p].pc \notin Ended
        /\ Ends(p, "crashed")
        /\ replay' = IF job[p].pc \in {"write", "record", "inventory"}
                     THEN [replay EXCEPT !.files[at] = Partial] ELSE replay
        /\ Only(<<composed, oracle, raced>>)

Changed == changes < MaxChanges /\ changes' = changes + 1

Recapture ==
    /\ Changed
    /\ \E r \in DOMAIN Roots : \E c \in Roots[r] :
          c # captures[r] /\ captures' = [captures EXCEPT ![r] = c]
    /\ UNCHANGED <<archive, replay, composed, oracle, job, raced>>

ReplaceArchive ==
    /\ Changed
    /\ archive' \in Archives \ {archive}
    /\ UNCHANGED <<captures, replay, composed, oracle, job, raced>>

(* A file of the replay is spoilt or lost, perhaps before it is finished.      *)
Damage ==
    /\ Changed
    /\ \E f \in ReplayFiles, content \in {Junk, NoFile} :
          /\ replay.files[f] \notin {NoFile, content}
          /\ replay' = [replay EXCEPT !.files[f] = content,
                                      !.damaged = @ \/ replay.files[InventoryFile] = NoFile]
    /\ UNCHANGED <<captures, archive, composed, oracle, job, raced>>

World == Recapture \/ ReplaceArchive \/ Damage
-----------------------------------------------------------------------------
Init ==
    /\ captures \in {f \in [DOMAIN Roots -> Captures] : \A r \in DOMAIN Roots : f[r] \in Roots[r]}
    /\ archive = Expected
    /\ replay = NoReplay /\ composed = NoComposed /\ oracle = NoFile
    /\ job = [p \in Runs |-> Idle]
    /\ changes = 0 /\ raced = FALSE

Step(p) == Build(p) \/ Compose(p) \/ Catalogued(p) \/ Crash(p)

Next == World \/ \E p \in Runs : Step(p)

Spec == Init /\ [][Next]_vars
-----------------------------------------------------------------------------
(* Properties                                                                  *)

(* A composition with a receipt is whole, and the receipt is true of it: it    *)
(* holds the stages the replay recorded, and nothing but the expected archive  *)
(* beside them unless the receipt names another source.  Stages and archive    *)
(* change while it is made (compose_replay).  Once two runs have raced for the *)
(* root this no longer holds: the loser removes the winner's files.            *)
ComposedExactly ==
    LET receipt == composed.receipt
        stages  == receipt.replay[2]
    IN  composed.receipt # NoFile /\ ~raced =>
        /\ composed.closed /\ receipt.zip = composed.zip
        /\ \A f \in Stages : composed.zip[f] = stages[f]
        /\ receipt.source = Expected =>
              /\ DOMAIN composed.zip = Stages \cup ToSet(Relative(Expected))
              /\ \A m \in DOMAIN composed.zip \ Stages : composed.zip[m] = <<Expected, m>>

(* No archive comes back to a path it was taken from: between one hash of the  *)
(* path and the next, compose_replay could not tell.                           *)
NotPutBack == [][archive # Expected => UNCHANGED archive]_vars

(* The capture the game would make of p's mods with the replay in MIR's place. *)
Rerun(b, p) ==
    [Capture[p] EXCEPT !.raw = Beside(Executed(DataStage(Capture[b].raw), DataDiff[<<b, p>>]), @),
                       !.settings = Executed(Capture[b].settings, SettingsDiff[<<b, p>>])]

(* The values that are compared, and what the proofs take as given of them.    *)
Rows == UNION {{Row(Capture[c].raw, key) : key \in Keys(Capture[c].raw)}
                 \cup {Row(Capture[c].settings, key) : key \in Keys(Capture[c].settings)} : c \in Captures}
Patched(before, after) == ApplyChanges(before, Changes(before, after, <<>>))
Values == Rows \cup {Patched(x, y) : x, y \in Rows} \cup {Stripped(x) : x \in Rows}
            \cup ((UNION {{review[i].value : i \in DOMAIN review} : review \in Reviews}) \ {Nothing})

ASSUME ValuesAssumption ==
    /\ \A x \in Rows : x = Map([k \in DOMAIN Fields(x) |-> Fields(x)[k]])
    /\ Nothing \notin Values
    /\ \A x \in Values : Same(x, x)
    /\ \A x, y \in Values : Same(x, y) => Same(y, x) /\ Lua(x) = Lua(y)
    /\ \A x, y \in Rows : Changes(x, y, <<>>) = {} => Same(x, y)
    /\ \A x, y \in Rows : Same(Patched(x, y), y)

Restores == [o \in Pairs |->
    IF DataDiff[o] = Refused \/ SettingsDiff[o] = Refused THEN TRUE
    ELSE LET b     == o[1]
             p     == o[2]
             rerun == Rerun(b, p)
             hash  == Capture[p].mir.hash
         IN  /\ SameDump(rerun.raw, Capture[p].raw)
             /\ SameDump(rerun.settings, Capture[p].settings)
             /\ Capture[b].completed =>
                  CompareCaptures(Capture[p], rerun, <<hash, hash>>) = [data |-> {}, settings |-> {}]]

(* A finished replay nobody tampered with while it was built has both stages   *)
(* of one pair of captures, and run over what the game had without MIR they    *)
(* make what the published MIR made, value for value and by the tool that      *)
(* compares captures (_same_json_value, _changed_fields, _render_stage).       *)
Restored ==
    LET receipt == replay.files[ReceiptFile]
        b == receipt[2]
        p == receipt[3]
    IN  /\ Genuine(receipt, "receipt") /\ Genuine(replay.files[InventoryFile], "inventory")
        /\ ~replay.damaged
        => /\ receipt[4] = [f \in Stages |-> Rendered(f, b, p)]
           /\ Restores[<<b, p>>]

(* A builder leaves a root another run made alone, finished or not: it writes  *)
(* nothing there and removes nothing (build_replay).                           *)
OthersKept ==
    [][\A p \in Builders :
         job[p]' # job[p] /\ replay.made /\ replay.owner # p => replay' = replay]_vars

(* What a candidate is to have of a prototype, read off the published capture  *)
(* itself: what a reviewer put in its place, or what was published less what   *)
(* was retired.                                                                *)
Wanted(b, p, review, domain, key) ==
    LET dump(c)  == IF domain = "data" THEN c.raw ELSE c.settings
        reviewed == {i \in DOMAIN review : review[i].domain = domain /\ review[i].key = key}
        new      == key \notin Keys(dump(b))
        row      == Row(dump(p), key)
    IN  IF reviewed # {} THEN review[CHOOSE i \in reviewed : TRUE].value
        ELSE IF key \notin Keys(dump(p)) \/ (new /\ domain = "data" /\ Private(key)) THEN Nothing
        ELSE IF new /\ domain = "settings" THEN Stripped(row) ELSE row

(* A verdict names exactly the prototypes in which the candidate differs from  *)
(* that, whatever was captured again since the oracle was recovered            *)
(* (recover_profile, _overlay_domain, _apply_reviewed, _difference_summary).   *)
VerdictExact ==
    \A k \in Comparers : job[k].pc = "done" =>
        LET b == Capture[job[k].b]
            p == Capture[job[k].outputs[2]]
            c == Capture[job[k].c]
            review == job[k].given[1]
            exact(domain, found, had, was, is) ==
                \A key \in Keys(had) \cup Keys(was) \cup Keys(is) \cup {review[i].key : i \in DOMAIN review} :
                    LET wanted == Wanted(b, p, review, domain, key)
                        actual == IF key \in Keys(is) THEN Row(is, key) ELSE Nothing
                    IN  IF key \in found THEN wanted # actual ELSE Lua(wanted) = Lua(actual)
        IN  /\ exact("data", job[k].outcome.data, b.raw, p.raw, c.raw)
            /\ exact("settings", job[k].outcome.settings, b.settings, p.settings, c.settings)

(* What is compared, or restored, ran in the same game: the engine, the other  *)
(* mods and the order they loaded in agree between a candidate and the         *)
(* published capture its oracle comes from, and between the captures of a      *)
(* composed replay, whose archive is the one the published capture ran.        *)
LikeWithLike ==
    LET alike(c, d) == /\ c.engine = d.engine /\ WithoutMir(c.loaded) = WithoutMir(d.loaded)
                       /\ ToSet(WithoutMir(c.selected)) = ToSet(WithoutMir(d.selected))
                       /\ c.completed /\ d.completed
    IN  /\ \A k \in Comparers :
              job[k].pc = "done" => alike(Capture[job[k].outputs[2]], Capture[job[k].c])
        /\ composed.receipt # NoFile =>
              LET pair == composed.receipt.replay[3]
              IN  alike(Capture[pair[2]], Capture[pair[3]]) /\ Capture[pair[3]].mir.hash = Expected
=============================================================================
