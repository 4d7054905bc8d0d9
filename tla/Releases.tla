------------------------------- MODULE Releases -------------------------------
(* tools/release.py: freezing a release and verifying it, by processes that    *)
(* share one repository, one pair of tool files and one output directory, while *)
(* commits, edits, damage to the output and crashes come in between.           *)
EXTENDS Packaging, Functions

CONSTANTS
    Processes,      \* runs of the tool
    Sources,        \* names of committed player sources
    Player,         \* Player[s], the tree, the info.json and the base of s
    Records, EarlyRecords,          \* names of edition records
    Editions,       \* Editions[r], the targets of r
    Edits,          \* trees and metadata a source may be edited to
    RetainedOrder, EarlyOrder,      \* the order the cohorts are built in
    Tools,          \* versions of release.py and package.py
    MaxCommits, MaxTampers, Nil

ASSUME OrdersAssumption ==
    /\ RetainedOrder \in Seq(Retained) /\ IsInjective(RetainedOrder)
    /\ EarlyOrder \in Seq(Early) /\ IsInjective(EarlyOrder)
    /\ ToSet(RetainedOrder) = Retained /\ ToSet(EarlyOrder) = Early
    /\ Retained \cap Early = {}
ASSUME TargetsAssumption == Retained \cup Early \subseteq Nat
ASSUME PlayerAssumption ==
    \A s \in {Player[x] : x \in Sources} \cup Edits :
        Ordinary(s.tree) /\ "version" \in DOMAIN s.info /\ s.info.version.encoded \in Nat
ASSUME MaxCommitsAssumption == MaxCommits \in Nat \ {0}
ASSUME MaxTampersAssumption == MaxTampers \in Nat
ASSUME NilAssumption == Nil \notin Tools \cup 1..MaxCommits

VARIABLES
    commits,    \* the repository: per commit its source and its records
    work,       \* the records as the worktree has them, Nil for no file
    disk,       \* the version of the tool files on disk
    made,       \* the output directory exists
    out,        \* out[f], the bytes of each of its files, or NoFile
    job,        \* job[p], where p's run stands
    tampers,    \* how often the output was damaged from outside
    since       \* since[p], tampers when p read the inventory

rvars == <<commits, work, disk, made, out, job, tampers, since>>
-----------------------------------------------------------------------------
(* The output                                                                  *)

Archive(t) == <<"archive", t>>
Sums == <<"sums">>
EarlySums == <<"earlySums">>
Inventory == <<"inventory">>
Extra == <<"extra">>
Names == {Archive(t) : t \in Retained \cup Early} \cup {Sums, EarlySums, Inventory, Extra}

NoFile == <<>>
Partial == <<"partial">>        \* opened, not yet closed
Junk == <<"junk">>              \* damaged

Archives(order) == [i \in DOMAIN order |-> Archive(order[i])]

(* The order freeze writes in and the order verify compares in.                *)
WriteOrder(early) ==
    Archives(RetainedOrder) \o <<Sums>>
        \o (IF early THEN Archives(EarlyOrder) \o <<EarlySums>> ELSE <<>>) \o <<Inventory>>

(* Mutant of CheckOrder: the early cohort is not compared.                     *)
RetainedOnly(early) == Archives(RetainedOrder) \o <<Sums>>

CheckOrder(early) ==
    Archives(RetainedOrder)
        \o (IF early THEN Archives(EarlyOrder) \o <<EarlySums>> ELSE <<>>) \o <<Sums>>

EarlyFile(f) == f = EarlySums \/ \E t \in Early : f = Archive(t)

(* The bytes of an archive, or the digests of a cohort, as one version of the  *)
(* tool makes them of one commit.                                              *)
RecordOf(f, c) == IF EarlyFile(f) THEN commits[c].early ELSE commits[c].record
Bytes(f, c, tool) == <<f, commits[c].source, RecordOf(f, c), tool>>
InventoryOf(c, early, controller, tool) == <<Inventory, c, early, controller, tool>>
-----------------------------------------------------------------------------
(* What the repository says                                                    *)

Tip == commits[Len(commits)]

(* A record is read only while the worktree has its file, and as HEAD has it:  *)
(* git status compares with HEAD, whatever commit is frozen.                   *)
Clean == work.record # Nil /\ work.record = Tip.record
CleanEarly == work.early # Nil /\ work.early = Tip.early

(* _release_identity and _version: the archive name's version, made apart from *)
(* the packager's.                                                             *)
Canonical(v) == Codec(v) /\ v.major = 5 /\ CodeOf(v) = 210
ReleaseVersion(t, v) == Version(5, v.minor, t * 100 + (v.encoded % 100), 5)

(* _source_identity: canonical F210 metadata, a changelog under its heading,   *)
(* and platform/target.lua naming the same version.                            *)
SourceValid(s) ==
    LET files == Read(Player[s].tree, FALSE)
        info  == Player[s].info
    IN  /\ files # Refused /\ info.name = "mir" /\ info.factorio = <<2, 1>>
        /\ Canonical(info.version)
        /\ Changelog \in DOMAIN files
        /\ files[Changelog].text = <<"heading", Unified(info.version)>>
        /\ RenderLocalMirTargetVersion(files, info.version, info.version, "mir") # Refused

(* _target_identity and _validate_source_minimum_base                          *)
RecordValid(r) ==
    r # Nil /\ DOMAIN Editions[r] = Retained /\ \A t \in Retained : Editions[r][t].available

(* _early_target_identity                                                      *)
EarlyRecordValid(r) ==
    r # Nil /\ DOMAIN Editions[r] = Early /\ \A t \in Early : Editions[r][t].available

Built == [s \in Sources |-> [r \in Records \cup EarlyRecords |-> [t \in Retained \cup Early |->
            Members(Player[s].tree, Player[s].info, t, Editions[r])]]]

(* package.build of one file of the plan; only archives are built.             *)
Builds(f, c) ==
    \A t \in Retained \cup Early :
        f = Archive(t) => Built[commits[c].source][RecordOf(f, c)][t] # Refused

CleanFor(f) ==
    \A t \in Retained \cup Early : f = Archive(t) => IF t \in Early THEN CleanEarly ELSE Clean

(* Mutant of IdentifiesTargets: the worktree's record is compared with the     *)
(* frozen commit instead of HEAD.                                              *)
AgainstFrozen(c) ==
    /\ work.record # Nil /\ work.record = commits[c].record
    /\ RecordValid(commits[c].record)
    /\ Player[commits[c].source].info.base = Editions[commits[c].record][210].base

IdentifiesTargets(c) ==
    /\ Clean /\ RecordValid(commits[c].record)
    /\ Player[commits[c].source].info.base = Editions[commits[c].record][210].base

IdentifiesEarly(c) == CleanEarly /\ EarlyRecordValid(commits[c].early)

(* _preflight_early_cohort                                                     *)
Preflights(c) == \A t \in Early : Builds(Archive(t), c)
-----------------------------------------------------------------------------
(* A run of the tool                                                           *)

Freezing == {"source", "targets", "early", "output", "open", "write"}
Verifying == {"read", "resolve", "list", "check", "compare"}
Ended == {"idle", "accepted", "failed", "crashed"}

(* tool: the code the run loaded; n: its place in the order it goes through;   *)
(* inv: the inventory a verification read.                                     *)
Idle == [pc |-> "idle", tool |-> Nil, commit |-> 0, early |-> FALSE,
         controller |-> Nil, n |-> 0, inv |-> NoFile]

Working(p) == job[p].pc \notin Ended

Place(p) == WriteOrder(job[p].early)[job[p].n]
Due(p) == CheckOrder(job[p].early)[job[p].n]
Step(p, pc) == job' = [job EXCEPT ![p].pc = pc]
End(p, pc) == job' = [job EXCEPT ![p] = [Idle EXCEPT !.pc = pc]]

(* freeze, main                                                                *)
StartFreeze(p, c, early) ==
    /\ ~Working(p)
    /\ job' = [job EXCEPT ![p] = [Idle EXCEPT !.pc = "source", !.tool = disk,
                                             !.commit = c, !.early = early]]
    /\ UNCHANGED <<commits, work, disk, made, out, tampers, since>>

(* verify, main; the early record is named when it must be part of it.         *)
StartVerify(p, early) ==
    /\ ~Working(p)
    /\ job' = [job EXCEPT ![p] = [Idle EXCEPT !.pc = "read", !.tool = disk, !.early = early]]
    /\ UNCHANGED <<commits, work, disk, made, out, tampers, since>>

(* The inventory a verification takes: canonical, of the controller on disk,   *)
(* and with the early cohort when one is asked for.                            *)
Readable(p) ==
    /\ out[Inventory] \notin {NoFile, Partial, Junk}
    /\ out[Inventory][4] = disk
    /\ job[p].early => out[Inventory][3]

(* Whether the step p stands before goes on, or raises.                        *)
Allowed(p) ==
    LET j == job[p]
    IN  /\ j.pc \in {"source", "resolve"} => SourceValid(commits[j.commit].source)
        /\ j.pc \in {"targets", "resolve"} => IdentifiesTargets(j.commit)
        /\ j.pc \in {"early", "resolve"} /\ j.early => IdentifiesEarly(j.commit)
        /\ j.pc = "early" /\ j.early => Preflights(j.commit)
        /\ j.pc = "output" => ~made
        /\ j.pc = "open" => /\ CleanFor(Place(p)) /\ Builds(Place(p), j.commit)
                            /\ Place(p)[1] = "archive" => out[Place(p)] = NoFile
        /\ j.pc = "read" => Readable(p)
        /\ j.pc = "list" => {f \in Names : out[f] # NoFile} = ToSet(WriteOrder(j.early))
        /\ j.pc = "check" => /\ CleanFor(Due(p)) /\ Builds(Due(p), j.commit)
                             /\ out[Due(p)] = Bytes(Due(p), j.commit, j.tool)
        /\ j.pc = "compare" => j.inv = InventoryOf(j.commit, j.early, j.inv[4], j.tool)

(* The identities are taken one after the other.                               *)
IdentifySource(p) ==
    /\ job[p].pc = "source" /\ Allowed(p) /\ Step(p, "targets")
    /\ UNCHANGED <<commits, work, disk, made, out, tampers, since>>

IdentifyTargets(p) ==
    /\ job[p].pc = "targets" /\ Allowed(p) /\ Step(p, "early")
    /\ UNCHANGED <<commits, work, disk, made, out, tampers, since>>

IdentifyEarly(p) ==
    /\ job[p].pc = "early" /\ Allowed(p)
    /\ job' = [job EXCEPT ![p].pc = "output", ![p].controller = disk]
    /\ UNCHANGED <<commits, work, disk, made, out, tampers, since>>

(* _new_output                                                                 *)
NewOutput(p) ==
    /\ job[p].pc = "output" /\ Allowed(p) /\ made' = TRUE
    /\ job' = [job EXCEPT ![p].pc = "open", ![p].n = 1]
    /\ UNCHANGED <<commits, work, disk, out, tampers, since>>

(* A file of the plan is created empty, then filled and closed.                *)
OpenFile(p) ==
    /\ job[p].pc = "open" /\ Allowed(p)
    /\ out' = [out EXCEPT ![Place(p)] = Partial] /\ Step(p, "write")
    /\ UNCHANGED <<commits, work, disk, made, tampers, since>>

Contents(p) ==
    IF Place(p) = Inventory
    THEN InventoryOf(job[p].commit, job[p].early, job[p].controller, job[p].tool)
    ELSE Bytes(Place(p), job[p].commit, job[p].tool)

(* After the last one, the inventory, freeze goes on to verify.                *)
CloseFile(p) ==
    /\ job[p].pc = "write"
    /\ out' = [out EXCEPT ![Place(p)] = Contents(p)]
    /\ job' = [job EXCEPT ![p].n = @ + 1,
                          ![p].pc = IF Place(p) = Inventory THEN "read" ELSE "open"]
    /\ UNCHANGED <<commits, work, disk, made, tampers, since>>

(* _read_inventory, and the comparison of the controllers                      *)
ReadInventory(p) ==
    /\ job[p].pc = "read" /\ Allowed(p)
    /\ job' = [job EXCEPT ![p] =
                 [Idle EXCEPT !.pc = "resolve", !.tool = job[p].tool, !.inv = out[Inventory],
                              !.commit = out[Inventory][2], !.early = out[Inventory][3]]]
    /\ since' = [since EXCEPT ![p] = tampers]
    /\ UNCHANGED <<commits, work, disk, made, out, tampers>>

ResolveFrozen(p) ==
    /\ job[p].pc = "resolve" /\ Allowed(p) /\ Step(p, "list")
    /\ UNCHANGED <<commits, work, disk, made, out, tampers, since>>

ListFiles(p) ==
    /\ job[p].pc = "list" /\ Allowed(p)
    /\ job' = [job EXCEPT ![p].pc = "check", ![p].n = 1]
    /\ UNCHANGED <<commits, work, disk, made, out, tampers, since>>

(* Mutant of Compare: it does not stop at the checksums.                       *)
CompareOn(p) ==
    /\ job[p].pc = "check" /\ Allowed(p)
    /\ job' = [job EXCEPT ![p].n = @ + 1]
    /\ UNCHANGED <<commits, work, disk, made, out, tampers, since>>

(* One file of the output against its rebuilt twin                             *)
Compare(p) ==
    /\ job[p].pc = "check" /\ Allowed(p)
    /\ job' = [job EXCEPT ![p].n = @ + 1,
                          ![p].pc = IF Due(p) = Sums THEN "compare" ELSE "check"]
    /\ UNCHANGED <<commits, work, disk, made, out, tampers, since>>

Accept(p) ==
    /\ job[p].pc = "compare" /\ Allowed(p)
    /\ job' = [job EXCEPT ![p] = [Idle EXCEPT !.pc = "accepted", !.commit = job[p].commit]]
    /\ UNCHANGED <<commits, work, disk, made, out, tampers, since>>

(* An exception leaves the output as it is.                                    *)
Refuse(p) ==
    /\ Working(p) /\ ~Allowed(p) /\ End(p, "failed")
    /\ UNCHANGED <<commits, work, disk, made, out, tampers, since>>

Crash(p) ==
    /\ Working(p) /\ End(p, "crashed")
    /\ UNCHANGED <<commits, work, disk, made, out, tampers, since>>
-----------------------------------------------------------------------------
(* Everybody else                                                              *)

(* A commit of a source, with the record as it was or as the worktree has it.  *)
Commit(s) ==
    /\ Len(commits) < MaxCommits
    /\ \E r \in {Tip.record, work.record}, e \in {Tip.early, work.early} :
          commits' = Append(commits, [source |-> s, record |-> r, early |-> e])
    /\ UNCHANGED <<work, disk, made, out, job, tampers, since>>

(* A record is rewritten, or deleted.                                          *)
EditRecord(r, e) ==
    /\ work' = [record |-> r, early |-> e]
    /\ UNCHANGED <<commits, disk, made, out, job, tampers, since>>

EditTool(tool) ==
    /\ disk' = tool
    /\ UNCHANGED <<commits, work, made, out, job, tampers, since>>

(* A finished file is damaged or lost, or a stranger appears beside it.        *)
Tamper ==
    /\ made /\ tampers < MaxTampers /\ tampers' = tampers + 1
    /\ \/ \E f \in Names \ {Extra} : out[f] \notin {NoFile, Partial}
                           /\ \E x \in {NoFile, Junk} : out' = [out EXCEPT ![f] = x]
       \/ out' = [out EXCEPT ![Extra] = Junk]
    /\ UNCHANGED <<commits, work, disk, made, job, since>>

Init ==
    /\ \E s \in Sources, r \in Records, e \in EarlyRecords \cup {Nil} :
          /\ commits = <<[source |-> s, record |-> r, early |-> e]>>
          /\ work = [record |-> r, early |-> e]
    /\ disk \in Tools
    /\ made = FALSE
    /\ out = [f \in Names |-> NoFile]
    /\ job = [p \in Processes |-> Idle]
    /\ tampers = 0
    /\ since = [p \in Processes |-> 0]

Run(p) ==
    \/ \E c \in DOMAIN commits, early \in BOOLEAN : StartFreeze(p, c, early)
    \/ \E early \in BOOLEAN : StartVerify(p, early)
    \/ IdentifySource(p) \/ IdentifyTargets(p) \/ IdentifyEarly(p) \/ NewOutput(p)
    \/ OpenFile(p) \/ CloseFile(p)
    \/ ReadInventory(p) \/ ResolveFrozen(p) \/ ListFiles(p) \/ Compare(p) \/ Accept(p)
    \/ Refuse(p)

World ==
    \/ \E s \in Sources : Commit(s)
    \/ \E r \in Records \cup {Nil}, e \in EarlyRecords \cup {Nil} : EditRecord(r, e)
    \/ \E tool \in Tools : EditTool(tool)
    \/ Tamper
    \/ \E p \in Processes : Crash(p)

Next == World \/ \E p \in Processes : Run(p)

Spec == Init /\ [][Next]_rvars
-----------------------------------------------------------------------------
(* What a sealed output holds                                                  *)

Expected(f, inv) ==
    IF f = Inventory THEN inv
    ELSE IF f \in ToSet(WriteOrder(inv[3])) THEN Bytes(f, inv[2], inv[5])
    ELSE NoFile

Exact ==
    /\ out[Inventory] \notin {NoFile, Partial, Junk}
    /\ \A f \in Names : out[f] = Expected(f, out[Inventory])

(* The output directory as its custody sees it.                                *)
Box == IF ~made THEN <<"none", Nil>>
       ELSE IF tampers > 0 THEN <<"spoiled", Nil>>
       ELSE IF Exact THEN <<"sealed", out[Inventory][2]>>
       ELSE <<"filling", Nil>>

Looking(p) == job[p].pc \in Verifying \ {"read"} /\ since[p] = 0

Custody == INSTANCE Custody WITH
    Commits <- 1..MaxCommits, None <- Nil, box <- Box,
    looking <- [p \in Processes |-> IF Looking(p) THEN job[p].commit ELSE Nil],
    accepted <- [p \in Processes |-> IF job[p].pc = "accepted" THEN job[p].commit ELSE Nil]

(* Freezing and verifying keep custody of the output: one run claims it, the   *)
(* inventory that closes it last finds every other file exact, nothing writes  *)
(* to it again, and a verification accepts only the commit it was sealed for   *)
(* when the verification read the inventory; an interrupted freeze, a missing, *)
(* extra or changed file is never accepted (freeze, verify).                   *)
CustodyKept == Custody!Spec

(* Types, and a place in the order while there is one to write or compare.     *)
ReleasesTypeOK ==
    /\ commits \in Seq([source: Sources, record: Records \cup {Nil}, early: EarlyRecords \cup {Nil}])
    /\ Len(commits) \in 1..MaxCommits
    /\ work \in [record: Records \cup {Nil}, early: EarlyRecords \cup {Nil}]
    /\ disk \in Tools /\ made \in BOOLEAN /\ tampers \in Nat
    /\ since \in [Processes -> Nat]
    /\ DOMAIN out = Names
    /\ \A p \in Processes :
          /\ job[p].pc \in Freezing \cup Verifying \cup Ended
          /\ job[p].pc \in {"open", "write"} => job[p].n \in DOMAIN WriteOrder(job[p].early)
          /\ job[p].pc = "check" => job[p].n \in DOMAIN CheckOrder(job[p].early)
          /\ job[p].pc \in (Freezing \cup Verifying) \ {"read"} => job[p].commit \in DOMAIN commits

(* An untouched sealed output goes on being verified by the controller that    *)
(* made it, whatever was committed since, as long as the worktree has every    *)
(* record the release was frozen by, as HEAD has it, and the tool files are    *)
(* not edited meanwhile (verify).                                              *)
IntactVerifies ==
    \A p \in Processes :
        (/\ job[p].pc \in Verifying /\ Box[1] = "sealed"
         /\ Clean /\ (out[Inventory][3] => CleanEarly)
         /\ \A i \in {4, 5} : out[Inventory][i] = disk
         /\ job[p].tool = disk
         /\ job[p].pc = "read" /\ job[p].early => out[Inventory][3])
            => Allowed(p)

(* What is sealed can be played: every archive of it is a whole package, and   *)
(* all of them state the one release of their source (freeze with package.py). *)
SealedPlayable ==
    Box[1] = "sealed" =>
        LET inv == out[Inventory]
            c   == commits[inv[2]]
        IN  \A t \in Retained \cup (IF inv[3] THEN Early ELSE {}) :
              LET package == Built[c.source][RecordOf(Archive(t), inv[2])][t]
              IN  /\ package # Refused /\ Whole(package, t) /\ SameRelease(package, t)
                  /\ Unified(package.info.version) = Unified(Player[c.source].info.version)

(* Of a source as it may be edited to, by the editions of one record: nothing  *)
(* is refused but what lacks something, and what is packaged is whole for its  *)
(* edition under the name its release is frozen by.                            *)
Made(s, editions) ==
    \A t \in (Retained \cup Early) \cap DOMAIN editions :
        LET files   == Read(s.tree, t \in Early)
            body    == Body(files, s.info, t, editions)
            package == Members(s.tree, s.info, t, editions)
        IN  /\ (/\ files # Refused /\ Offered(files, s.info, t, editions)
                /\ Entries(t) \subseteq DOMAIN body /\ Closed(body, DOMAIN body))
                  => package # Refused
            /\ package # Refused =>
                  /\ files # Refused /\ Offered(files, s.info, t, editions)
                  /\ Whole(package, t) /\ SameRelease(package, t)
                  /\ Canonical(s.info.version)
                       => package.info.version = ReleaseVersion(t, s.info.version)

(* A local build under another version has that version in all its places.     *)
Renamed(s, version) ==
    LET files == Read(s.tree, FALSE)
        local == RenamedMembers(s.tree, s.info, version)
    IN  (/\ files # Refused /\ s.info.name = "mir"
         /\ Presentable(files, s.info) /\ Renderable(files, s.info.version, version))
          => /\ local # Refused /\ SameRelease(local, CodeOf(version))
             /\ local.info.version = version

EditsMade == [r \in Records \cup EarlyRecords |-> \A s \in Edits : Made(s, Editions[r])]
EditsRenamed == \A s \in Edits, version \in {e.info.version : e \in Edits} : Renamed(s, version)

(* By every committed record, whatever a source imports and whatever its       *)
(* version, what is packaged is whole for its edition, refused only where      *)
(* something is missing, and carries in all its places the name that its       *)
(* release is frozen under; so does a local build under another patch          *)
(* (package.py, members, against release.py, _version).                        *)
PackagesRight ==
    \A c \in DOMAIN commits :
        /\ EditsRenamed
        /\ \A r \in {commits[c].record, commits[c].early} \ {Nil} : EditsMade[r]
=============================================================================
