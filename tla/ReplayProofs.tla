----------------------------- MODULE ReplayProofs -----------------------------
(* Proofs about Replays for any captures, archives, reviews and runs: nobody   *)
(* touches another builder's root, only captures of one game are compared or   *)
(* composed, a composition holds what its receipt says, a replay restores what *)
(* was published, and a verdict names exactly what differs.                    *)
EXTENDS Replays, SequenceTheorems, WellFoundedInduction, TLAPS
-----------------------------------------------------------------------------
(* Shapes                                                                      *)

Job(j) ==
    j = [pc |-> j.pc, b |-> j.b, p |-> j.p, c |-> j.c, n |-> j.n, outputs |-> j.outputs,
         handle |-> j.handle, given |-> j.given, outcome |-> j.outcome]
ReplayShape(r) ==
    /\ r = [made |-> r.made, owner |-> r.owner, damaged |-> r.damaged, files |-> r.files]
    /\ r.files = [f \in ReplayFiles |-> r.files[f]]
ComposedShape(c) ==
    c = [made |-> c.made, owner |-> c.owner, zip |-> c.zip, closed |-> c.closed, receipt |-> c.receipt]

Building == {"write", "record", "inventory"}

Shaped ==
    /\ job = [p \in Runs |-> job[p]]
    /\ \A p \in Runs : Job(job[p])
    /\ ReplayShape(replay) /\ ComposedShape(composed)
    /\ captures \in [DOMAIN Roots -> Captures]

(* A run that is at work on a root owns it.                                    *)
Owned ==
    \A p \in Runs : job[p].pc \in Building =>
        replay.made /\ replay.owner = p /\ (job[p].pc = "write" => job[p].n \in 1..3)

(* t is j with another place and, in one field, another value.                 *)
SetTo(t, j, field, pc, x) ==
    /\ Job(t) /\ t.pc = pc /\ t[field] = x
    /\ field # "b" => t.b = j.b
    /\ field # "p" => t.p = j.p
    /\ field # "c" => t.c = j.c
    /\ field # "n" => t.n = j.n
    /\ field # "outputs" => t.outputs = j.outputs
    /\ field # "handle" => t.handle = j.handle
    /\ field # "given" => t.given = j.given
    /\ field # "outcome" => t.outcome = j.outcome

(* A run that reads something, or goes to its next place.                      *)
LEMMA JobSet ==
    ASSUME NEW j, Job(j), NEW pc, NEW x, NEW t
    PROVE  /\ t = [j EXCEPT !.b = x, !.pc = pc] => SetTo(t, j, "b", pc, x)
           /\ t = [j EXCEPT !.p = x, !.pc = pc] => SetTo(t, j, "p", pc, x)
           /\ t = [j EXCEPT !.pc = pc, !.b = x] => SetTo(t, j, "b", pc, x)
           /\ t = [j EXCEPT !.pc = pc, !.p = x] => SetTo(t, j, "p", pc, x)
           /\ t = [j EXCEPT !.pc = pc, !.c = x] => SetTo(t, j, "c", pc, x)
           /\ t = [j EXCEPT !.pc = pc, !.n = x] => SetTo(t, j, "n", pc, x)
           /\ t = [j EXCEPT !.n = x, !.pc = pc] => SetTo(t, j, "n", pc, x)
           /\ t = [j EXCEPT !.pc = pc, !.outputs = x] => SetTo(t, j, "outputs", pc, x)
           /\ t = [j EXCEPT !.pc = pc, !.handle = x] => SetTo(t, j, "handle", pc, x)
           /\ t = [j EXCEPT !.pc = pc, !.given = x] => SetTo(t, j, "given", pc, x)
           /\ t = [j EXCEPT !.pc = pc, !.outcome = x] => SetTo(t, j, "outcome", pc, x)
           /\ t = [j EXCEPT !.pc = pc] => SetTo(t, j, "pc", pc, pc)
  BY DEF Job, SetTo

LEMMA IdleShape ==
    ASSUME NEW how PROVE Job([Idle EXCEPT !.pc = how]) /\ [Idle EXCEPT !.pc = how].pc = how
  BY DEF Job, Idle

(* The runs but p stay where they are; p goes on, or ends.                     *)
Others(p) ==
    /\ job' = [q \in Runs |-> job'[q]]
    /\ \A q \in Runs : q # p => job'[q] = job[q]
To(p, field, pc, x) == Others(p) /\ SetTo(job'[p], job[p], field, pc, x)
Stops(p, how) == Others(p) /\ Job(job'[p]) /\ job'[p].pc = how

LEMMA Becoming ==
    ASSUME Shaped, NEW p \in Runs, NEW new, Became(p, new)
    PROVE  Others(p) /\ job'[p] = new
  BY DEF Shaped, Became, Others

LEMMA Stopping ==
    ASSUME Shaped, NEW p \in Runs
    PROVE  /\ \A how : Ends(p, how) => Stops(p, how)
           /\ Fails(p) => Stops(p, "failed")
<1>1. ASSUME NEW how, Ends(p, how) PROVE Stops(p, how)
  BY <1>1, Becoming, IdleShape DEF Ends, Stops
<1>. QED
  BY <1>1 DEF Fails

LEMMA Going ==
    ASSUME Shaped, NEW p \in Runs, NEW pc, NEW x
    PROVE  /\ Became(p, [job[p] EXCEPT !.b = x, !.pc = pc]) => To(p, "b", pc, x)
           /\ Became(p, [job[p] EXCEPT !.p = x, !.pc = pc]) => To(p, "p", pc, x)
           /\ Became(p, [job[p] EXCEPT !.pc = pc, !.b = x]) => To(p, "b", pc, x)
           /\ Became(p, [job[p] EXCEPT !.pc = pc, !.p = x]) => To(p, "p", pc, x)
           /\ Became(p, [job[p] EXCEPT !.pc = pc, !.c = x]) => To(p, "c", pc, x)
           /\ Became(p, [job[p] EXCEPT !.pc = pc, !.n = x]) => To(p, "n", pc, x)
           /\ Became(p, [job[p] EXCEPT !.n = x, !.pc = pc]) => To(p, "n", pc, x)
           /\ Became(p, [job[p] EXCEPT !.pc = pc, !.outputs = x]) => To(p, "outputs", pc, x)
           /\ Became(p, [job[p] EXCEPT !.pc = pc, !.handle = x]) => To(p, "handle", pc, x)
           /\ Became(p, [job[p] EXCEPT !.pc = pc, !.given = x]) => To(p, "given", pc, x)
           /\ Became(p, [job[p] EXCEPT !.pc = pc, !.outcome = x]) => To(p, "outcome", pc, x)
           /\ Became(p, [job[p] EXCEPT !.pc = pc]) => To(p, "pc", pc, pc)
<1>1. Job(job[p])
  BY DEF Shaped
<1>2. ASSUME Became(p, [job[p] EXCEPT !.b = x, !.pc = pc])
      PROVE  To(p, "b", pc, x)
  <2>1. Others(p) /\ job'[p] = [job[p] EXCEPT !.b = x, !.pc = pc]
    BY <1>2, Becoming
  <2>. QED
    BY <1>1, <2>1, JobSet, Zenon DEF To
<1>3. ASSUME Became(p, [job[p] EXCEPT !.p = x, !.pc = pc])
      PROVE  To(p, "p", pc, x)
  <2>1. Others(p) /\ job'[p] = [job[p] EXCEPT !.p = x, !.pc = pc]
    BY <1>3, Becoming
  <2>. QED
    BY <1>1, <2>1, JobSet, Zenon DEF To
<1>4. ASSUME Became(p, [job[p] EXCEPT !.pc = pc, !.b = x])
      PROVE  To(p, "b", pc, x)
  <2>1. Others(p) /\ job'[p] = [job[p] EXCEPT !.pc = pc, !.b = x]
    BY <1>4, Becoming
  <2>. QED
    BY <1>1, <2>1, JobSet, Zenon DEF To
<1>5. ASSUME Became(p, [job[p] EXCEPT !.pc = pc, !.p = x])
      PROVE  To(p, "p", pc, x)
  <2>1. Others(p) /\ job'[p] = [job[p] EXCEPT !.pc = pc, !.p = x]
    BY <1>5, Becoming
  <2>. QED
    BY <1>1, <2>1, JobSet, Zenon DEF To
<1>6. ASSUME Became(p, [job[p] EXCEPT !.pc = pc, !.c = x])
      PROVE  To(p, "c", pc, x)
  <2>1. Others(p) /\ job'[p] = [job[p] EXCEPT !.pc = pc, !.c = x]
    BY <1>6, Becoming
  <2>. QED
    BY <1>1, <2>1, JobSet, Zenon DEF To
<1>7. ASSUME Became(p, [job[p] EXCEPT !.pc = pc, !.n = x])
      PROVE  To(p, "n", pc, x)
  <2>1. Others(p) /\ job'[p] = [job[p] EXCEPT !.pc = pc, !.n = x]
    BY <1>7, Becoming
  <2>. QED
    BY <1>1, <2>1, JobSet, Zenon DEF To
<1>8. ASSUME Became(p, [job[p] EXCEPT !.n = x, !.pc = pc])
      PROVE  To(p, "n", pc, x)
  <2>1. Others(p) /\ job'[p] = [job[p] EXCEPT !.n = x, !.pc = pc]
    BY <1>8, Becoming
  <2>. QED
    BY <1>1, <2>1, JobSet, Zenon DEF To
<1>9. ASSUME Became(p, [job[p] EXCEPT !.pc = pc, !.outputs = x])
      PROVE  To(p, "outputs", pc, x)
  <2>1. Others(p) /\ job'[p] = [job[p] EXCEPT !.pc = pc, !.outputs = x]
    BY <1>9, Becoming
  <2>. QED
    BY <1>1, <2>1, JobSet, Zenon DEF To
<1>10. ASSUME Became(p, [job[p] EXCEPT !.pc = pc, !.handle = x])
      PROVE  To(p, "handle", pc, x)
  <2>1. Others(p) /\ job'[p] = [job[p] EXCEPT !.pc = pc, !.handle = x]
    BY <1>10, Becoming
  <2>. QED
    BY <1>1, <2>1, JobSet, Zenon DEF To
<1>11. ASSUME Became(p, [job[p] EXCEPT !.pc = pc, !.given = x])
      PROVE  To(p, "given", pc, x)
  <2>1. Others(p) /\ job'[p] = [job[p] EXCEPT !.pc = pc, !.given = x]
    BY <1>11, Becoming
  <2>. QED
    BY <1>1, <2>1, JobSet, Zenon DEF To
<1>12. ASSUME Became(p, [job[p] EXCEPT !.pc = pc, !.outcome = x])
      PROVE  To(p, "outcome", pc, x)
  <2>1. Others(p) /\ job'[p] = [job[p] EXCEPT !.pc = pc, !.outcome = x]
    BY <1>12, Becoming
  <2>. QED
    BY <1>1, <2>1, JobSet, Zenon DEF To
<1>13. ASSUME Became(p, [job[p] EXCEPT !.pc = pc])
      PROVE  To(p, "pc", pc, pc)
  <2>1. Others(p) /\ job'[p] = [job[p] EXCEPT !.pc = pc]
    BY <1>13, Becoming
  <2>. QED
    BY <1>1, <2>1, JobSet, Zenon DEF To
<1>. QED
  BY <1>2, <1>3, <1>4, <1>5, <1>6, <1>7, <1>8, <1>9, <1>10, <1>11, <1>12, <1>13

LEMMA NewShapes ==
    ASSUME NEW p
    PROVE  /\ ReplayShape(NoReplay) /\ ReplayShape(NewReplay(p))
           /\ NewReplay(p).made = TRUE /\ NewReplay(p).owner = p /\ NewReplay(p).damaged = FALSE
           /\ NewReplay(p).files = [f \in ReplayFiles |-> NoFile]
           /\ ComposedShape(NoComposed) /\ ComposedShape(NewComposed(p))
           /\ NewComposed(p).made = TRUE /\ NewComposed(p).owner = p
           /\ NewComposed(p).receipt = NoFile /\ NewComposed(p).zip = <<>>
<1>1. PICK r : r = NoReplay
  OBVIOUS
<1>2. PICK s : s = [r EXCEPT !.made = TRUE, !.owner = p]
  OBVIOUS
<1>3. r = [made |-> FALSE, owner |-> Nil, damaged |-> FALSE, files |-> [f \in ReplayFiles |-> NoFile]]
  BY <1>1, Zenon DEF NoReplay
<1>4. /\ s = [made |-> TRUE, owner |-> p, damaged |-> FALSE, files |-> [f \in ReplayFiles |-> NoFile]]
      /\ ReplayShape(r) /\ ReplayShape(s)
  BY <1>2, <1>3 DEF ReplayShape
<1>5. s = NewReplay(p)
  BY <1>1, <1>2, Zenon DEF NewReplay
<1>6. PICK u : u = NoComposed
  OBVIOUS
<1>7. PICK v : v = [u EXCEPT !.made = TRUE, !.owner = p]
  OBVIOUS
<1>8. u = [made |-> FALSE, owner |-> Nil, zip |-> <<>>, closed |-> FALSE, receipt |-> NoFile]
  BY <1>6, Zenon DEF NoComposed
<1>9. /\ v = [made |-> TRUE, owner |-> p, zip |-> <<>>, closed |-> FALSE, receipt |-> NoFile]
      /\ ComposedShape(u) /\ ComposedShape(v)
  BY <1>7, <1>8 DEF ComposedShape
<1>10. v = NewComposed(p)
  BY <1>6, <1>7, Zenon DEF NewComposed
<1>11. /\ s.made = TRUE /\ s.owner = p /\ s.damaged = FALSE /\ s.files = [f \in ReplayFiles |-> NoFile]
  BY <1>4
<1>12. v.made = TRUE /\ v.owner = p /\ v.receipt = NoFile /\ v.zip = <<>>
  BY <1>9
<1>. QED
  BY <1>1, <1>4, <1>5, <1>6, <1>9, <1>10, <1>11, <1>12, Zenon

LEMMA FileSet ==
    ASSUME NEW r, ReplayShape(r), NEW f, NEW content
    PROVE  /\ ReplayShape([r EXCEPT !.files[f] = content])
           /\ [r EXCEPT !.files[f] = content].made = r.made
           /\ [r EXCEPT !.files[f] = content].owner = r.owner
           /\ [r EXCEPT !.files[f] = content].damaged = r.damaged
           /\ \A g \in ReplayFiles : [r EXCEPT !.files[f] = content].files[g] =
                                       IF g = f THEN content ELSE r.files[g]
  BY DEF ReplayShape

Written(r, f, content) == [r EXCEPT !.files[f] = content]

LEMMA FileWritten ==
    ASSUME NEW r, ReplayShape(r), NEW f, NEW content, NEW s, s = Written(r, f, content)
    PROVE  /\ s.damaged = r.damaged
           /\ \A g \in ReplayFiles : s.files[g] = IF g = f THEN content ELSE r.files[g]
  BY DEF ReplayShape, Written

LEMMA ShapedInit == Init => Shaped /\ Owned
<1>. SUFFICES ASSUME Init PROVE Shaped /\ Owned
  OBVIOUS
<1>1. job = [p \in Runs |-> Idle]
  BY DEF Init
<1>2. Job(Idle) /\ Idle.pc \notin Building
  BY DEF Job, Idle, Building
<1>3. ReplayShape(replay) /\ ComposedShape(composed)
  BY NewShapes, Zenon DEF Init
<1>4. captures \in [DOMAIN Roots -> Captures]
  BY DEF Init
<1>. QED
  BY <1>1, <1>2, <1>3, <1>4 DEF Shaped, Owned

(* What the steps of a run do, by action.                                      *)
Elsewhere == UNCHANGED <<captures, archive, replay, composed, oracle, raced>>

LEMMA Starting ==
    ASSUME Shaped, NEW p \in Runs, NEW runs, NEW pc, Start(p, runs, pc)
    PROVE  p \in runs /\ At(p, "idle") /\ To(p, "pc", pc, pc) /\ Elsewhere
  BY Going, Zenon DEF Start, Goes, Only, Outside, Elsewhere

LEMMA BuildMoves ==
    ASSUME Shaped, NEW p \in Runs
    PROVE  /\ ReadNoMir(p) =>
                 /\ At(p, "no-mir") /\ Elsewhere
                 /\ \/ Stops(p, "failed")
                    \/ /\ ReplayReads(Capture[captures["base"]], FALSE, Nil)
                       /\ To(p, "b", "published", captures["base"])
           /\ ReadPublished(p) =>
                 /\ At(p, "published") /\ Elsewhere
                 /\ \/ Stops(p, "failed")
                    \/ /\ ReplayReads(Capture[captures["published"]], TRUE, Nil)
                       /\ To(p, "p", "diff", captures["published"])
           /\ Diff(p) =>
                 /\ At(p, "diff") /\ Elsewhere
                 /\ \/ Stops(p, "failed")
                    \/ /\ SameInputs(Capture[job[p].b], Capture[job[p].p])
                       /\ DataDiff[<<job[p].b, job[p].p>>] # Refused /\ SettingsDiff[<<job[p].b, job[p].p>>] # Refused
                       /\ To(p, "pc", "mkdir", "mkdir")
           /\ MakeReplay(p) =>
                 /\ At(p, "mkdir") /\ UNCHANGED <<captures, archive, composed, oracle, raced>>
                 /\ \/ Stops(p, "failed") /\ replay' = replay
                    \/ ~replay.made /\ To(p, "n", "write", 1) /\ replay' = NewReplay(p)
           /\ WriteStage(p) =>
                 /\ At(p, "write") /\ UNCHANGED <<captures, archive, composed, oracle, raced>>
                 /\ To(p, "n", IF job[p].n = Len(WriteOrder) THEN "record" ELSE "write", job[p].n + 1)
                 /\ replay' = [replay EXCEPT !.files[WriteOrder[job[p].n]] =
                                  Rendered(WriteOrder[job[p].n], job[p].b, job[p].p)]
           /\ Record(p) =>
                 /\ At(p, "record") /\ UNCHANGED <<captures, archive, composed, oracle, raced>>
                 /\ \/ Stops(p, "failed") /\ replay' = NoReplay
                    \/ /\ To(p, "outputs", "inventory", [f \in Stages |-> replay.files[f]])
                       /\ replay' = [replay EXCEPT !.files[ReceiptFile] =
                                        ReceiptOf(job[p].b, job[p].p, [f \in Stages |-> replay.files[f]])]
           /\ WriteInventory(p) =>
                 /\ At(p, "inventory") /\ UNCHANGED <<captures, archive, composed, oracle, raced>>
                 /\ Stops(p, "done")
                 /\ replay' = [replay EXCEPT !.files[InventoryFile] =
                                  InventoryOf(ReceiptOf(job[p].b, job[p].p, job[p].outputs))]
           /\ WriteFails(p) =>
                 /\ job[p].pc \in Building /\ UNCHANGED <<captures, archive, composed, oracle, raced>>
                 /\ Stops(p, "failed") /\ replay' = NoReplay
<1>1. ASSUME ReadNoMir(p)
      PROVE  /\ At(p, "no-mir") /\ Elsewhere
             /\ \/ Stops(p, "failed")
                \/ /\ ReplayReads(Capture[captures["base"]], FALSE, Nil)
                   /\ To(p, "b", "published", captures["base"])
  BY <1>1, Going, Stopping, Zenon DEF ReadNoMir, Only, Outside, Elsewhere
<1>2. ASSUME ReadPublished(p)
      PROVE  /\ At(p, "published") /\ Elsewhere
             /\ \/ Stops(p, "failed")
                \/ /\ ReplayReads(Capture[captures["published"]], TRUE, Nil)
                   /\ To(p, "p", "diff", captures["published"])
  BY <1>2, Going, Stopping, Zenon DEF ReadPublished, Only, Outside, Elsewhere
<1>3. ASSUME Diff(p)
      PROVE  /\ At(p, "diff") /\ Elsewhere
             /\ \/ Stops(p, "failed")
                \/ /\ SameInputs(Capture[job[p].b], Capture[job[p].p])
                   /\ DataDiff[<<job[p].b, job[p].p>>] # Refused /\ SettingsDiff[<<job[p].b, job[p].p>>] # Refused
                   /\ To(p, "pc", "mkdir", "mkdir")
  BY <1>3, Going, Stopping, Zenon DEF Diff, Try, Goes, Only, Outside, Elsewhere
<1>4. ASSUME MakeReplay(p)
      PROVE  /\ At(p, "mkdir") /\ UNCHANGED <<captures, archive, composed, oracle, raced>>
             /\ \/ Stops(p, "failed") /\ replay' = replay
                \/ ~replay.made /\ To(p, "n", "write", 1) /\ replay' = NewReplay(p)
  BY <1>4, Going, Stopping, Zenon DEF MakeReplay, Only, Outside, Elsewhere
<1>5. ASSUME WriteStage(p)
      PROVE  /\ At(p, "write") /\ UNCHANGED <<captures, archive, composed, oracle, raced>>
             /\ To(p, "n", IF job[p].n = Len(WriteOrder) THEN "record" ELSE "write", job[p].n + 1)
             /\ replay' = [replay EXCEPT !.files[WriteOrder[job[p].n]] =
                              Rendered(WriteOrder[job[p].n], job[p].b, job[p].p)]
  BY <1>5, Going, Stopping, Zenon DEF WriteStage, Only, Outside, Elsewhere
<1>6. ASSUME Record(p)
      PROVE  /\ At(p, "record") /\ UNCHANGED <<captures, archive, composed, oracle, raced>>
             /\ \/ Stops(p, "failed") /\ replay' = NoReplay
                \/ /\ To(p, "outputs", "inventory", [f \in Stages |-> replay.files[f]])
                   /\ replay' = [replay EXCEPT !.files[ReceiptFile] =
                                    ReceiptOf(job[p].b, job[p].p, [f \in Stages |-> replay.files[f]])]
  BY <1>6, Going, Stopping, Zenon DEF Record, Only, Outside, Elsewhere
<1>7. ASSUME WriteInventory(p)
      PROVE  /\ At(p, "inventory") /\ UNCHANGED <<captures, archive, composed, oracle, raced>>
             /\ Stops(p, "done")
             /\ replay' = [replay EXCEPT !.files[InventoryFile] =
                              InventoryOf(ReceiptOf(job[p].b, job[p].p, job[p].outputs))]
  BY <1>7, Going, Stopping, Zenon DEF WriteInventory, Only, Outside, Elsewhere
<1>8. ASSUME WriteFails(p)
      PROVE  /\ job[p].pc \in Building /\ UNCHANGED <<captures, archive, composed, oracle, raced>>
             /\ Stops(p, "failed") /\ replay' = NoReplay
  BY <1>8, Going, Stopping, Zenon DEF WriteFails, Building, Only, Outside, Elsewhere
<1>. QED
  BY <1>1, <1>2, <1>3, <1>4, <1>5, <1>6, <1>7, <1>8, Zenon

LEMMA ComposeMoves ==
    ASSUME Shaped, NEW p \in Runs
    PROVE  /\ ReadRecords(p) =>
                 /\ At(p, "records") /\ Elsewhere
                 /\ \/ Stops(p, "failed")
                    \/ /\ Genuine(replay.files[ReceiptFile], "receipt") /\ Genuine(replay.files[InventoryFile], "inventory")
                       /\ replay.files[ReceiptFile][4] = replay.files[InventoryFile][2]
                       /\ To(p, "outputs", "stages", replay.files[InventoryFile])
           /\ VerifyStages(p) =>
                 /\ At(p, "stages") /\ Elsewhere
                 /\ Stops(p, "failed") \/ To(p, "pc", "fresh", "fresh")
           /\ SafeOutputRoot(p) =>
                 /\ At(p, "fresh") /\ Elsewhere
                 /\ Stops(p, "failed") \/ To(p, "pc", "hash", "hash")
           /\ HashArchive(p) =>
                 /\ At(p, "hash") /\ Elsewhere
                 /\ Stops(p, "failed") \/ (archive = Expected /\ To(p, "pc", "open", "open"))
           /\ OpenArchive(p) =>
                 /\ At(p, "open") /\ Elsewhere
                 /\ \/ Stops(p, "failed")
                    \/ RecordedMir(p) = Expected /\ To(p, "handle", "make", archive)
           /\ MakeOutput(p) =>
                 /\ At(p, "make") /\ UNCHANGED <<captures, archive, replay, oracle>>
                 /\ \/ Stops(p, "failed") /\ composed' = NoComposed /\ raced' = TRUE
                    \/ ~composed.made /\ To(p, "n", "copy", 1) /\ composed' = NewComposed(p) /\ raced' = raced
           /\ CopyMember(p) =>
                 LET order   == CopyOrder(job[p].handle)
                     member  == order[job[p].n]
                     content == Copies(p, member)
                 IN  /\ At(p, "copy") /\ UNCHANGED <<captures, archive, replay, oracle, raced>>
                     /\ \/ Stops(p, "failed") /\ composed' = NoComposed
                        \/ /\ content # Refused
                           /\ To(p, "n", IF job[p].n = Len(order) THEN "close" ELSE "copy", job[p].n + 1)
                           /\ composed' = IF composed.owner # p THEN composed
                                          ELSE [composed EXCEPT !.zip = Beside([m \in {member} |-> content], @),
                                                                !.closed = job[p].n = Len(order)]
           /\ CopyFails(p) =>
                 /\ job[p].pc \in {"copy", "close", "receipt"} /\ UNCHANGED <<captures, archive, replay, oracle, raced>>
                 /\ Stops(p, "failed") /\ composed' = NoComposed
           /\ CloseOutput(p) =>
                 /\ At(p, "close") /\ UNCHANGED <<captures, archive, replay, oracle, raced>>
                 /\ \/ Stops(p, "failed") /\ composed' = NoComposed
                    \/ composed' = composed /\ To(p, "given", "receipt", <<composed.zip, archive>>)
           /\ WriteReceipt(p) =>
                 /\ At(p, "receipt") /\ UNCHANGED <<captures, archive, replay, oracle, raced>>
                 /\ \/ Stops(p, "failed") /\ composed' = NoComposed
                    \/ /\ Stops(p, "done")
                       /\ composed' = [composed EXCEPT !.receipt =
                             [zip |-> job[p].given[1], source |-> job[p].given[2], replay |-> job[p].outputs]]
<1>1. ASSUME ReadRecords(p)
      PROVE  /\ At(p, "records") /\ Elsewhere
             /\ \/ Stops(p, "failed")
                \/ /\ Genuine(replay.files[ReceiptFile], "receipt") /\ Genuine(replay.files[InventoryFile], "inventory")
                   /\ replay.files[ReceiptFile][4] = replay.files[InventoryFile][2]
                   /\ To(p, "outputs", "stages", replay.files[InventoryFile])
  BY <1>1, Going, Stopping, Zenon DEF ReadRecords, Only, Outside, Elsewhere
<1>2. ASSUME VerifyStages(p)
      PROVE  /\ At(p, "stages") /\ Elsewhere
             /\ Stops(p, "failed") \/ To(p, "pc", "fresh", "fresh")
  BY <1>2, Going, Stopping, Zenon DEF VerifyStages, Try, Goes, Only, Outside, Elsewhere
<1>3. ASSUME SafeOutputRoot(p)
      PROVE  /\ At(p, "fresh") /\ Elsewhere
             /\ Stops(p, "failed") \/ To(p, "pc", "hash", "hash")
  BY <1>3, Going, Stopping, Zenon DEF SafeOutputRoot, Try, Goes, Only, Outside, Elsewhere
<1>4. ASSUME HashArchive(p)
      PROVE  /\ At(p, "hash") /\ Elsewhere
             /\ Stops(p, "failed") \/ (archive = Expected /\ To(p, "pc", "open", "open"))
  BY <1>4, Going, Stopping, Zenon DEF HashArchive, Try, Goes, Only, Outside, Elsewhere
<1>5. ASSUME OpenArchive(p)
      PROVE  /\ At(p, "open") /\ Elsewhere
             /\ \/ Stops(p, "failed")
                \/ RecordedMir(p) = Expected /\ To(p, "handle", "make", archive)
  BY <1>5, Going, Stopping, Zenon DEF OpenArchive, Only, Outside, Elsewhere
<1>6. ASSUME MakeOutput(p)
      PROVE  /\ At(p, "make") /\ UNCHANGED <<captures, archive, replay, oracle>>
             /\ \/ Stops(p, "failed") /\ composed' = NoComposed /\ raced' = TRUE
                \/ ~composed.made /\ To(p, "n", "copy", 1) /\ composed' = NewComposed(p) /\ raced' = raced
  BY <1>6, Going, Stopping, Zenon DEF MakeOutput, Abandon, Only, Outside, Elsewhere
<1>7. ASSUME CopyMember(p)
      PROVE  LET order   == CopyOrder(job[p].handle)
                 member  == order[job[p].n]
                 content == Copies(p, member)
             IN  /\ At(p, "copy") /\ UNCHANGED <<captures, archive, replay, oracle, raced>>
                 /\ \/ Stops(p, "failed") /\ composed' = NoComposed
                    \/ /\ content # Refused
                       /\ To(p, "n", IF job[p].n = Len(order) THEN "close" ELSE "copy", job[p].n + 1)
                       /\ composed' = IF composed.owner # p THEN composed
                                      ELSE [composed EXCEPT !.zip = Beside([m \in {member} |-> content], @),
                                                            !.closed = job[p].n = Len(order)]
  BY <1>7, Going, Stopping, Zenon DEF CopyMember, Abandon, Only, Outside, Elsewhere
<1>8. ASSUME CopyFails(p)
      PROVE  /\ job[p].pc \in {"copy", "close", "receipt"} /\ UNCHANGED <<captures, archive, replay, oracle, raced>>
             /\ Stops(p, "failed") /\ composed' = NoComposed
  BY <1>8, Going, Stopping, Zenon DEF CopyFails, Abandon, Only, Outside, Elsewhere
<1>9. ASSUME CloseOutput(p)
      PROVE  /\ At(p, "close") /\ UNCHANGED <<captures, archive, replay, oracle, raced>>
             /\ \/ Stops(p, "failed") /\ composed' = NoComposed
                \/ composed' = composed /\ To(p, "given", "receipt", <<composed.zip, archive>>)
  BY <1>9, Going, Stopping, Zenon DEF CloseOutput, Abandon, Only, Outside, Elsewhere
<1>10. ASSUME WriteReceipt(p)
      PROVE  /\ At(p, "receipt") /\ UNCHANGED <<captures, archive, replay, oracle, raced>>
             /\ \/ Stops(p, "failed") /\ composed' = NoComposed
                \/ /\ Stops(p, "done")
                   /\ composed' = [composed EXCEPT !.receipt =
                         [zip |-> job[p].given[1], source |-> job[p].given[2], replay |-> job[p].outputs]]
  BY <1>10, Going, Stopping, Zenon DEF WriteReceipt, Abandon, Only, Outside, Elsewhere
<1>. QED
  BY <1>1, <1>2, <1>3, <1>4, <1>5, <1>6, <1>7, <1>8, <1>9, <1>10, Zenon

LEMMA CatalogueMoves ==
    ASSUME Shaped, NEW p \in Runs
    PROVE  /\ ReadBase(p) =>
                 /\ At(p, "read-base") /\ Elsewhere
                 /\ To(p, "b", "read-published", captures["base"])
           /\ ReadOther(p) =>
                 /\ At(p, "read-published") /\ Elsewhere
                 /\ To(p, "p", "recover", captures["published"])
           /\ Recover(p) =>
                 /\ At(p, "recover") /\ Elsewhere
                 /\ \/ Stops(p, "failed")
                    \/ Oracle[<<job[p].b, job[p].p>>] # Refused /\ To(p, "pc", "save", "save")
           /\ Save(p) =>
                 /\ At(p, "save") /\ UNCHANGED <<captures, archive, replay, composed, raced>>
                 /\ Stops(p, "done") /\ oracle' = <<job[p].b, job[p].p>>
           /\ StartCompare(p) =>
                 /\ p \in Comparers /\ At(p, "idle") /\ Elsewhere
                 /\ \E review \in Reviews, profiles \in Profiles : To(p, "given", "read-oracle", <<review, profiles>>)
           /\ ReadOracle(p) =>
                 /\ At(p, "read-oracle") /\ Elsewhere
                 /\ Stops(p, "failed") \/ (oracle # NoFile /\ To(p, "outputs", "read-baseline", oracle))
           /\ ReadBaseline(p) =>
                 /\ At(p, "read-baseline") /\ Elsewhere
                 /\ To(p, "b", "read-candidate", captures["base"])
           /\ ReadCandidate(p) =>
                 /\ At(p, "read-candidate") /\ Elsewhere
                 /\ To(p, "c", "judge", captures["candidate"])
           /\ Judge(p) =>
                 LET j       == job[p]
                     outcome == CompareCandidate(Oracle[j.outputs], j.b, Capture[j.b],
                                                 Capture[j.c], j.given[1], j.given[2])
                 IN  /\ At(p, "judge") /\ Elsewhere
                     /\ Stops(p, "failed") \/ (outcome # Refused /\ To(p, "outcome", "done", outcome))
<1>1. ASSUME ReadBase(p)
      PROVE  /\ At(p, "read-base") /\ Elsewhere
             /\ To(p, "b", "read-published", captures["base"])
  BY <1>1, Going, Stopping, Zenon DEF ReadBase, Only, Outside, Elsewhere
<1>2. ASSUME ReadOther(p)
      PROVE  /\ At(p, "read-published") /\ Elsewhere
             /\ To(p, "p", "recover", captures["published"])
  BY <1>2, Going, Stopping, Zenon DEF ReadOther, Only, Outside, Elsewhere
<1>3. ASSUME Recover(p)
      PROVE  /\ At(p, "recover") /\ Elsewhere
             /\ \/ Stops(p, "failed")
                \/ Oracle[<<job[p].b, job[p].p>>] # Refused /\ To(p, "pc", "save", "save")
  BY <1>3, Going, Stopping, Zenon DEF Recover, Try, Goes, Only, Outside, Elsewhere
<1>4. ASSUME Save(p)
      PROVE  /\ At(p, "save") /\ UNCHANGED <<captures, archive, replay, composed, raced>>
             /\ Stops(p, "done") /\ oracle' = <<job[p].b, job[p].p>>
  BY <1>4, Going, Stopping, Zenon DEF Save, Only, Outside, Elsewhere
<1>5. ASSUME StartCompare(p)
      PROVE  /\ p \in Comparers /\ At(p, "idle") /\ Elsewhere
             /\ \E review \in Reviews, profiles \in Profiles : To(p, "given", "read-oracle", <<review, profiles>>)
  BY <1>5, Going, Stopping, Zenon DEF StartCompare, Only, Outside, Elsewhere
<1>6. ASSUME ReadOracle(p)
      PROVE  /\ At(p, "read-oracle") /\ Elsewhere
             /\ Stops(p, "failed") \/ (oracle # NoFile /\ To(p, "outputs", "read-baseline", oracle))
  BY <1>6, Going, Stopping, Zenon DEF ReadOracle, Only, Outside, Elsewhere
<1>7. ASSUME ReadBaseline(p)
      PROVE  /\ At(p, "read-baseline") /\ Elsewhere
             /\ To(p, "b", "read-candidate", captures["base"])
  BY <1>7, Going, Stopping, Zenon DEF ReadBaseline, Only, Outside, Elsewhere
<1>8. ASSUME ReadCandidate(p)
      PROVE  /\ At(p, "read-candidate") /\ Elsewhere
             /\ To(p, "c", "judge", captures["candidate"])
  BY <1>8, Going, Stopping, Zenon DEF ReadCandidate, Only, Outside, Elsewhere
<1>9. ASSUME Judge(p)
      PROVE  LET j       == job[p]
                 outcome == CompareCandidate(Oracle[j.outputs], j.b, Capture[j.b],
                                             Capture[j.c], j.given[1], j.given[2])
             IN  /\ At(p, "judge") /\ Elsewhere
                 /\ Stops(p, "failed") \/ (outcome # Refused /\ To(p, "outcome", "done", outcome))
  BY <1>9, Going, Stopping, Zenon DEF Judge, Only, Outside, Elsewhere
<1>. QED
  BY <1>1, <1>2, <1>3, <1>4, <1>5, <1>6, <1>7, <1>8, <1>9, Zenon

LEMMA CrashMoves ==
    ASSUME Shaped, NEW p \in Runs
    PROVE  /\ Crash(p) =>
                 /\ job[p].pc \notin Ended /\ UNCHANGED <<captures, archive, composed, oracle, raced>>
                 /\ Stops(p, "crashed")
                 /\ \/ job[p].pc \notin Building /\ replay' = replay
                    \/ /\ job[p].pc \in Building
                       /\ replay' = [replay EXCEPT !.files[IF job[p].pc = "write" THEN WriteOrder[job[p].n]
                                                           ELSE IF job[p].pc = "record" THEN ReceiptFile
                                                           ELSE InventoryFile] = Partial]
<1>1. ASSUME Crash(p)
      PROVE  /\ job[p].pc \notin Ended /\ UNCHANGED <<captures, archive, composed, oracle, raced>>
             /\ Stops(p, "crashed")
             /\ \/ job[p].pc \notin Building /\ replay' = replay
                \/ /\ job[p].pc \in Building
                   /\ replay' = [replay EXCEPT !.files[IF job[p].pc = "write" THEN WriteOrder[job[p].n]
                                                       ELSE IF job[p].pc = "record" THEN ReceiptFile
                                                       ELSE InventoryFile] = Partial]
  BY <1>1, Going, Stopping, Zenon DEF Crash, Building, Only, Outside, Elsewhere
<1>. QED
  BY <1>1, Zenon

Spoilt(r, f, content, damaged) == [r EXCEPT !.files[f] = content, !.damaged = damaged]

LEMMA DamageMoves ==
    ASSUME Damage
    PROVE  /\ UNCHANGED <<captures, archive, composed, oracle, job, raced>>
           /\ \E f \in ReplayFiles, content \in {Junk, NoFile} :
                /\ replay.files[f] # NoFile
                /\ replay' = Spoilt(replay, f, content, replay.damaged \/ replay.files[InventoryFile] = NoFile)
  BY Zenon DEF Damage, Spoilt

LEMMA Damaged ==
    ASSUME NEW r, ReplayShape(r), NEW f, NEW content, NEW d
    PROVE  LET s == Spoilt(r, f, content, d)
           IN  /\ ReplayShape(s) /\ s.made = r.made /\ s.owner = r.owner /\ s.damaged = d
               /\ \A g \in ReplayFiles : s.files[g] = IF g = f THEN content ELSE r.files[g]
<1>1. PICK s : s = Spoilt(r, f, content, d)
  OBVIOUS
<1>2. /\ ReplayShape(s) /\ s.made = r.made /\ s.owner = r.owner /\ s.damaged = d
      /\ \A g \in ReplayFiles : s.files[g] = IF g = f THEN content ELSE r.files[g]
  BY <1>1 DEF ReplayShape, Spoilt
<1>. QED
  BY <1>1, <1>2, Zenon

(* The steps of a build that write; every other step leaves the root alone and *)
(* does not come to where one is written.                                      *)
Writes(p) ==
    \/ MakeReplay(p) \/ WriteStage(p) \/ Record(p) \/ WriteInventory(p) \/ WriteFails(p)
    \/ Crash(p) /\ job[p].pc \in Building
Composing == {"copy", "close", "receipt"}
WritesComposed(p) ==
    MakeOutput(p) \/ CopyMember(p) \/ CopyFails(p) \/ CloseOutput(p) \/ WriteReceipt(p)

LEMMA Quietly ==
    ASSUME Shaped, NEW p \in Runs, Step(p), ~Writes(p)
    PROVE  replay' = replay /\ job'[p].pc \notin Building /\ Others(p) /\ Job(job'[p])
<1>. USE DEF To, SetTo, Stops, Building, Elsewhere
<1>1. CASE StartBuild(p)
  BY <1>1, Starting DEF StartBuild
<1>2. CASE ReadNoMir(p) \/ ReadPublished(p) \/ Diff(p)
  BY <1>2, BuildMoves
<1>3. CASE StartCompose(p)
  BY <1>3, Starting DEF StartCompose
<1>4. CASE ReadRecords(p) \/ VerifyStages(p) \/ SafeOutputRoot(p) \/ HashArchive(p) \/ OpenArchive(p)
  BY <1>4, ComposeMoves, Zenon
<1>5. CASE MakeOutput(p)
  BY <1>5, ComposeMoves, Zenon
<1>6. CASE CopyMember(p)
  BY <1>6, ComposeMoves, Zenon
<1>7. CASE CopyFails(p) \/ CloseOutput(p) \/ WriteReceipt(p)
  BY <1>7, ComposeMoves, Zenon
<1>8. CASE StartRecover(p)
  BY <1>8, Starting DEF StartRecover
<1>9. CASE ReadBase(p) \/ ReadOther(p) \/ Recover(p) \/ Save(p)
  BY <1>9, CatalogueMoves
<1>10. CASE StartCompare(p) \/ ReadOracle(p) \/ ReadBaseline(p) \/ ReadCandidate(p)
  BY <1>10, CatalogueMoves
<1>11. CASE Judge(p)
  BY <1>11, CatalogueMoves
<1>12. CASE Crash(p)
  BY <1>12, CrashMoves DEF Writes
<1>. QED
  BY <1>1, <1>2, <1>3, <1>4, <1>5, <1>6, <1>7, <1>8, <1>9, <1>10, <1>11, <1>12
     DEF Step, Build, Compose, Catalogued, Writes

(* The steps that write to the root of a build, by what becomes of it.         *)
LEMMA Writing ==
    ASSUME Shaped, Owned, NEW p \in Runs, Writes(p)
    PROVE  /\ Others(p) /\ Job(job'[p]) /\ ReplayShape(replay')
           /\ UNCHANGED <<captures, archive, composed, oracle, raced>>
           /\ \/ /\ job'[p].pc \notin Building
                 /\ replay.made => replay.owner = p \/ replay' = replay
              \/ /\ job'[p].pc \in Building /\ replay'.made /\ replay'.owner = p
                 /\ replay.made => replay.owner = p
                 /\ job'[p].pc = "write" => job'[p].n \in 1..3
           /\ \A q \in Runs : q # p => job[q].pc \notin Building \/ replay' = replay
<1>. USE DEF To, SetTo, Stops
<1>1. ReplayShape(replay)
  BY DEF Shaped
<1>2. CASE MakeReplay(p)
  <2>1. /\ UNCHANGED <<captures, archive, composed, oracle, raced>>
        /\ \/ Stops(p, "failed") /\ replay' = replay
           \/ ~replay.made /\ To(p, "n", "write", 1) /\ replay' = NewReplay(p)
    BY <1>2, BuildMoves
  <2>2. CASE Stops(p, "failed") /\ replay' = replay
    BY <1>1, <2>1, <2>2 DEF Building
  <2>3. CASE ~replay.made /\ To(p, "n", "write", 1) /\ replay' = NewReplay(p)
    <3>1. \A q \in Runs : job[q].pc \notin Building
      BY <2>3 DEF Owned
    <3>2. replay'.made /\ replay'.owner = p /\ ReplayShape(replay')
      BY <2>3, NewShapes
    <3>3. job'[p].pc = "write" /\ job'[p].n \in 1..3 /\ Others(p) /\ Job(job'[p])
      BY <2>3
    <3>. QED
      BY <2>1, <2>3, <3>1, <3>2, <3>3 DEF Building
  <2>. QED
    BY <2>1, <2>2, <2>3
<1>3. ASSUME job[p].pc \in Building
      PROVE  replay.made /\ replay.owner = p /\ \A q \in Runs : q # p => job[q].pc \notin Building
  BY <1>3 DEF Owned
<1>4. CASE WriteStage(p)
  <2>. DEFINE pc == IF job[p].n = Len(WriteOrder) THEN "record" ELSE "write"
              f == WriteOrder[job[p].n]
              content == Rendered(f, job[p].b, job[p].p)
  <2>1. /\ At(p, "write") /\ UNCHANGED <<captures, archive, composed, oracle, raced>>
        /\ To(p, "n", pc, job[p].n + 1) /\ replay' = [replay EXCEPT !.files[f] = content]
    BY <1>4, BuildMoves
  <2>2. job[p].n \in 1..3 /\ job[p].pc \in Building
    BY <2>1 DEF Owned, Building, At
  <2>3. pc = "write" => job[p].n + 1 \in 1..3
    BY <2>2 DEF WriteOrder
  <2>4. pc \in Building
    BY DEF Building
  <2>. HIDE DEF pc, f, content
  <2>5. ReplayShape([replay EXCEPT !.files[f] = content])
        /\ [replay EXCEPT !.files[f] = content].made = replay.made
        /\ [replay EXCEPT !.files[f] = content].owner = replay.owner
    BY <1>1, FileSet
  <2>. QED
    BY <1>3, <2>1, <2>2, <2>3, <2>4, <2>5
<1>5. CASE Record(p)
  <2>. DEFINE outputs == [f \in Stages |-> replay.files[f]]
              content == ReceiptOf(job[p].b, job[p].p, outputs)
  <2>1. /\ At(p, "record") /\ UNCHANGED <<captures, archive, composed, oracle, raced>>
        /\ \/ Stops(p, "failed") /\ replay' = NoReplay
           \/ /\ To(p, "outputs", "inventory", outputs)
              /\ replay' = [replay EXCEPT !.files[ReceiptFile] = content]
    BY <1>5, BuildMoves
  <2>. HIDE DEF outputs, content
  <2>2. job[p].pc \in Building
    BY <2>1 DEF Building, At
  <2>3. ReplayShape([replay EXCEPT !.files[ReceiptFile] = content])
        /\ [replay EXCEPT !.files[ReceiptFile] = content].made = replay.made
        /\ [replay EXCEPT !.files[ReceiptFile] = content].owner = replay.owner
    BY <1>1, FileSet
  <2>. QED
    BY <1>3, <2>1, <2>2, <2>3, NewShapes DEF Building
<1>6. CASE WriteInventory(p)
  <2>. DEFINE content == InventoryOf(ReceiptOf(job[p].b, job[p].p, job[p].outputs))
  <2>1. /\ At(p, "inventory") /\ UNCHANGED <<captures, archive, composed, oracle, raced>>
        /\ Stops(p, "done") /\ replay' = [replay EXCEPT !.files[InventoryFile] = content]
    BY <1>6, BuildMoves
  <2>. HIDE DEF content
  <2>2. job[p].pc \in Building
    BY <2>1 DEF Building, At
  <2>3. ReplayShape(replay')
    BY <1>1, <2>1, FileSet
  <2>. QED
    BY <1>3, <2>1, <2>2, <2>3 DEF Building
<1>7. CASE WriteFails(p)
  <2>1. /\ job[p].pc \in Building /\ UNCHANGED <<captures, archive, composed, oracle, raced>>
        /\ Stops(p, "failed") /\ replay' = NoReplay
    BY <1>7, BuildMoves
  <2>. QED
    BY <1>3, <2>1, NewShapes DEF Building
<1>8. CASE Crash(p) /\ job[p].pc \in Building
  <2>1. /\ UNCHANGED <<captures, archive, composed, oracle, raced>> /\ Stops(p, "crashed")
        /\ \E f : replay' = [replay EXCEPT !.files[f] = Partial]
    BY <1>8, CrashMoves
  <2>2. ReplayShape(replay')
    BY <1>1, <2>1, FileSet
  <2>. QED
    BY <1>3, <1>8, <2>1, <2>2 DEF Building
<1>. QED
  BY <1>2, <1>4, <1>5, <1>6, <1>7, <1>8 DEF Writes

LEMMA ComposedShaped ==
    ASSUME Shaped, NEW p \in Runs, WritesComposed(p)
    PROVE  ComposedShape(composed')
<1>1. ComposedShape(composed)
  BY DEF Shaped
<1>2. CASE MakeOutput(p)
  <2>1. composed' = NoComposed \/ composed' = NewComposed(p)
    BY <1>2, ComposeMoves, Zenon
  <2>. QED
    BY <2>1, NewShapes
<1>3. CASE CopyMember(p)
  <2>1. \/ composed' = NoComposed \/ composed' = composed
        \/ \E zip, closed : composed' = [composed EXCEPT !.zip = zip, !.closed = closed]
    <3>. DEFINE order == CopyOrder(job[p].handle)
                member == order[job[p].n]
                content == Copies(p, member)
                zip == Beside([m \in {member} |-> content], composed.zip)
                closed == job[p].n = Len(order)
    <3>1. \/ composed' = NoComposed \/ composed' = composed
          \/ composed' = [composed EXCEPT !.zip = zip, !.closed = closed]
      BY <1>3, ComposeMoves, Zenon
    <3>. HIDE DEF zip, closed
    <3>. QED
      BY <3>1, Zenon
  <2>2. ASSUME NEW c, c = composed, NEW d, NEW zip, NEW closed, d = [c EXCEPT !.zip = zip, !.closed = closed]
        PROVE  ComposedShape(d)
    BY <1>1, <2>2 DEF ComposedShape
  <2>. QED
    BY <1>1, <2>1, <2>2, NewShapes, Zenon
<1>4. CASE CopyFails(p)
  BY <1>4, ComposeMoves, NewShapes, Zenon
<1>5. CASE CloseOutput(p)
  BY <1>1, <1>5, ComposeMoves, NewShapes, Zenon
<1>6. CASE WriteReceipt(p)
  <2>1. composed' = NoComposed \/ \E receipt : composed' = [composed EXCEPT !.receipt = receipt]
    BY <1>6, ComposeMoves, Zenon
  <2>2. ASSUME NEW c, c = composed, NEW d, NEW receipt, d = [c EXCEPT !.receipt = receipt]
        PROVE  ComposedShape(d)
    BY <1>1, <2>2 DEF ComposedShape
  <2>. QED
    BY <1>1, <2>1, <2>2, NewShapes
<1>. QED
  BY <1>2, <1>3, <1>4, <1>5, <1>6 DEF WritesComposed

LEMMA ComposedKept ==
    ASSUME Shaped, Owned, NEW p \in Runs, Step(p)
    PROVE  captures' = captures /\ archive' = archive /\ (WritesComposed(p) \/ composed' = composed)
<1>. USE DEF Elsewhere
<1>1. CASE Writes(p)
  BY <1>1, Writing
<1>2. CASE StartBuild(p) \/ StartCompose(p) \/ StartRecover(p)
  BY <1>2, Starting DEF StartBuild, StartCompose, StartRecover
<1>3. CASE ReadNoMir(p) \/ ReadPublished(p) \/ Diff(p)
  BY <1>3, BuildMoves
<1>4. CASE ReadRecords(p) \/ VerifyStages(p) \/ SafeOutputRoot(p) \/ HashArchive(p) \/ OpenArchive(p)
  BY <1>4, ComposeMoves, Zenon
<1>5. CASE MakeOutput(p) \/ CopyFails(p) \/ CloseOutput(p) \/ WriteReceipt(p)
  BY <1>5, ComposeMoves, Zenon DEF WritesComposed
<1>6. CASE CopyMember(p)
  BY <1>6, ComposeMoves, Zenon DEF WritesComposed
<1>7. CASE ReadBase(p) \/ ReadOther(p) \/ Recover(p) \/ Save(p)
  BY <1>7, CatalogueMoves
<1>8. CASE StartCompare(p) \/ ReadOracle(p) \/ ReadBaseline(p) \/ ReadCandidate(p)
  BY <1>8, CatalogueMoves
<1>9. CASE Judge(p)
  BY <1>9, CatalogueMoves
<1>10. CASE Crash(p)
  BY <1>10, CrashMoves
<1>. QED
  BY <1>1, <1>2, <1>3, <1>4, <1>5, <1>6, <1>7, <1>8, <1>9, <1>10
     DEF Step, Build, Compose, Catalogued, Writes

LEMMA WorldKeeps ==
    ASSUME Shaped, Owned, World
    PROVE  Shaped' /\ Owned'
<1>1. CASE Recapture
  <2>1. UNCHANGED <<replay, composed, job>>
    BY <1>1 DEF Recapture
  <2>2. PICK r \in DOMAIN Roots : \E c \in Roots[r] : captures' = [captures EXCEPT ![r] = c]
    BY <1>1 DEF Recapture
  <2>3. captures' \in [DOMAIN Roots -> Captures]
    BY <2>2, CapturesAssumption DEF Shaped
  <2>. QED
    BY <2>1, <2>3 DEF Shaped, Owned
<1>2. CASE ReplaceArchive
  BY <1>2 DEF ReplaceArchive, Shaped, Owned
<1>3. CASE Damage
  <2>1. PICK f, content, d : replay' = Spoilt(replay, f, content, d)
    BY <1>3, DamageMoves
  <2>2. ReplayShape(replay)
    BY DEF Shaped
  <2>4. ReplayShape(replay') /\ replay'.made = replay.made /\ replay'.owner = replay.owner
    BY <2>1, <2>2, Damaged
  <2>3. UNCHANGED <<captures, composed, job>>
    BY <1>3 DEF Damage
  <2>. QED
    BY <2>3, <2>4 DEF Shaped, Owned
<1>. QED
  BY <1>1, <1>2, <1>3 DEF World

LEMMA OwnedKept ==
    ASSUME Shaped, Owned, [Next]_vars
    PROVE  Shaped' /\ Owned'
<1>1. CASE UNCHANGED vars
  BY <1>1 DEF vars, Shaped, Owned
<1>2. CASE World
  BY <1>2, WorldKeeps
<1>3. ASSUME NEW p \in Runs, Step(p) PROVE Shaped' /\ Owned'
  <2>1. captures' = captures /\ ComposedShape(composed')
    BY <1>3, ComposedKept, ComposedShaped DEF Shaped
  <2>2. Others(p) /\ Job(job'[p]) /\ ReplayShape(replay')
    BY <1>3, Writing, Quietly DEF Shaped
  <2>3. Shaped'
    BY <2>1, <2>2 DEF Shaped, Others
  <2>4. ASSUME NEW q \in Runs, job'[q].pc \in Building
        PROVE  replay'.made /\ replay'.owner = q /\ (job'[q].pc = "write" => job'[q].n \in 1..3)
    <3>1. CASE Writes(p) /\ q = p
      BY <2>4, <3>1, Writing
    <3>2. CASE Writes(p) /\ q # p
      <4>1. job'[q] = job[q]
        BY <2>2, <3>2 DEF Others
      <4>2. replay' = replay
        BY <2>4, <3>2, <4>1, Writing
      <4>. QED
        BY <2>4, <4>1, <4>2 DEF Owned
    <3>3. CASE ~Writes(p)
      <4>1. q # p /\ replay' = replay
        BY <1>3, <2>4, <3>3, Quietly
      <4>2. job'[q] = job[q]
        BY <2>2, <4>1 DEF Others
      <4>. QED
        BY <2>4, <4>1, <4>2 DEF Owned
    <3>. QED
      BY <3>1, <3>2, <3>3
  <2>. QED
    BY <2>3, <2>4 DEF Owned
<1>. QED
  BY <1>1, <1>2, <1>3 DEF Next

LEMMA OwnedAlways == Spec => [](Shaped /\ Owned)
<1>1. Init => Shaped /\ Owned
  BY ShapedInit
<1>2. Shaped /\ Owned /\ [Next]_vars => Shaped' /\ Owned'
  BY OwnedKept
<1>. QED
  BY <1>1, <1>2, PTL DEF Spec

(* A builder that meets a root another run made writes nothing there and       *)
(* removes nothing, however the two came to start from the same look at it.    *)
THEOREM RootsOfOthersKept == Spec => OthersKept
<1>1. ASSUME Shaped, Owned, [Next]_vars, NEW p \in Builders,
             job[p]' # job[p], replay.made, replay.owner # p
      PROVE  replay' = replay
  <2>1. p \in Runs
    BY Zenon DEF Runs
  <2>2. CASE World
    BY <1>1, <2>2, Zenon DEF World, Recapture, ReplaceArchive, Damage
  <2>3. ASSUME NEW q \in Runs, Step(q) PROVE replay' = replay
    <3>1. CASE q # p
      BY <1>1, <2>1, <2>3, <3>1, Writing, Quietly DEF Others
    <3>2. CASE q = p
      BY <1>1, <2>3, <3>2, Writing, Quietly
    <3>. QED
      BY <3>1, <3>2
  <2>. QED
    BY <1>1, <2>2, <2>3 DEF Next, vars
<1>2. Shaped /\ Owned /\ [Next]_vars
      => [\A p \in Builders : job[p]' # job[p] /\ replay.made /\ replay.owner # p => replay' = replay]_vars
  BY <1>1
<1>. QED
  BY <1>2, OwnedAlways, PTL DEF Spec, OthersKept

-----------------------------------------------------------------------------
(* What runs hold of captures was admitted, and stays as it was admitted,      *)
(* whatever is captured again meanwhile.                                       *)

Pair(b, p) ==
    /\ b \in Captures /\ p \in Captures
    /\ ReplayReads(Capture[b], FALSE, Nil) /\ ReplayReads(Capture[p], TRUE, Nil)
    /\ SameInputs(Capture[b], Capture[p])
    /\ DataDiff[<<b, p>>] # Refused /\ SettingsDiff[<<b, p>>] # Refused
Oracled(o) == o \in Pairs /\ Oracle[o] # Refused
Judged(j) ==
    /\ Oracled(j.outputs) /\ j.b \in Captures /\ j.c \in Captures /\ j.given[1] \in Reviews
    /\ j.outcome # Refused
    /\ j.outcome = CompareCandidate(Oracle[j.outputs], j.b, Capture[j.b],
                                    Capture[j.c], j.given[1], j.given[2])

(* What a run at its place has read, by command.                               *)
BuildReads(j) ==
    /\ j.pc \in {"published", "diff", "mkdir"} \cup Building =>
          j.b \in Captures /\ ReplayReads(Capture[j.b], FALSE, Nil)
    /\ j.pc \in {"diff", "mkdir"} \cup Building => j.p \in Captures /\ ReplayReads(Capture[j.p], TRUE, Nil)
    /\ j.pc \in {"mkdir"} \cup Building => Pair(j.b, j.p)
ComposeReads(j) ==
    /\ j.pc \in {"stages", "fresh", "hash", "open", "make"} \cup Composing =>
          Pair(j.outputs[3][2], j.outputs[3][3])
    /\ j.pc \in {"make"} \cup Composing => Capture[j.outputs[3][3]].mir.hash = Expected
RecoverReads(j) ==
    /\ j.pc \in {"read-published", "recover", "save"} => j.b \in Captures
    /\ j.pc \in {"recover", "save"} => j.p \in Captures
    /\ j.pc = "save" => Oracle[<<j.b, j.p>>] # Refused
CompareReads(j) ==
    /\ j.pc \in {"read-oracle", "read-baseline", "read-candidate", "judge"} => j.given[1] \in Reviews
    /\ j.pc \in {"read-baseline", "read-candidate", "judge"} => Oracled(j.outputs)
    /\ j.pc \in {"read-candidate", "judge"} => j.b \in Captures
    /\ j.pc = "judge" => j.c \in Captures
Comparing ==
    {"idle", "failed", "crashed", "read-oracle", "read-baseline", "read-candidate", "judge", "done"}
Reading(p, j) ==
    /\ BuildReads(j) /\ ComposeReads(j) /\ RecoverReads(j) /\ CompareReads(j)
    /\ p \in Comparers => j.pc \in Comparing /\ (j.pc = "done" => Judged(j))

Trusted ==
    /\ \A p \in Runs : Reading(p, job[p])
    /\ Genuine(replay.files[ReceiptFile], "receipt") =>
          Pair(replay.files[ReceiptFile][2], replay.files[ReceiptFile][3])
    /\ Genuine(replay.files[InventoryFile], "inventory") =>
          Pair(replay.files[InventoryFile][3][2], replay.files[InventoryFile][3][3])
    /\ composed.receipt # NoFile =>
          /\ Pair(composed.receipt.replay[3][2], composed.receipt.replay[3][3])
          /\ Capture[composed.receipt.replay[3][3]].mir.hash = Expected
    /\ oracle # NoFile => Oracled(oracle)

LEMMA FilesDiffer ==
    /\ ReceiptFile # InventoryFile /\ ReceiptFile \notin Stages /\ InventoryFile \notin Stages
    /\ \A n \in 1..3 : WriteOrder[n] \in Stages
    /\ ~Genuine(Partial, "receipt") /\ ~Genuine(Partial, "inventory")
    /\ ~Genuine(Junk, "receipt") /\ ~Genuine(Junk, "inventory")
    /\ ~Genuine(NoFile, "receipt") /\ ~Genuine(NoFile, "inventory")
  BY DEF ReceiptFile, InventoryFile, Stages, WriteOrder, Data, Settings, Quiet, Genuine, Partial, Junk, NoFile

(* A run that failed or crashed has read nothing that matters.                 *)
LEMMA ReadingStopped ==
    ASSUME NEW p, NEW j, j.pc \in {"failed", "crashed"} \/ (j.pc = "done" /\ p \notin Comparers)
    PROVE  Reading(p, j)
<1>1. BuildReads(j)
  BY DEF BuildReads, Building
<1>2. ComposeReads(j)
  BY DEF ComposeReads, Composing
<1>3. RecoverReads(j)
  BY DEF RecoverReads
<1>4. CompareReads(j)
  BY DEF CompareReads
<1>. QED
  BY <1>1, <1>2, <1>3, <1>4 DEF Reading, Comparing

LEMMA Roots3 ==
    ASSUME Shaped
    PROVE  captures["base"] \in Captures /\ captures["published"] \in Captures /\ captures["candidate"] \in Captures
  BY CapturesAssumption DEF Shaped

LEMMA StartReads ==
    ASSUME Shaped, Trusted, NEW p \in Runs,
           StartBuild(p) \/ StartCompose(p) \/ StartRecover(p)
    PROVE  Reading(p, job'[p])
<1>1. p \notin Comparers
  BY Starting, RunsAssumption DEF StartBuild, StartCompose, StartRecover
<1>2. job'[p].pc \in {"no-mir", "records", "read-base"}
  BY Starting DEF StartBuild, StartCompose, StartRecover, To, SetTo
<1>. QED
  BY <1>1, <1>2 DEF Reading, BuildReads, ComposeReads, RecoverReads, CompareReads, Building, Composing

LEMMA BuildsRead ==
    ASSUME Shaped, Trusted, NEW p \in Runs, Build(p)
    PROVE  Reading(p, job'[p])
<1>. USE DEF To, SetTo, At
<1>1. Reading(p, job[p])
  BY DEF Trusted
<1>2. CASE StartBuild(p)
  BY <1>2, StartReads
<1>3. job[p].pc \in {"no-mir", "published", "diff", "mkdir"} \cup Building => p \notin Comparers
  BY <1>1 DEF Reading, Comparing, Building
<1>4. CASE Stops(p, "failed") \/ Stops(p, "done")
  BY <1>2, <1>3, <1>4, BuildMoves, ReadingStopped DEF Stops, Build, Building
<1>5. CASE ReadNoMir(p)
  <2>1. CASE /\ ReplayReads(Capture[captures["base"]], FALSE, Nil)
             /\ To(p, "b", "published", captures["base"])
    BY <1>3, <1>5, <2>1, Roots3, BuildMoves
       DEF Reading, BuildReads, ComposeReads, RecoverReads, CompareReads, Building, Composing
  <2>. QED
    BY <1>4, <1>5, <2>1, BuildMoves
<1>6. CASE ReadPublished(p)
  <2>1. CASE /\ ReplayReads(Capture[captures["published"]], TRUE, Nil)
             /\ To(p, "p", "diff", captures["published"])
    BY <1>1, <1>3, <1>6, <2>1, Roots3, BuildMoves
       DEF Reading, BuildReads, ComposeReads, RecoverReads, CompareReads, Building, Composing
  <2>. QED
    BY <1>4, <1>6, <2>1, BuildMoves
<1>7. CASE Diff(p)
  <2>1. CASE To(p, "pc", "mkdir", "mkdir") /\ ~Stops(p, "failed")
    <3>1. /\ At(p, "diff") /\ SameInputs(Capture[job[p].b], Capture[job[p].p])
          /\ DataDiff[<<job[p].b, job[p].p>>] # Refused /\ SettingsDiff[<<job[p].b, job[p].p>>] # Refused
      BY <1>7, <2>1, BuildMoves
    <3>2. Pair(job[p].b, job[p].p)
      BY <1>1, <3>1 DEF Reading, BuildReads, Pair
    <3>3. BuildReads(job'[p])
      BY <2>1, <3>2 DEF BuildReads, Pair
    <3>. QED
      BY <1>3, <2>1, <3>1, <3>3
         DEF Reading, ComposeReads, RecoverReads, CompareReads, Composing
  <2>. QED
    BY <1>4, <1>7, <2>1, BuildMoves
<1>8. CASE MakeReplay(p)
  <2>1. CASE To(p, "n", "write", 1)
    BY <1>1, <1>3, <1>8, <2>1, BuildMoves
       DEF Reading, BuildReads, ComposeReads, RecoverReads, CompareReads, Building, Composing
  <2>. QED
    BY <1>4, <1>8, <2>1, BuildMoves
<1>9. CASE WriteStage(p)
  <2>1. /\ At(p, "write") /\ job'[p].pc \in {"record", "write"}
        /\ job'[p].b = job[p].b /\ job'[p].p = job[p].p
    BY <1>9, BuildMoves
  <2>. QED
    BY <1>1, <1>3, <2>1
       DEF Reading, BuildReads, ComposeReads, RecoverReads, CompareReads, Building, Composing
<1>10. CASE Record(p)
  <2>1. CASE \E outputs : To(p, "outputs", "inventory", outputs)
    BY <1>1, <1>3, <1>10, <2>1, BuildMoves
       DEF Reading, BuildReads, ComposeReads, RecoverReads, CompareReads, Building, Composing
  <2>. QED
    BY <1>4, <1>10, <2>1, BuildMoves
<1>11. CASE WriteInventory(p) \/ WriteFails(p)
  BY <1>4, <1>11, BuildMoves
<1>. QED
  BY <1>2, <1>5, <1>6, <1>7, <1>8, <1>9, <1>10, <1>11 DEF Build

LEMMA ComposesRead ==
    ASSUME Shaped, Trusted, NEW p \in Runs, Compose(p)
    PROVE  Reading(p, job'[p])
<1>. USE DEF To, SetTo, At
<1>1. Reading(p, job[p])
  BY DEF Trusted
<1>2. CASE StartCompose(p)
  BY <1>2, StartReads
<1>3. job[p].pc \in {"records", "stages", "fresh", "hash", "open", "make"} \cup Composing => p \notin Comparers
  BY <1>1 DEF Reading, Comparing, Composing
<1>4. /\ ReadRecords(p) \/ VerifyStages(p) \/ SafeOutputRoot(p) \/ HashArchive(p) \/ OpenArchive(p)
           => p \notin Comparers
      /\ MakeOutput(p) \/ CopyFails(p) \/ CloseOutput(p) \/ WriteReceipt(p) => p \notin Comparers
      /\ CopyMember(p) => p \notin Comparers
  <2>1. ReadRecords(p) \/ VerifyStages(p) \/ SafeOutputRoot(p) \/ HashArchive(p) \/ OpenArchive(p)
           => p \notin Comparers
    BY <1>3, ComposeMoves, Zenon
  <2>2. MakeOutput(p) \/ CopyFails(p) \/ CloseOutput(p) \/ WriteReceipt(p) => p \notin Comparers
    BY <1>3, ComposeMoves, Zenon DEF Composing
  <2>3. CopyMember(p) => p \notin Comparers
    BY <1>3, ComposeMoves, Zenon DEF Composing
  <2>. QED
    BY <2>1, <2>2, <2>3, Zenon
<1>5. ASSUME Stops(p, "failed") \/ Stops(p, "done"), p \notin Comparers
      PROVE  Reading(p, job'[p])
  BY <1>5, ReadingStopped, Zenon DEF Stops
<1>6. CASE ReadRecords(p)
  <2>1. CASE /\ Genuine(replay.files[InventoryFile], "inventory")
             /\ To(p, "outputs", "stages", replay.files[InventoryFile])
    <3>1. Pair(job'[p].outputs[3][2], job'[p].outputs[3][3])
      BY <2>1, Zenon DEF Trusted
    <3>. QED
      BY <1>4, <1>6, <2>1, <3>1 DEF Reading, BuildReads, ComposeReads, RecoverReads, CompareReads, Building, Composing
  <2>. QED
    BY <1>4, <1>5, <1>6, <2>1, ComposeMoves, Zenon
<1>7. CASE VerifyStages(p) \/ SafeOutputRoot(p) \/ HashArchive(p)
  <2>1. CASE /\ job'[p].pc \in {"fresh", "hash", "open"} /\ job'[p].outputs = job[p].outputs
             /\ job[p].pc \in {"stages", "fresh", "hash"}
    BY <1>1, <1>4, <1>7, <2>1
       DEF Reading, BuildReads, ComposeReads, RecoverReads, CompareReads, Building, Composing
  <2>. QED
    BY <1>4, <1>5, <1>7, <2>1, ComposeMoves, Zenon
<1>8. CASE OpenArchive(p)
  <2>1. CASE RecordedMir(p) = Expected /\ To(p, "handle", "make", archive)
    BY Zenon, <1>1, <1>4, <1>8, <2>1, ComposeMoves
       DEF Reading, BuildReads, ComposeReads, RecoverReads, CompareReads, Building, Composing,
           RecordedMir, RecordedReceipt
  <2>. QED
    BY <1>4, <1>5, <1>8, <2>1, ComposeMoves, Zenon
<1>9. ASSUME job[p].pc \in {"make"} \cup Composing, job'[p].pc \in Composing,
             job'[p].outputs = job[p].outputs, p \notin Comparers
      PROVE  Reading(p, job'[p])
  BY <1>1, <1>9 DEF Reading, BuildReads, ComposeReads, RecoverReads, CompareReads, Building, Composing
<1>10. CASE MakeOutput(p)
  BY <1>4, <1>5, <1>9, <1>10, ComposeMoves, Zenon DEF Composing
<1>11. CASE CopyMember(p)
  <2>1. At(p, "copy") /\ (Stops(p, "failed") \/ \E n : To(p, "n", "close", n) \/ To(p, "n", "copy", n))
    BY <1>11, ComposeMoves, Zenon
  <2>. QED
    BY <1>4, <1>5, <1>9, <1>11, <2>1, Zenon DEF Composing
<1>12. CASE CopyFails(p)
  BY <1>4, <1>5, <1>12, ComposeMoves, Zenon
<1>13. CASE CloseOutput(p)
  BY <1>4, <1>5, <1>9, <1>13, ComposeMoves, Zenon DEF Composing
<1>14. CASE WriteReceipt(p)
  BY <1>4, <1>5, <1>14, ComposeMoves, Zenon
<1>. QED
  BY <1>2, <1>6, <1>7, <1>8, <1>10, <1>11, <1>12, <1>13, <1>14 DEF Compose

LEMMA CataloguedRead ==
    ASSUME Shaped, Trusted, NEW p \in Runs, Catalogued(p)
    PROVE  Reading(p, job'[p])
<1>. USE DEF To, SetTo, At
<1>1. Reading(p, job[p])
  BY DEF Trusted
<1>2. CASE StartRecover(p)
  BY <1>2, StartReads
<1>3. job[p].pc \in {"read-base", "read-published", "recover", "save"} => p \notin Comparers
  BY <1>1 DEF Reading, Comparing
<1>12. ASSUME Stops(p, "failed") PROVE Reading(p, job'[p])
  BY <1>12, ReadingStopped DEF Stops
<1>4. CASE ReadBase(p)
  BY <1>3, <1>4, CatalogueMoves, Roots3
     DEF Reading, BuildReads, ComposeReads, RecoverReads, CompareReads, Building, Composing
<1>5. CASE ReadOther(p)
  BY <1>1, <1>3, <1>5, CatalogueMoves, Roots3
     DEF Reading, BuildReads, ComposeReads, RecoverReads, CompareReads, Building, Composing
<1>6. CASE Recover(p)
  <2>1. CASE Oracle[<<job[p].b, job[p].p>>] # Refused /\ To(p, "pc", "save", "save")
    BY <1>1, <1>3, <1>6, <2>1, CatalogueMoves
       DEF Reading, BuildReads, ComposeReads, RecoverReads, CompareReads, Building, Composing
  <2>. QED
    BY <1>6, <1>12, <2>1, CatalogueMoves
<1>7. CASE Save(p)
  BY <1>3, <1>7, CatalogueMoves, ReadingStopped DEF Stops
<1>8. CASE StartCompare(p)
  <2>1. PICK review \in Reviews, profiles \in Profiles : To(p, "given", "read-oracle", <<review, profiles>>)
    BY <1>8, CatalogueMoves
  <2>2. job'[p].pc = "read-oracle" /\ job'[p].given[1] \in Reviews
    BY <2>1
  <2>. QED
    BY <2>2 DEF Reading, BuildReads, ComposeReads, RecoverReads, CompareReads, Building, Composing, Comparing
<1>9. CASE ReadOracle(p)
  <2>1. CASE oracle # NoFile /\ To(p, "outputs", "read-baseline", oracle)
    <3>1. Oracled(job'[p].outputs) /\ job'[p].given[1] \in Reviews
      BY <1>1, <1>9, <2>1, CatalogueMoves DEF Trusted, Reading, CompareReads
    <3>. QED
      BY <2>1, <3>1 DEF Reading, BuildReads, ComposeReads, RecoverReads, CompareReads, Building, Composing, Comparing
  <2>. QED
    BY <1>9, <1>12, <2>1, CatalogueMoves
<1>10. CASE ReadBaseline(p) \/ ReadCandidate(p)
  <2>1. /\ job'[p].outputs = job[p].outputs /\ job'[p].given = job[p].given
        /\ \/ At(p, "read-baseline") /\ job'[p].pc = "read-candidate" /\ job'[p].b \in Captures
           \/ /\ At(p, "read-candidate") /\ job'[p].pc = "judge" /\ job'[p].b = job[p].b
              /\ job'[p].c \in Captures
    BY <1>10, CatalogueMoves, Roots3
  <2>2. CompareReads(job'[p])
    BY <1>1, <2>1 DEF Reading, CompareReads
  <2>. QED
    BY <2>1, <2>2 DEF Reading, BuildReads, ComposeReads, RecoverReads, Building, Composing, Comparing
<1>11. CASE Judge(p)
  <2>. DEFINE j == job[p]
              outcome == CompareCandidate(Oracle[j.outputs], j.b, Capture[j.b],
                                          Capture[j.c], j.given[1], j.given[2])
  <2>1. At(p, "judge") /\ (Stops(p, "failed") \/ (outcome # Refused /\ To(p, "outcome", "done", outcome)))
    BY <1>11, CatalogueMoves
  <2>2. CASE outcome # Refused /\ To(p, "outcome", "done", outcome)
    <3>1. Oracled(j.outputs) /\ j.b \in Captures /\ j.c \in Captures /\ j.given[1] \in Reviews
      BY <1>1, <2>1 DEF Reading, CompareReads
    <3>2. /\ job'[p].pc = "done" /\ job'[p].outcome = outcome /\ job'[p].outputs = j.outputs
          /\ job'[p].b = j.b /\ job'[p].c = j.c /\ job'[p].given = j.given
      <4>. HIDE DEF outcome
      <4>. QED
        BY <2>2
    <3>3. Judged(job'[p])
      BY <2>2, <3>1, <3>2 DEF Judged
    <3>. QED
      BY <3>2, <3>3 DEF Reading, BuildReads, ComposeReads, RecoverReads, CompareReads, Building, Composing, Comparing
  <2>. QED
    BY <1>12, <2>1, <2>2
<1>. QED
  BY <1>2, <1>4, <1>5, <1>6, <1>7, <1>8, <1>9, <1>10, <1>11 DEF Catalogued

LEMMA StepReads ==
    ASSUME Shaped, Trusted, NEW p \in Runs, Step(p)
    PROVE  Reading(p, job'[p])
<1>1. CASE Crash(p)
  BY <1>1, CrashMoves, ReadingStopped DEF Stops
<1>. QED
  BY <1>1, BuildsRead, ComposesRead, CataloguedRead DEF Step

Recorded(files) ==
    /\ Genuine(files[ReceiptFile], "receipt") => Pair(files[ReceiptFile][2], files[ReceiptFile][3])
    /\ Genuine(files[InventoryFile], "inventory") =>
          Pair(files[InventoryFile][3][2], files[InventoryFile][3][3])

LEMMA FileRecorded ==
    ASSUME NEW r, Recorded(r.files), ReplayShape(r), NEW f, NEW content,
           f = ReceiptFile /\ Genuine(content, "receipt") => Pair(content[2], content[3]),
           f = InventoryFile /\ Genuine(content, "inventory") => Pair(content[3][2], content[3][3])
    PROVE  Recorded([r EXCEPT !.files[f] = content].files)
<1>. DEFINE files == [r EXCEPT !.files[f] = content].files
<1>1. \A g \in ReplayFiles : files[g] = IF g = f THEN content ELSE r.files[g]
  BY DEF ReplayShape
<1>2. ReceiptFile \in ReplayFiles /\ InventoryFile \in ReplayFiles
  BY DEF ReplayFiles
<1>. HIDE DEF files
<1>3. Recorded(files)
  BY <1>1, <1>2 DEF Recorded
<1>. QED
  BY <1>3 DEF files

LEMMA NothingRecorded ==
    ASSUME NEW p PROVE Recorded(NoReplay.files) /\ Recorded(NewReplay(p).files)
<1>1. NoReplay.files = [f \in ReplayFiles |-> NoFile]
  BY DEF NoReplay
<1>2. ReceiptFile \in ReplayFiles /\ InventoryFile \in ReplayFiles
  BY DEF ReplayFiles
<1>3. NewReplay(p).files = [f \in ReplayFiles |-> NoFile]
  BY NewShapes
<1>4. \A files : files = [f \in ReplayFiles |-> NoFile] => Recorded(files)
  BY <1>2, FilesDiffer DEF Recorded
<1>. QED
  BY <1>1, <1>3, <1>4

LEMMA RecordedKept ==
    ASSUME Shaped, Owned, Trusted, NEW p \in Runs, Step(p)
    PROVE  Recorded(replay'.files)
<1>1. Recorded(replay.files) /\ ReplayShape(replay) /\ Reading(p, job[p])
  BY DEF Trusted, Recorded, Shaped
<1>2. CASE replay' = replay \/ replay' = NoReplay
  BY <1>1, <1>2, NothingRecorded
<1>3. CASE MakeReplay(p)
  BY <1>1, <1>3, BuildMoves, NothingRecorded
<1>4. CASE WriteStage(p)
  <2>. DEFINE f == WriteOrder[job[p].n]
              content == Rendered(f, job[p].b, job[p].p)
  <2>1. At(p, "write") /\ replay' = [replay EXCEPT !.files[f] = content]
    BY <1>4, BuildMoves
  <2>2. job[p].n \in 1..3
    BY <2>1 DEF Owned, Building, At
  <2>3. f # ReceiptFile /\ f # InventoryFile
    BY <2>2, FilesDiffer
  <2>. HIDE DEF f, content
  <2>. QED
    BY <1>1, <2>1, <2>3, FileRecorded
<1>5. CASE Record(p) /\ replay' # NoReplay
  <2>. DEFINE outputs == [f \in Stages |-> replay.files[f]]
              content == ReceiptOf(job[p].b, job[p].p, outputs)
  <2>1. At(p, "record") /\ replay' = [replay EXCEPT !.files[ReceiptFile] = content]
    BY <1>5, BuildMoves
  <2>2. Pair(job[p].b, job[p].p)
    BY <1>1, <2>1 DEF Reading, BuildReads, Building, At
  <2>3. content[2] = job[p].b /\ content[3] = job[p].p
    BY DEF ReceiptOf
  <2>. HIDE DEF content
  <2>. QED
    BY <1>1, <2>1, <2>2, <2>3, FileRecorded, FilesDiffer
<1>6. CASE WriteInventory(p)
  <2>. DEFINE content == InventoryOf(ReceiptOf(job[p].b, job[p].p, job[p].outputs))
  <2>1. At(p, "inventory") /\ replay' = [replay EXCEPT !.files[InventoryFile] = content]
    BY <1>6, BuildMoves
  <2>2. Pair(job[p].b, job[p].p)
    BY <1>1, <2>1 DEF Reading, BuildReads, Building, At
  <2>3. content[3][2] = job[p].b /\ content[3][3] = job[p].p
    BY DEF ReceiptOf, InventoryOf
  <2>. HIDE DEF content
  <2>. QED
    BY <1>1, <2>1, <2>2, <2>3, FileRecorded, FilesDiffer
<1>7. CASE Crash(p)
  <2>1. replay' = replay \/ \E f : replay' = [replay EXCEPT !.files[f] = Partial]
    BY <1>7, CrashMoves
  <2>2. \A f : Recorded([replay EXCEPT !.files[f] = Partial].files)
    BY <1>1, FilesDiffer, FileRecorded
  <2>. QED
    BY <1>1, <2>1, <2>2
<1>. QED
  BY <1>2, <1>3, <1>4, <1>5, <1>6, <1>7, Quietly, BuildMoves DEF Writes

Attested(c) ==
    c.receipt # NoFile =>
        /\ Pair(c.receipt.replay[3][2], c.receipt.replay[3][3])
        /\ Capture[c.receipt.replay[3][3]].mir.hash = Expected

LEMMA AttestedKept ==
    ASSUME Shaped, Owned, Trusted, NEW p \in Runs, Step(p)
    PROVE  Attested(composed')
<1>1. Attested(composed) /\ Reading(p, job[p]) /\ ComposedShape(composed)
  BY DEF Trusted, Attested, Shaped
<1>2. NoComposed.receipt = NoFile /\ NewComposed(p).receipt = NoFile
  BY NewShapes DEF NoComposed
<1>3. CASE composed' = composed \/ composed' = NoComposed \/ composed' = NewComposed(p)
  BY <1>1, <1>2, <1>3 DEF Attested
<1>4. CASE CopyMember(p)
  <2>. DEFINE order == CopyOrder(job[p].handle)
              member == order[job[p].n]
              content == Copies(p, member)
              zip == Beside([m \in {member} |-> content], composed.zip)
              closed == job[p].n = Len(order)
  <2>1. \/ composed' = NoComposed \/ composed' = composed
        \/ composed' = [composed EXCEPT !.zip = zip, !.closed = closed]
    BY <1>4, ComposeMoves, Zenon
  <2>. HIDE DEF zip, closed
  <2>2. [composed EXCEPT !.zip = zip, !.closed = closed].receipt = composed.receipt
    BY <1>1 DEF ComposedShape
  <2>. QED
    BY <1>1, <1>3, <2>1, <2>2 DEF Attested
<1>5. CASE WriteReceipt(p)
  <2>. DEFINE receipt == [zip |-> job[p].given[1], source |-> job[p].given[2], replay |-> job[p].outputs]
  <2>1. At(p, "receipt") /\ (composed' = NoComposed \/ composed' = [composed EXCEPT !.receipt = receipt])
    BY <1>5, ComposeMoves, Zenon
  <2>2. /\ Pair(job[p].outputs[3][2], job[p].outputs[3][3])
        /\ Capture[job[p].outputs[3][3]].mir.hash = Expected
    BY <1>1, <2>1 DEF Reading, ComposeReads, Composing, At
  <2>3. receipt.replay = job[p].outputs
    OBVIOUS
  <2>. HIDE DEF receipt
  <2>4. [composed EXCEPT !.receipt = receipt].receipt = receipt
    BY <1>1 DEF ComposedShape
  <2>. QED
    BY <1>3, <2>1, <2>2, <2>3, <2>4 DEF Attested
<1>6. CASE MakeOutput(p) \/ CopyFails(p) \/ CloseOutput(p)
  BY <1>3, <1>6, ComposeMoves, Zenon
<1>. QED
  BY <1>3, <1>4, <1>5, <1>6, ComposedKept DEF WritesComposed

LEMMA OracleKept ==
    ASSUME Shaped, Owned, Trusted, NEW p \in Runs, Step(p)
    PROVE  oracle' # NoFile => Oracled(oracle')
<1>. USE DEF Elsewhere
<1>1. (oracle # NoFile => Oracled(oracle)) /\ Reading(p, job[p])
  BY DEF Trusted
<1>2. CASE Save(p)
  <2>1. At(p, "save") /\ oracle' = <<job[p].b, job[p].p>>
    BY <1>2, CatalogueMoves
  <2>2. job[p].b \in Captures /\ job[p].p \in Captures /\ Oracle[<<job[p].b, job[p].p>>] # Refused
    BY <1>1, <2>1 DEF Reading, RecoverReads, At
  <2>3. <<job[p].b, job[p].p>> \in Pairs
    BY <2>2 DEF Pairs
  <2>4. Oracled(oracle')
    BY <2>1, <2>2, <2>3, Zenon DEF Oracled
  <2>. QED
    BY <2>4
<1>3. CASE oracle' = oracle
  BY <1>1, <1>3
<1>4. CASE Writes(p)
  BY <1>3, <1>4, Writing
<1>5. CASE StartBuild(p) \/ StartCompose(p) \/ StartRecover(p)
  BY <1>3, <1>5, Starting DEF StartBuild, StartCompose, StartRecover
<1>6. CASE ReadNoMir(p) \/ ReadPublished(p) \/ Diff(p)
  BY <1>3, <1>6, BuildMoves
<1>7. CASE ReadRecords(p) \/ VerifyStages(p) \/ SafeOutputRoot(p) \/ HashArchive(p) \/ OpenArchive(p)
  BY <1>3, <1>7, ComposeMoves, Zenon
<1>8. CASE MakeOutput(p) \/ CopyFails(p) \/ CloseOutput(p) \/ WriteReceipt(p)
  BY <1>3, <1>8, ComposeMoves, Zenon
<1>9. CASE CopyMember(p)
  BY <1>3, <1>9, ComposeMoves, Zenon
<1>10. CASE ReadBase(p) \/ ReadOther(p) \/ Recover(p)
  BY <1>3, <1>10, CatalogueMoves
<1>11. CASE StartCompare(p) \/ ReadOracle(p) \/ ReadBaseline(p) \/ ReadCandidate(p)
  BY <1>3, <1>11, CatalogueMoves
<1>12. CASE Judge(p)
  BY <1>3, <1>12, CatalogueMoves
<1>13. CASE Crash(p)
  BY <1>3, <1>13, CrashMoves
<1>. QED
  BY <1>2, <1>4, <1>5, <1>6, <1>7, <1>8, <1>9, <1>10, <1>11, <1>12, <1>13
     DEF Step, Build, Compose, Catalogued, Writes

LEMMA TrustedInit == Init => Trusted
<1>. SUFFICES ASSUME Init PROVE Trusted
  OBVIOUS
<1>1. \A p \in Runs : Reading(p, job[p])
  BY DEF Init, Idle, Reading, BuildReads, ComposeReads, RecoverReads, CompareReads, Building, Composing, Comparing
<1>2. Recorded(replay.files)
  BY NothingRecorded DEF Init
<1>3. composed.receipt = NoFile /\ oracle = NoFile
  BY DEF Init, NoComposed
<1>. QED
  BY <1>1, <1>2, <1>3 DEF Trusted, Recorded

LEMMA TrustedKept ==
    ASSUME Shaped, Owned, Trusted, [Next]_vars
    PROVE  Trusted'
<1>1. CASE UNCHANGED vars
  BY <1>1 DEF vars, Trusted
<1>2. CASE World
  <2>1. UNCHANGED <<job, composed, oracle>> /\ Recorded(replay.files) /\ ReplayShape(replay)
    BY <1>2, Zenon DEF World, Recapture, ReplaceArchive, Damage, Trusted, Recorded, Shaped
  <2>2. CASE replay' = replay
    BY <2>1, <2>2 DEF Trusted
  <2>3. CASE Damage
    <3>1. PICK f, content, d : content \in {Junk, NoFile} /\ replay' = Spoilt(replay, f, content, d)
      BY <2>3, DamageMoves
    <3>2. \A g \in ReplayFiles : replay'.files[g] = IF g = f THEN content ELSE replay.files[g]
      BY <2>1, <3>1, Damaged
    <3>3. ReceiptFile \in ReplayFiles /\ InventoryFile \in ReplayFiles
      BY DEF ReplayFiles
    <3>4. Genuine(replay'.files[ReceiptFile], "receipt") => replay'.files[ReceiptFile] = replay.files[ReceiptFile]
      BY <3>1, <3>2, <3>3, FilesDiffer
    <3>5. Genuine(replay'.files[InventoryFile], "inventory") =>
            replay'.files[InventoryFile] = replay.files[InventoryFile]
      BY <3>1, <3>2, <3>3, FilesDiffer
    <3>6. Recorded(replay'.files)
      BY <2>1, <3>4, <3>5 DEF Recorded
    <3>. QED
      BY <2>1, <3>6 DEF Trusted, Recorded
  <2>. QED
    BY <1>2, <2>2, <2>3, Zenon DEF World, Recapture, ReplaceArchive
<1>3. ASSUME NEW p \in Runs, Step(p) PROVE Trusted'
  <2>1. Recorded(replay'.files) /\ Attested(composed') /\ (oracle' # NoFile => Oracled(oracle'))
    BY <1>3, RecordedKept, AttestedKept, OracleKept
  <2>2. Reading(p, job'[p]) /\ Others(p)
    BY <1>3, StepReads, Writing, Quietly
  <2>3. \A q \in Runs : Reading(q, job'[q])
    BY <2>2 DEF Others, Trusted
  <2>. QED
    BY <2>1, <2>3 DEF Trusted, Recorded, Attested
<1>. QED
  BY <1>1, <1>2, <1>3 DEF Next

LEMMA TrustedAlways == Spec => [](Shaped /\ Owned /\ Trusted)
<1>1. Init => Shaped /\ Owned /\ Trusted
  BY ShapedInit, TrustedInit
<1>2. Shaped /\ Owned /\ Trusted /\ [Next]_vars => Shaped' /\ Owned' /\ Trusted'
  BY OwnedKept, TrustedKept, Zenon
<1>. QED
  BY <1>1, <1>2, PTL DEF Spec

LEMMA OracleOf ==
    ASSUME NEW o, Oracled(o)
    PROVE  LET b == Capture[o[1]]
               p == Capture[o[2]]
           IN  /\ Recoverable(b, p, Published)
               /\ DiffDomain(b.raw, p.raw) # Refused /\ DiffDomain(b.settings, p.settings) # Refused
               /\ Oracle[o] = RecoverProfile(o[1], b, p, Published)
<1>1. o \in Pairs /\ Oracle[o] # Refused
  BY DEF Oracled
<1>2. Oracle[o] = RecoverInventory(o[1], Capture[o[1]], Capture[o[2]], Target, Published)
  BY <1>1 DEF Oracle
<1>3. Oracle[o] = RecoverProfile(o[1], Capture[o[1]], Capture[o[2]], Published)
  BY <1>1, <1>2 DEF RecoverInventory
<1>. QED
  BY <1>1, <1>3, Zenon DEF RecoverProfile

(* A verdict was reached over the oracle's own baseline.                       *)
LEMMA JudgedBy ==
    ASSUME NEW j, Judged(j)
    PROVE  LET b == Capture[j.b]
               c == Capture[j.c]
               profile == Oracle[j.outputs]
               data == OverlayDomain(b.raw, Intended(profile, "data"))
               settings == OverlayDomain(b.settings, Intended(profile, "settings"))
           IN  /\ j.b = j.outputs[1]
               /\ CatalogueReads(c, TRUE) /\ SameInputs(b, c) /\ ReviewValid(j.given[1])
               /\ data # Refused /\ settings # Refused
               /\ j.outcome = [data     |-> Differences(ApplyReviewed(data, j.given[1], "data"), c.raw),
                               settings |-> Differences(ApplyReviewed(settings, j.given[1], "settings"), c.settings)]
<1>. DEFINE b == Capture[j.b]
            c == Capture[j.c]
            profile == Oracle[j.outputs]
            data == OverlayDomain(b.raw, Intended(profile, "data"))
            settings == OverlayDomain(b.settings, Intended(profile, "settings"))
            outcome == [data     |-> Differences(ApplyReviewed(data, j.given[1], "data"), c.raw),
                        settings |-> Differences(ApplyReviewed(settings, j.given[1], "settings"), c.settings)]
<1>1. CompareCandidate(profile, j.b, b, c, j.given[1], j.given[2]) # Refused
      /\ j.outcome = CompareCandidate(profile, j.b, b, c, j.given[1], j.given[2])
  BY DEF Judged
<1>2. /\ CatalogueReads(c, TRUE) /\ Receipt(j.b, b) = profile.receipt /\ SameInputs(b, c)
      /\ data # Refused /\ settings # Refused /\ ReviewValid(j.given[1])
      /\ j.outcome = outcome
  <2>. HIDE DEF b, c, profile
  <2>. QED
    BY <1>1 DEF CompareCandidate
<1>3. profile.receipt = Receipt(j.outputs[1], Capture[j.outputs[1]])
  <2>1. ASSUME NEW name, NEW d, NEW e, NEW version, NEW r, r # Refused, r = RecoverProfile(name, d, e, version)
        PROVE  r.receipt = Receipt(name, d)
    BY <2>1 DEF RecoverProfile
  <2>2. Oracled(j.outputs) /\ profile # Refused
    BY DEF Judged, Oracled
  <2>3. profile = RecoverProfile(j.outputs[1], Capture[j.outputs[1]], Capture[j.outputs[2]], Published)
    BY <2>2, OracleOf
  <2>. HIDE DEF profile
  <2>. QED
    BY <2>1, <2>2, <2>3
<1>4. j.b = j.outputs[1]
  BY <1>2, <1>3 DEF Receipt
<1>. QED
  BY <1>2, <1>4

(* Whatever is captured again, changed or interrupted meanwhile: a verdict is  *)
(* on a candidate that ran in the same game as the oracle's captures, and a    *)
(* composition is of captures that ran in the same game, with the archive the  *)
(* published one ran.                                                          *)
THEOREM ComparedAreAlike == Spec => []LikeWithLike
<1>1. ASSUME Shaped, Trusted PROVE LikeWithLike
  <2>. DEFINE alike(c, d) == /\ c.engine = d.engine /\ WithoutMir(c.loaded) = WithoutMir(d.loaded)
                             /\ ToSet(WithoutMir(c.selected)) = ToSet(WithoutMir(d.selected))
                             /\ c.completed /\ d.completed
  <2>1. ASSUME NEW k \in Comparers, job[k].pc = "done"
        PROVE  alike(Capture[job[k].outputs[2]], Capture[job[k].c])
    <3>1. Judged(job[k])
      BY <1>1, <2>1 DEF Trusted, Reading, Runs
    <3>2. /\ job[k].b = job[k].outputs[1] /\ CatalogueReads(Capture[job[k].c], TRUE)
          /\ SameInputs(Capture[job[k].b], Capture[job[k].c])
      BY <3>1, JudgedBy
    <3>3. Recoverable(Capture[job[k].outputs[1]], Capture[job[k].outputs[2]], Published)
      BY <3>1, OracleOf DEF Judged
    <3>. QED
      BY <3>2, <3>3, Zenon DEF Recoverable, SameInputs, CatalogueReads
  <2>2. ASSUME composed.receipt # NoFile
        PROVE  LET pair == composed.receipt.replay[3]
               IN  alike(Capture[pair[2]], Capture[pair[3]]) /\ Capture[pair[3]].mir.hash = Expected
    BY <1>1, <2>2, Zenon DEF Trusted, Pair, SameInputs, ReplayReads
  <2>. QED
    BY <2>1, <2>2, Zenon DEF LikeWithLike
<1>. QED
  BY <1>1, TrustedAlways, PTL
-----------------------------------------------------------------------------
(* A composition.  While it is made, its root holds the members written so     *)
(* far, each as the records or the opened archive have it; and the archive     *)
(* that is opened is the expected one for as long as the path still leads to   *)
(* that.                                                                       *)

Order(j) == CopyOrder(j.handle)
Copied(j, n, c) ==
    /\ DOMAIN c.zip = {Order(j)[i] : i \in 1..(n - 1)}
    /\ \A m \in DOMAIN c.zip : c.zip[m] = IF m \in Stages THEN j.outputs[2][m] ELSE <<j.handle, m>>

Opened(j, a) ==
    j.pc \in {"make"} \cup Composing => j.handle \in Archives /\ (a = Expected => j.handle = Expected)
Composes(p, j, c) ==
    /\ j.pc \in Composing => c.made /\ c.owner = p /\ c.receipt = NoFile
    /\ j.pc = "copy" => j.n \in 1..Len(Order(j)) /\ Copied(j, j.n, c)
    /\ j.pc \in {"close", "receipt"} => c.closed /\ Copied(j, Len(Order(j)) + 1, c)
    /\ j.pc = "receipt" => j.given[1] = c.zip /\ (j.given[2] = Expected => j.handle = Expected)

Exact(c) ==
    c.receipt # NoFile =>
        /\ c.closed /\ c.receipt.zip = c.zip
        /\ \A f \in Stages : c.zip[f] = c.receipt.replay[2][f]
        /\ c.receipt.source = Expected =>
              /\ DOMAIN c.zip = Stages \cup ToSet(Relative(Expected))
              /\ \A m \in DOMAIN c.zip \ Stages : c.zip[m] = <<Expected, m>>

Composition ==
    /\ archive \in Archives
    /\ \A p \in Runs : Opened(job[p], archive)
    /\ ~raced => Exact(composed) /\ \A p \in Runs : Composes(p, job[p], composed)

LEMMA JoinedSet ==
    ASSUME NEW S, NEW s \in Seq(S), NEW t \in Seq(S)
    PROVE  s \o t \in Seq(S) /\ ToSet(s \o t) = ToSet(s) \cup ToSet(t)
<1>1. /\ s \o t \in Seq(S) /\ Len(s \o t) = Len(s) + Len(t)
      /\ \A i \in 1..(Len(s) + Len(t)) : (s \o t)[i] = IF i <= Len(s) THEN s[i] ELSE t[i - Len(s)]
  BY ConcatProperties
<1>2. DOMAIN s = 1..Len(s) /\ DOMAIN t = 1..Len(t) /\ DOMAIN (s \o t) = 1..(Len(s) + Len(t))
  BY <1>1
<1>3. \A i \in DOMAIN t : Len(s) + i \in DOMAIN (s \o t) /\ (s \o t)[Len(s) + i] = t[i]
  BY <1>1, <1>2
<1>4. \A i \in DOMAIN s : i \in DOMAIN (s \o t) /\ (s \o t)[i] = s[i]
  BY <1>1, <1>2
<1>5. \A i \in DOMAIN (s \o t) : (s \o t)[i] \in ToSet(s) \cup ToSet(t)
  BY <1>1, <1>2 DEF ToSet
<1>6. ToSet(s) \subseteq ToSet(s \o t)
  BY <1>4 DEF ToSet
<1>7. ToSet(t) \subseteq ToSet(s \o t)
  BY <1>2, <1>3 DEF ToSet
<1>8. ToSet(s \o t) \subseteq ToSet(s) \cup ToSet(t)
  BY <1>5 DEF ToSet
<1>. QED
  BY <1>1, <1>6, <1>7, <1>8

(* What is written: the archive's members, and the stages it lacks.            *)
LEMMA OrderOf ==
    ASSUME NEW a \in Archives
    PROVE  /\ Len(CopyOrder(a)) \in Nat /\ Len(CopyOrder(a)) >= 1
           /\ {CopyOrder(a)[i] : i \in 1..Len(CopyOrder(a))} = Stages \cup ToSet(Relative(a))
<1>. DEFINE S == Stages \cup ToSet(Relative(a))
            r == Relative(a)
            u == Lacking(a, Quiet)
            v == Lacking(a, Data)
            w == Lacking(a, Settings)
<1>1. r \in Seq(S)
  <2>1. Zipped[a].members \in Seq({Zipped[a].members[i] : i \in DOMAIN Zipped[a].members})
    BY ArchivesAssumption
  <2>2. PICK n \in Nat : DOMAIN Zipped[a].members = 1..n
    BY <2>1
  <2>3. r = [i \in 1..n |-> r[i]] /\ \A i \in 1..n : r[i] \in S
    BY <2>2 DEF Relative, ToSet
  <2>. HIDE DEF r, S
  <2>. QED
    BY <2>2, <2>3
<1>2. \A f \in Stages : /\ Lacking(a, f) \in Seq(S) /\ ToSet(Lacking(a, f)) \subseteq {f}
                        /\ f \in ToSet(r) \cup ToSet(Lacking(a, f))
  <2>1. ASSUME NEW f \in Stages
        PROVE  /\ Lacking(a, f) \in Seq(S) /\ ToSet(Lacking(a, f)) \subseteq {f}
               /\ f \in ToSet(r) \cup ToSet(Lacking(a, f))
    <3>1. CASE f \in ToSet(r)
      <4>1. Lacking(a, f) = <<>>
        BY <3>1 DEF Lacking
      <4>. HIDE DEF S, r
      <4>. QED
        BY <3>1, <4>1 DEF ToSet
    <3>2. CASE f \notin ToSet(r)
      <4>1. Lacking(a, f) = <<f>> /\ f \in S
        BY <3>2 DEF Lacking
      <4>2. ToSet(<<f>>) = {f}
        BY DEF ToSet
      <4>. HIDE DEF S, r
      <4>. QED
        BY <4>1, <4>2
    <3>. QED
      BY <3>1, <3>2
  <2>. QED
    BY <2>1
<1>3. Quiet \in Stages /\ Data \in Stages /\ Settings \in Stages
  BY DEF Stages
<1>4. Stages = {Quiet, Data, Settings}
  BY DEF Stages
<1>5. S = Stages \cup ToSet(r)
  OBVIOUS
<1>. HIDE DEF S, r
<1>6. u \in Seq(S) /\ v \in Seq(S) /\ w \in Seq(S)
  BY <1>2, <1>3
<1>7. /\ ToSet(u) \subseteq {Quiet} /\ ToSet(v) \subseteq {Data} /\ ToSet(w) \subseteq {Settings}
      /\ Quiet \in ToSet(r) \cup ToSet(u) /\ Data \in ToSet(r) \cup ToSet(v) /\ Settings \in ToSet(r) \cup ToSet(w)
  BY <1>2, <1>3
<1>. HIDE DEF u, v, w
<1>9. PICK x : x = r \o u
  OBVIOUS
<1>10. PICK y : y = x \o v
  OBVIOUS
<1>8. CopyOrder(a) = y \o w
  BY <1>9, <1>10, Zenon DEF CopyOrder, r, u, v, w
<1>15. x \in Seq(S) /\ ToSet(x) = ToSet(r) \cup ToSet(u)
  BY <1>1, <1>6, <1>9, JoinedSet, ZenonT(40)
<1>16. y \in Seq(S) /\ ToSet(y) = ToSet(r) \cup ToSet(u) \cup ToSet(v)
  <2>1. y \in Seq(S) /\ ToSet(y) = ToSet(x) \cup ToSet(v)
    <3>1. x \in Seq(S) /\ v \in Seq(S)
      BY <1>6, <1>15
    <3>. QED
      BY <1>10, <3>1, JoinedSet, Zenon
  <2>. QED
    BY <1>15, <2>1, Zenon
<1>11. y \o w \in Seq(S) /\ ToSet(y \o w) = ToSet(r) \cup ToSet(u) \cup ToSet(v) \cup ToSet(w)
  <2>1. y \o w \in Seq(S) /\ ToSet(y \o w) = ToSet(y) \cup ToSet(w)
    <3>1. y \in Seq(S) /\ w \in Seq(S)
      BY <1>6, <1>16
    <3>. QED
      BY <3>1, JoinedSet, Zenon
  <2>. QED
    BY <1>16, <2>1, Zenon
<1>12. CopyOrder(a) \in Seq(S) /\ ToSet(CopyOrder(a)) = Stages \cup ToSet(r)
  BY <1>4, <1>7, <1>8, <1>11
<1>13. DOMAIN CopyOrder(a) = 1..Len(CopyOrder(a)) /\ Len(CopyOrder(a)) \in Nat
  BY <1>12
<1>14. Len(CopyOrder(a)) >= 1
  BY <1>3, <1>12, <1>13 DEF ToSet
<1>. QED
  BY <1>12, <1>13, <1>14 DEF ToSet, r

(* A step that does not write to the root of a composition does not come to    *)
(* where one is written, and only the opening of the archive to the door.      *)
LEMMA Apart ==
    ASSUME Shaped, Owned, NEW p \in Runs, Step(p), ~WritesComposed(p)
    PROVE  /\ raced' = raced /\ Others(p) /\ job'[p].pc \notin Composing
           /\ job'[p].pc = "make" => job'[p].handle = archive
<1>. USE DEF To, SetTo, Stops, Composing, Elsewhere
<1>1. CASE StartBuild(p) \/ StartCompose(p) \/ StartRecover(p)
  BY <1>1, Starting DEF StartBuild, StartCompose, StartRecover
<1>2. CASE ReadNoMir(p) \/ ReadPublished(p) \/ Diff(p)
  BY <1>2, BuildMoves
<1>3. CASE MakeReplay(p) \/ WriteInventory(p) \/ WriteFails(p)
  BY <1>3, BuildMoves
<1>4. CASE WriteStage(p)
  BY <1>4, BuildMoves
<1>5. CASE Record(p)
  BY <1>5, BuildMoves
<1>6. CASE ReadRecords(p) \/ VerifyStages(p) \/ SafeOutputRoot(p) \/ HashArchive(p)
  BY <1>6, ComposeMoves, Zenon
<1>7. CASE OpenArchive(p)
  BY <1>7, ComposeMoves, Zenon
<1>8. CASE ReadBase(p) \/ ReadOther(p) \/ Recover(p) \/ Save(p)
  BY <1>8, CatalogueMoves
<1>9. CASE StartCompare(p) \/ ReadOracle(p) \/ ReadBaseline(p) \/ ReadCandidate(p)
  BY <1>9, CatalogueMoves
<1>10. CASE Judge(p)
  BY <1>10, CatalogueMoves
<1>11. CASE Crash(p)
  BY <1>11, CrashMoves
<1>. QED
  BY <1>1, <1>2, <1>3, <1>4, <1>5, <1>6, <1>7, <1>8, <1>9, <1>10, <1>11
     DEF Step, Build, Compose, Catalogued, WritesComposed

LEMMA ReceiptSet ==
    ASSUME NEW c, ComposedShape(c), NEW receipt, NEW d, d = [c EXCEPT !.receipt = receipt]
    PROVE  d.zip = c.zip /\ d.closed = c.closed /\ d.receipt = receipt
  BY DEF ComposedShape

LEMMA Vacuous == ASSUME NEW q, NEW j, j.pc \notin Composing, NEW c PROVE Composes(q, j, c)
  BY DEF Composes, Composing

LEMMA Alone ==
    ASSUME Composition, ~raced, NEW p \in Runs, job[p].pc \in Composing, NEW q \in Runs, q # p
    PROVE  job[q].pc \notin Composing
  BY DEF Composition, Composes

LEMMA OpenedKept ==
    ASSUME Shaped, Owned, Composition, NEW p \in Runs, Step(p)
    PROVE  archive' = archive /\ \A q \in Runs : Opened(job'[q], archive)
<1>1. archive' = archive
  BY ComposedKept
<1>2. Opened(job[p], archive) /\ archive \in Archives
  BY DEF Composition
<1>3. Others(p)
  BY Writing, Quietly
<1>4. ASSUME job'[p].pc \in {"make"} \cup Composing, job'[p].handle = job[p].handle,
             job[p].pc \in {"make"} \cup Composing
      PROVE  Opened(job'[p], archive)
  BY <1>2, <1>4 DEF Opened
<1>5. ASSUME job'[p].pc \notin {"make"} \cup Composing PROVE Opened(job'[p], archive)
  BY <1>5 DEF Opened
<1>6. Opened(job'[p], archive)
  <2>. USE DEF To, SetTo, Stops, At, Composing
  <2>1. CASE ~WritesComposed(p)
    BY <1>2, <2>1, Apart, Zenon DEF Opened
  <2>2. CASE MakeOutput(p)
    BY <1>4, <1>5, <2>2, ComposeMoves, Zenon
  <2>3. CASE CopyMember(p)
    <3>1. At(p, "copy") /\ (Stops(p, "failed") \/ \E n : To(p, "n", "close", n) \/ To(p, "n", "copy", n))
      BY <2>3, ComposeMoves, Zenon
    <3>. QED
      BY <1>4, <1>5, <3>1, Zenon
  <2>4. CASE CopyFails(p)
    BY <1>5, <2>4, ComposeMoves, Zenon
  <2>5. CASE CloseOutput(p)
    BY <1>4, <1>5, <2>5, ComposeMoves, Zenon
  <2>6. CASE WriteReceipt(p)
    BY <1>5, <2>6, ComposeMoves, Zenon
  <2>. QED
    BY <2>1, <2>2, <2>3, <2>4, <2>5, <2>6 DEF WritesComposed
<1>. QED
  BY <1>1, <1>3, <1>6 DEF Others, Composition

(* One member more is written, or the last.                                    *)
LEMMA MemberCopied ==
    ASSUME Shaped, Composition, ~raced, NEW p \in Runs, CopyMember(p), ~Stops(p, "failed")
    PROVE  Composes(p, job'[p], composed') /\ composed'.receipt = NoFile
<1>. DEFINE order == CopyOrder(job[p].handle)
            n == job[p].n
            member == order[n]
            content == Copies(p, member)
            zip == Beside([m \in {member} |-> content], composed.zip)
            closed == n = Len(order)
<1>1. At(p, "copy") /\ Composes(p, job[p], composed) /\ Opened(job[p], archive) /\ ComposedShape(composed)
  BY ComposeMoves, Zenon DEF Composition, Shaped
<1>2. /\ composed.made /\ composed.owner = p /\ composed.receipt = NoFile
      /\ n \in 1..Len(order) /\ Copied(job[p], n, composed)
  BY <1>1 DEF Composes, Composing, At, Order
<1>3. Len(order) \in Nat
  BY <1>1, OrderOf DEF Opened, Composing, At
<1>4. /\ content # Refused
      /\ To(p, "n", IF n = Len(order) THEN "close" ELSE "copy", n + 1)
      /\ composed' = [composed EXCEPT !.zip = zip, !.closed = closed]
  <2>1. \/ Stops(p, "failed") /\ composed' = NoComposed
        \/ /\ content # Refused
           /\ To(p, "n", IF n = Len(order) THEN "close" ELSE "copy", n + 1)
           /\ composed' = IF composed.owner # p THEN composed
                          ELSE [composed EXCEPT !.zip = Beside([m \in {member} |-> content], @),
                                                !.closed = n = Len(order)]
    BY ComposeMoves, Zenon
  <2>2. [composed EXCEPT !.zip = Beside([m \in {member} |-> content], @), !.closed = n = Len(order)]
        = [composed EXCEPT !.zip = zip, !.closed = closed]
    BY Zenon
  <2>. QED
    BY <1>2, <2>1, <2>2, Zenon
<1>5. content = IF member \in Stages THEN job[p].outputs[2][member] ELSE <<job[p].handle, member>>
  BY <1>4, Zenon DEF Copies, RecordedStage
<1>. HIDE DEF content
<1>6. DOMAIN zip = {member} \cup DOMAIN composed.zip
      /\ \A m \in DOMAIN zip : zip[m] = IF m = member THEN content ELSE composed.zip[m]
  BY DEF Beside
<1>7. {order[i] : i \in 1..n} = {member} \cup {order[i] : i \in 1..(n - 1)}
  BY <1>2, <1>3
<1>. HIDE DEF zip, closed
<1>8. /\ composed'.zip = zip /\ composed'.closed = closed /\ composed'.made /\ composed'.owner = p
      /\ composed'.receipt = NoFile
  <2>1. PICK e, d, z, cl : e = composed /\ d = composed' /\ z = zip /\ cl = closed
    OBVIOUS
  <2>2. d = [e EXCEPT !.zip = z, !.closed = cl] /\ ComposedShape(e)
    BY <1>1, <1>4, <2>1, Zenon
  <2>3. d.zip = z /\ d.closed = cl /\ d.made = e.made /\ d.owner = e.owner /\ d.receipt = e.receipt
    BY <2>2 DEF ComposedShape
  <2>. QED
    BY <1>2, <2>1, <2>3
<1>9. /\ job'[p].handle = job[p].handle /\ job'[p].outputs = job[p].outputs /\ job'[p].n = n + 1
      /\ job'[p].pc = IF n = Len(order) THEN "close" ELSE "copy"
  BY <1>4 DEF To, SetTo
<1>10. DOMAIN composed.zip = {order[i] : i \in 1..(n - 1)}
       /\ \A m \in DOMAIN composed.zip :
             composed.zip[m] = IF m \in Stages THEN job[p].outputs[2][m] ELSE <<job[p].handle, m>>
  BY <1>2 DEF Copied, Order
<1>. HIDE DEF member
<1>11. DOMAIN zip = {order[i] : i \in 1..n}
  BY <1>6, <1>7, <1>10
<1>12. \A m \in DOMAIN zip : zip[m] = IF m \in Stages THEN job[p].outputs[2][m] ELSE <<job[p].handle, m>>
  BY <1>5, <1>6, <1>10
<1>13. n + 1 - 1 = n
  BY <1>2, <1>3
<1>14. Order(job'[p]) = order
  BY <1>9 DEF Order
<1>. HIDE DEF order, n
<1>15. Copied(job'[p], n + 1, composed')
  <2>2. \A m \in DOMAIN composed'.zip :
           composed'.zip[m] = IF m \in Stages THEN job'[p].outputs[2][m] ELSE <<job'[p].handle, m>>
    BY <1>8, <1>9, <1>12
  <2>. QED
    <3>1. ASSUME NEW j, NEW k, NEW c, DOMAIN c.zip = {Order(j)[i] : i \in 1..(k - 1)},
                 \A m \in DOMAIN c.zip : c.zip[m] = IF m \in Stages THEN j.outputs[2][m] ELSE <<j.handle, m>>
          PROVE  Copied(j, k, c)
      BY <3>1 DEF Copied
    <3>2. PICK j, k, c : j = job'[p] /\ k = n + 1 /\ c = composed'
      OBVIOUS
    <3>3. DOMAIN c.zip = {Order(j)[i] : i \in 1..(k - 1)}
      <4>1. PICK o : o = Order(j)
        OBVIOUS
      <4>2. o = order /\ c.zip = zip
        BY <1>8, <1>14, <3>2, <4>1, Zenon
      <4>4. k - 1 = n
        BY <1>2, <1>3, <3>2
      <4>5. DOMAIN c.zip = {order[i] : i \in 1..n}
        BY <1>11, <4>2, Zenon
      <4>3. DOMAIN c.zip = {o[i] : i \in 1..(k - 1)}
        BY <4>2, <4>4, <4>5, Zenon
      <4>. QED
        BY <4>1, <4>3, Zenon
    <3>5. \A m \in DOMAIN c.zip : c.zip[m] = IF m \in Stages THEN j.outputs[2][m] ELSE <<j.handle, m>>
      BY <2>2, <3>2
    <3>4. Copied(j, k, c)
      BY <3>1, <3>3, <3>5
    <3>. QED
      BY <3>2, <3>4, Zenon
<1>16. CASE n = Len(order)
  BY <1>8, <1>9, <1>14, <1>15, <1>16 DEF Composes, Composing, closed
<1>17. CASE n # Len(order)
  <2>1. job'[p].pc = "copy" /\ n + 1 \in 1..Len(order)
    BY <1>2, <1>3, <1>9, <1>17 DEF n, order
  <2>. QED
    BY <1>8, <1>9, <1>14, <1>15, <2>1 DEF Composes, Composing
<1>. QED
  BY <1>8, <1>16, <1>17

LEMMA CompositionKept ==
    ASSUME Shaped, Owned, Composition, NEW p \in Runs, Step(p), ~raced'
    PROVE  Exact(composed') /\ \A q \in Runs : Composes(q, job'[q], composed')
<1>. USE DEF To, SetTo, Stops
<1>1. Others(p) /\ job[p] = job[p]
  BY Writing, Quietly
<1>2. ~raced
  <2>1. CASE WritesComposed(p)
    <3>1. CASE MakeOutput(p)
      BY <3>1, ComposeMoves, Zenon
    <3>2. CASE CopyMember(p)
      BY <3>2, ComposeMoves, Zenon
    <3>3. CASE CopyFails(p) \/ CloseOutput(p) \/ WriteReceipt(p)
      BY <3>3, ComposeMoves, Zenon
    <3>. QED
      BY <2>1, <3>1, <3>2, <3>3, Zenon DEF WritesComposed
  <2>. QED
    BY <2>1, Apart
<1>3. Exact(composed) /\ \A q \in Runs : Composes(q, job[q], composed)
  BY <1>2 DEF Composition
<1>4. Exact(NoComposed) /\ Exact(NewComposed(p))
  BY NewShapes DEF Exact, NoComposed
<1>5. ComposedShape(composed) /\ Opened(job[p], archive)
  BY DEF Shaped, Composition
<1>6. CASE ~WritesComposed(p)
  <2>1. composed' = composed /\ job'[p].pc \notin Composing
    BY <1>6, Apart, ComposedKept
  <2>. QED
    BY <1>1, <1>3, <2>1, Vacuous DEF Others
<1>7. ASSUME job[p].pc \in Composing, NEW q \in Runs, q # p
      PROVE  Composes(q, job'[q], composed')
  BY <1>1, <1>2, <1>7, Alone, Vacuous DEF Others
<1>8. ASSUME job[p].pc \in Composing, Composes(p, job'[p], composed')
      PROVE  \A q \in Runs : Composes(q, job'[q], composed')
  BY <1>7, <1>8
<1>9. ASSUME job[p].pc \in Composing, Stops(p, "failed") \/ Stops(p, "done")
      PROVE  \A q \in Runs : Composes(q, job'[q], composed')
  BY <1>8, <1>9, Vacuous DEF Composing
<1>10. CASE MakeOutput(p)
  <2>1. /\ At(p, "make") /\ ~composed.made /\ To(p, "n", "copy", 1) /\ composed' = NewComposed(p)
    BY <1>10, ComposeMoves, Zenon
  <2>2. \A q \in Runs : job[q].pc \notin Composing
    BY <1>3, <2>1 DEF Composes
  <2>3. \A q \in Runs : q # p => Composes(q, job'[q], composed')
    BY <1>1, <2>2, Vacuous DEF Others
  <2>4. Len(Order(job'[p])) \in Nat /\ Len(Order(job'[p])) >= 1
    BY <1>5, <2>1, OrderOf DEF Opened, At, Order
  <2>5. Copied(job'[p], 1, composed')
    <3>1. composed'.zip = <<>>
      BY <2>1, NewShapes
    <3>2. DOMAIN composed'.zip = {}
      BY <3>1
    <3>. QED
      BY <3>2 DEF Copied
  <2>6. job'[p].pc = "copy" /\ job'[p].n = 1
    BY <2>1
  <2>7. Composes(p, job'[p], composed')
    <3>1. composed'.made /\ composed'.owner = p /\ composed'.receipt = NoFile
      BY <2>1, NewShapes
    <3>2. 1 \in 1..Len(Order(job'[p]))
      BY <2>4
    <3>. QED
      BY <2>5, <2>6, <3>1, <3>2 DEF Composes
  <2>. QED
    BY <1>4, <2>1, <2>3, <2>7, Zenon
<1>11. CASE CopyMember(p)
  <2>1. At(p, "copy") /\ (Stops(p, "failed") => composed' = NoComposed)
    <3>1. /\ At(p, "copy")
          /\ \/ Stops(p, "failed") /\ composed' = NoComposed
             \/ \E n : \E pc \in {"copy", "close"} : To(p, "n", pc, n)
      BY <1>11, ComposeMoves, Zenon
    <3>. QED
      BY <3>1
  <2>2. job[p].pc \in Composing
    BY <2>1 DEF At, Composing
  <2>3. CASE Stops(p, "failed")
    BY <1>4, <1>9, <2>1, <2>2, <2>3
  <2>4. CASE ~Stops(p, "failed")
    <3>1. Composes(p, job'[p], composed') /\ composed'.receipt = NoFile
      BY <1>2, <1>11, <2>4, MemberCopied, Zenon
    <3>. QED
      BY <1>8, <2>2, <3>1 DEF Exact
  <2>. QED
    BY <2>3, <2>4
<1>12. CASE CopyFails(p)
  BY <1>4, <1>9, <1>12, ComposeMoves, Zenon DEF Composing
<1>13. CASE CloseOutput(p)
  <2>1. job[p].pc \in Composing /\ At(p, "close")
    BY <1>13, ComposeMoves, Zenon DEF At, Composing
  <2>2. CASE Stops(p, "failed") /\ composed' = NoComposed
    BY <1>4, <1>9, <2>1, <2>2
  <2>3. CASE composed' = composed /\ To(p, "given", "receipt", <<composed.zip, archive>>)
    <3>1. /\ job'[p].pc = "receipt" /\ job'[p].handle = job[p].handle /\ job'[p].outputs = job[p].outputs
          /\ job'[p].given[1] = composed.zip /\ job'[p].given[2] = archive
      BY <2>3
    <3>2. /\ composed.made /\ composed.owner = p /\ composed.receipt = NoFile
          /\ composed.closed /\ Copied(job[p], Len(Order(job[p])) + 1, composed)
      BY <1>3, <2>1 DEF Composes, Composing, At
    <3>3. archive = Expected => job[p].handle = Expected
      BY <1>5, <2>1 DEF Opened
    <3>4. Copied(job'[p], Len(Order(job'[p])) + 1, composed)
      BY <3>1, <3>2 DEF Copied, Order
    <3>5. Composes(p, job'[p], composed')
      BY <2>3, <3>1, <3>2, <3>3, <3>4 DEF Composes
    <3>. QED
      BY <1>3, <1>8, <2>1, <2>3, <3>5
  <2>. QED
    BY <1>13, <2>2, <2>3, ComposeMoves, Zenon
<1>14. CASE WriteReceipt(p)
  <2>. DEFINE receipt == [zip |-> job[p].given[1], source |-> job[p].given[2], replay |-> job[p].outputs]
  <2>1. /\ At(p, "receipt") /\ job[p].pc \in Composing
        /\ \/ Stops(p, "failed") /\ composed' = NoComposed
           \/ Stops(p, "done") /\ composed' = [composed EXCEPT !.receipt = receipt]
    BY <1>14, ComposeMoves, Zenon DEF At, Composing
  <2>2. CASE Stops(p, "failed") /\ composed' = NoComposed
    BY <1>4, <1>9, <2>1, <2>2
  <2>3. CASE Stops(p, "done") /\ composed' = [composed EXCEPT !.receipt = receipt]
    <3>1. /\ composed.closed /\ Copied(job[p], Len(Order(job[p])) + 1, composed)
          /\ job[p].given[1] = composed.zip /\ (job[p].given[2] = Expected => job[p].handle = Expected)
      BY <1>3, <2>1 DEF Composes, At
    <3>2. receipt.zip = job[p].given[1] /\ receipt.source = job[p].given[2] /\ receipt.replay = job[p].outputs
      OBVIOUS
    <3>. HIDE DEF receipt
    <3>3. composed'.zip = composed.zip /\ composed'.closed = composed.closed /\ composed'.receipt = receipt
      <4>1. ASSUME NEW d, d = composed'
            PROVE  d.zip = composed.zip /\ d.closed = composed.closed /\ d.receipt = receipt
        <5>1. d = [composed EXCEPT !.receipt = receipt]
          BY <2>3, <4>1, Zenon
        <5>. QED
          BY <1>5, <5>1, ReceiptSet
      <4>. QED
        BY <4>1
    <3>4. job[p].handle \in Archives
      BY <1>5, <2>1 DEF Opened
    <3>5. Len(Order(job[p])) + 1 - 1 = Len(Order(job[p]))
      BY <3>4, OrderOf DEF Order
    <3>6. DOMAIN composed.zip = Stages \cup ToSet(Relative(job[p].handle))
      BY <3>1, <3>4, <3>5, OrderOf DEF Copied, Order
    <3>7. \A m \in DOMAIN composed.zip :
             composed.zip[m] = IF m \in Stages THEN job[p].outputs[2][m] ELSE <<job[p].handle, m>>
      BY <3>1 DEF Copied
    <3>8. Exact(composed')
      BY <3>1, <3>2, <3>3, <3>6, <3>7 DEF Exact
    <3>. QED
      BY <1>9, <2>1, <2>3, <3>8
  <2>. QED
    BY <2>1, <2>2, <2>3, Zenon
<1>. QED
  BY <1>6, <1>10, <1>11, <1>12, <1>13, <1>14 DEF WritesComposed

LEMMA CompositionInit == Init => Composition
<1>. SUFFICES ASSUME Init PROVE Composition
  OBVIOUS
<1>1. archive \in Archives /\ composed.receipt = NoFile
  BY ArchivesAssumption DEF Init, NoComposed
<1>2. \A p \in Runs : job[p].pc = "idle"
  BY DEF Init, Idle
<1>3. \A p \in Runs : Opened(job[p], archive) /\ Composes(p, job[p], composed)
  BY <1>2, Vacuous DEF Opened, Composing
<1>. QED
  BY <1>1, <1>3 DEF Composition, Exact

LEMMA CompositionStep ==
    ASSUME Shaped, Owned, Composition, [Next]_vars, [archive # Expected => UNCHANGED archive]_vars
    PROVE  Composition'
<1>1. CASE UNCHANGED vars
  BY <1>1 DEF vars, Composition
<1>2. CASE World
  <2>1. job' = job /\ composed' = composed /\ raced' = raced
    BY <1>2, Zenon DEF World, Recapture, ReplaceArchive, Damage
  <2>2. archive' \in Archives /\ (archive' = archive \/ archive' # Expected)
    <3>1. CASE ReplaceArchive
      <4>1. archive' \in Archives /\ archive' # archive
        BY <3>1 DEF ReplaceArchive
      <4>. QED
        BY <4>1 DEF vars
    <3>. QED
      BY <1>2, <3>1, Zenon DEF World, Recapture, Damage, Composition
  <2>3. \A p \in Runs : Opened(job'[p], archive')
    BY <2>1, <2>2 DEF Composition, Opened
  <2>. QED
    BY <2>1, <2>2, <2>3, Zenon DEF Composition
<1>3. ASSUME NEW p \in Runs, Step(p) PROVE Composition'
  BY <1>3, OpenedKept, CompositionKept DEF Composition
<1>. QED
  BY <1>1, <1>2, <1>3 DEF Next

(* However the stages and the archive change while it is made and however runs *)
(* stop, a composition with a receipt is what the receipt says.  Two things    *)
(* are supposed, which compose_replay cannot tell: that no other run raced for *)
(* the root, and that no archive was put back to where it was taken from.      *)
THEOREM CompositionsAreExact == Spec /\ NotPutBack => []ComposedExactly
<1>1. Init => Composition
  BY CompositionInit
<1>2. Shaped /\ Owned /\ Composition /\ [Next]_vars /\ [archive # Expected => UNCHANGED archive]_vars
      => Composition'
  BY CompositionStep
<1>3. Composition => ComposedExactly
  BY DEF Composition, Exact, ComposedExactly
<1>. QED
  BY <1>1, <1>2, <1>3, OwnedAlways, PTL DEF Spec, NotPutBack
-----------------------------------------------------------------------------
(* Dumps.  What a stage makes of a dump, in terms of its keys and rows.        *)

LEMMA KeyIn ==
    ASSUME NEW raw, NEW key
    PROVE  key \in Keys(raw) <=>
             key = <<key[1], key[2]>> /\ key[1] \in DOMAIN raw /\ key[2] \in DOMAIN raw[key[1]]
<1>1. ASSUME key \in Keys(raw)
      PROVE  key = <<key[1], key[2]>> /\ key[1] \in DOMAIN raw /\ key[2] \in DOMAIN raw[key[1]]
  <2>1. PICK kind \in DOMAIN raw : \E name \in DOMAIN raw[kind] : key = <<kind, name>>
    BY <1>1 DEF Keys
  <2>2. PICK name \in DOMAIN raw[kind] : key = <<kind, name>>
    BY <2>1
  <2>. QED
    BY <2>2
<1>2. ASSUME key = <<key[1], key[2]>>, key[1] \in DOMAIN raw, key[2] \in DOMAIN raw[key[1]]
      PROVE  key \in Keys(raw)
  BY <1>2 DEF Keys
<1>. QED
  BY <1>1, <1>2

LEMMA PutRows ==
    ASSUME NEW raw, NEW rows, \A key \in DOMAIN rows : key = <<key[1], key[2]>>
    PROVE  /\ Keys(Put(raw, rows)) = Keys(raw) \cup DOMAIN rows
           /\ \A key \in DOMAIN rows : Row(Put(raw, rows), key) = rows[key]
           /\ \A key \in Keys(raw) \ DOMAIN rows : Row(Put(raw, rows), key) = Row(raw, key)
<1>. DEFINE put == Put(raw, rows)
            had(kind) == IF kind \in DOMAIN raw THEN raw[kind] ELSE Empty
            added(kind) == {key \in DOMAIN rows : key[1] = kind}
<1>1. DOMAIN put = (DOMAIN raw) \cup {key[1] : key \in DOMAIN rows}
  BY DEF Put
<1>2. ASSUME NEW kind \in DOMAIN put
      PROVE  /\ DOMAIN put[kind] = (DOMAIN had(kind)) \cup {key[2] : key \in added(kind)}
             /\ \A name \in DOMAIN put[kind] :
                  put[kind][name] = IF <<kind, name>> \in added(kind) THEN rows[<<kind, name>>] ELSE had(kind)[name]
  BY <1>2 DEF Put
<1>. HIDE DEF put
<1>3. ASSUME NEW key \in DOMAIN rows
      PROVE  key \in Keys(put) /\ put[key[1]][key[2]] = rows[key]
  <2>1. key[1] \in DOMAIN put /\ key = <<key[1], key[2]>>
    BY <1>1
  <2>2. key \in added(key[1])
    OBVIOUS
  <2>3. key[2] \in DOMAIN put[key[1]]
    <3>1. key[2] \in {k[2] : k \in added(key[1])}
      BY <2>2
    <3>. QED
      BY <1>2, <2>1, <3>1, Zenon
  <2>4. put[key[1]][key[2]] = IF <<key[1], key[2]>> \in added(key[1]) THEN rows[<<key[1], key[2]>>]
                              ELSE had(key[1])[key[2]]
    BY <1>2, <2>1, <2>3
  <2>5. put[key[1]][key[2]] = rows[key]
    BY <2>1, <2>2, <2>4, Zenon
  <2>. QED
    BY <2>1, <2>3, <2>5, KeyIn
<1>4. ASSUME NEW key \in Keys(raw), key \notin DOMAIN rows
      PROVE  key \in Keys(put) /\ put[key[1]][key[2]] = raw[key[1]][key[2]]
  <2>1. key = <<key[1], key[2]>> /\ key[1] \in DOMAIN raw /\ key[2] \in DOMAIN raw[key[1]]
    BY KeyIn
  <2>2. key[1] \in DOMAIN put /\ had(key[1]) = raw[key[1]] /\ key \notin added(key[1])
    BY <1>1, <1>4, <2>1
  <2>3. key[2] \in DOMAIN put[key[1]]
    BY <1>2, <2>1, <2>2
  <2>4. put[key[1]][key[2]] = IF <<key[1], key[2]>> \in added(key[1]) THEN rows[<<key[1], key[2]>>]
                              ELSE had(key[1])[key[2]]
    BY <1>2, <2>2, <2>3
  <2>5. put[key[1]][key[2]] = raw[key[1]][key[2]]
    BY <2>1, <2>2, <2>4, Zenon
  <2>. QED
    BY <2>1, <2>2, <2>3, <2>5, KeyIn
<1>5. ASSUME NEW key \in Keys(put), key \notin DOMAIN rows
      PROVE  key \in Keys(raw)
  <2>1. key = <<key[1], key[2]>> /\ key[1] \in DOMAIN put /\ key[2] \in DOMAIN put[key[1]]
    BY KeyIn
  <2>2. key[2] \in (DOMAIN had(key[1])) \cup {k[2] : k \in added(key[1])}
    BY <1>2, <2>1
  <2>3. ASSUME NEW k \in added(key[1]), key[2] = k[2] PROVE FALSE
    BY <1>5, <2>1, <2>3
  <2>4. key[2] \in DOMAIN had(key[1])
    BY <2>2, <2>3
  <2>5. DOMAIN Empty = {}
    BY DEF Empty
  <2>. QED
    BY <2>1, <2>4, <2>5, KeyIn
<1>. QED
  BY <1>3, <1>4, <1>5 DEF put, Row

LEMMA StageRows ==
    ASSUME NEW raw
    PROVE  LET stage == DataStage(raw)
           IN  /\ \A key : key \in Keys(stage) <=>
                             key \in Keys(raw) /\ key[1] \notin {"bool-setting", "int-setting"}
               /\ \A key \in Keys(stage) : Row(stage, key) = Row(raw, key)
               /\ DOMAIN stage = (DOMAIN raw) \ {"bool-setting", "int-setting"}
<1>. DEFINE stage == DataStage(raw)
<1>1. /\ DOMAIN stage = (DOMAIN raw) \ {"bool-setting", "int-setting"}
      /\ \A kind \in DOMAIN stage : stage[kind] = raw[kind]
  BY DEF DataStage, Restrict
<1>. HIDE DEF stage
<1>2. ASSUME NEW key PROVE key \in Keys(stage) <=>
                             key \in Keys(raw) /\ key[1] \notin {"bool-setting", "int-setting"}
  <2>1. key \in Keys(raw) <=>
             key = <<key[1], key[2]>> /\ key[1] \in DOMAIN raw /\ key[2] \in DOMAIN raw[key[1]]
    BY KeyIn
  <2>2. key \in Keys(stage) <=>
             key = <<key[1], key[2]>> /\ key[1] \in DOMAIN stage /\ key[2] \in DOMAIN stage[key[1]]
    BY KeyIn
  <2>. QED
    BY <1>1, <2>1, <2>2
<1>3. \A key \in Keys(stage) : Row(stage, key) = Row(raw, key)
  BY <1>1, KeyIn DEF Row
<1>. QED
  BY <1>1, <1>2, <1>3 DEF stage

(* Two dumps with the same keys, whose rows are the same Lua values.           *)
Alike(a, z) ==
    /\ Keys(a) = Keys(z)
    /\ \A key \in Keys(z) : /\ Row(a, key) \in Values /\ Row(z, key) \in Values
                            /\ Same(Row(a, key), Row(z, key))
Native(raw) == \A key \in Keys(raw) : Row(raw, key) \in Rows

LEMMA AlikeSame ==
    ASSUME NEW a, NEW z, Alike(a, z)
    PROVE  SameDump(a, z) /\ Differences(z, a) = {}
<1>1. \A key \in Keys(z) : Lua(Row(a, key)) = Lua(Row(z, key)) /\ Same(Row(z, key), Row(a, key))
  BY ValuesAssumption DEF Alike
<1>. QED
  BY <1>1 DEF Alike, SameDump, Differences

LEMMA DiffOf ==
    ASSUME NEW a, NEW z, DiffPrototypes(a, z) # Refused
    PROVE  LET changed == [key \in Keys(a) \cap Keys(z) |-> Changes(Row(a, key), Row(z, key), <<>>)]
               patched == {key \in Keys(a) \cap Keys(z) : changed[key] # {}}
           IN  /\ Keys(a) \subseteq Keys(z)
               /\ DiffPrototypes(a, z) = [additions |-> [key \in Keys(z) \ Keys(a) |-> Row(z, key)],
                                          patches   |-> [key \in patched |-> changed[key]]]
  BY DEF DiffPrototypes

(* A stage rendered from two dumps, run over the first, makes the second.      *)
LEMMA ExecutedAlike ==
    ASSUME NEW a, NEW z, Native(a), Native(z), NEW diff, diff = DiffPrototypes(a, z), diff # Refused
    PROVE  Alike(Executed(a, diff), z) /\ Keys(Executed(a, diff)) = Keys(z)
           /\ \A kind \in DOMAIN Executed(a, diff) : kind \in DOMAIN a \/ \E key \in Keys(z) : key[1] = kind
<1>. DEFINE changed == [key \in Keys(a) \cap Keys(z) |-> Changes(Row(a, key), Row(z, key), <<>>)]
            patched == {key \in Keys(a) \cap Keys(z) : changed[key] # {}}
            added   == [key \in Keys(z) \ Keys(a) |-> Row(z, key)]
            extended == Put(a, added)
            rows    == [key \in patched |-> ApplyChanges(Row(extended, key), changed[key])]
<1>1. Keys(a) \subseteq Keys(z)
  BY DiffOf
<1>2. diff = [additions |-> added, patches |-> [key \in patched |-> changed[key]]]
  BY DiffOf
<1>3. diff.additions = added /\ diff.patches = [key \in patched |-> changed[key]]
  BY <1>2
<1>4. patched \subseteq Keys(a) /\ DOMAIN added = Keys(z) \ Keys(a) /\ DOMAIN rows = patched
  OBVIOUS
<1>5. \A key \in Keys(z) : key = <<key[1], key[2]>>
  BY KeyIn
<1>6. /\ Keys(extended) = Keys(z)
      /\ \A key \in Keys(z) \ Keys(a) : Row(extended, key) = Row(z, key)
      /\ \A key \in Keys(a) : Row(extended, key) = Row(a, key)
  <2>1. \A key \in DOMAIN added : added[key] = Row(z, key) /\ key = <<key[1], key[2]>>
    BY <1>5
  <2>. HIDE DEF added, patched, changed, rows
  <2>2. /\ Keys(Put(a, added)) = Keys(a) \cup DOMAIN added
        /\ \A key \in DOMAIN added : Row(Put(a, added), key) = added[key]
        /\ \A key \in Keys(a) \ DOMAIN added : Row(Put(a, added), key) = Row(a, key)
    BY <2>1, PutRows
  <2>. QED
    BY <1>1, <1>4, <2>1, <2>2
<1>7. \A key \in patched : /\ diff.patches[key] = Changes(Row(a, key), Row(z, key), <<>>)
                           /\ rows[key] = Patched(Row(a, key), Row(z, key))
  BY <1>3, <1>6 DEF Patched
<1>8. \A key \in Keys(a) \ patched : Changes(Row(a, key), Row(z, key), <<>>) = {}
  BY <1>1
<1>9. Executed(a, diff) = Put(extended, rows)
  <2>1. DOMAIN diff.patches = patched /\ patched \subseteq Keys(Put(a, diff.additions))
    BY <1>1, <1>3, <1>4, <1>6
  <2>2. \A key \in patched : ApplyChanges(Row(Put(a, diff.additions), key), diff.patches[key]) = rows[key]
    BY <1>3
  <2>. HIDE DEF patched, changed
  <2>. QED
    BY <1>3, <2>1, <2>2 DEF Executed
<1>. HIDE DEF extended, patched, changed, added, rows
<1>10. /\ Keys(Put(extended, rows)) = Keys(z)
       /\ \A key \in patched : Row(Put(extended, rows), key) = rows[key]
       /\ \A key \in Keys(z) \ patched : Row(Put(extended, rows), key) = Row(extended, key)
  <2>1. \A key \in DOMAIN rows : key = <<key[1], key[2]>>
    BY <1>1, <1>4, <1>5
  <2>. QED
    BY <1>1, <1>4, <1>6, <2>1, PutRows, Zenon
<1>11. ASSUME NEW key \in Keys(z)
       PROVE  LET row == Row(Put(extended, rows), key)
              IN  row \in Values /\ Row(z, key) \in Values /\ Same(row, Row(z, key))
  <2>1. Row(z, key) \in Rows /\ (key \in Keys(a) => Row(a, key) \in Rows)
    BY DEF Native
  <2>2. Rows \subseteq Values /\ \A x, y \in Rows : Patched(x, y) \in Values
    BY DEF Values
  <2>3. CASE key \in patched
    BY <1>4, <1>7, <1>10, <2>1, <2>2, <2>3, ValuesAssumption
  <2>4. CASE key \in Keys(a) \ patched
    BY <1>6, <1>8, <1>10, <2>1, <2>2, <2>4, ValuesAssumption
  <2>5. CASE key \notin Keys(a)
    BY <1>4, <1>6, <1>10, <2>1, <2>2, <2>5, ValuesAssumption
  <2>. QED
    BY <2>3, <2>4, <2>5
<1>12. ASSUME NEW kind \in DOMAIN Put(extended, rows), kind \notin DOMAIN a
       PROVE  \E key \in Keys(z) : key[1] = kind
  <2>1. DOMAIN Put(extended, rows) = (DOMAIN a) \cup {key[1] : key \in DOMAIN added} \cup {key[1] : key \in DOMAIN rows}
    BY DEF Put, extended
  <2>. QED
    BY <1>1, <1>4, <1>12, <2>1
<1>. QED
  BY <1>9, <1>10, <1>11, <1>12 DEF Alike

(* Beside what the stage makes stands what a dump has of other kinds.          *)
LEMMA BesideRows ==
    ASSUME NEW a, NEW z
    PROVE  /\ \A key : key \in Keys(Beside(a, z)) <=>
                         key \in Keys(a) \/ (key \in Keys(z) /\ key[1] \notin DOMAIN a)
           /\ \A key \in Keys(a) : Row(Beside(a, z), key) = Row(a, key)
           /\ \A key \in Keys(z) : key[1] \notin DOMAIN a => Row(Beside(a, z), key) = Row(z, key)
<1>. DEFINE both == Beside(a, z)
<1>1. /\ DOMAIN both = (DOMAIN a) \cup (DOMAIN z)
      /\ \A kind \in DOMAIN both : both[kind] = IF kind \in DOMAIN a THEN a[kind] ELSE z[kind]
  BY DEF Beside
<1>. HIDE DEF both
<1>2. ASSUME NEW key
      PROVE  key \in Keys(both) <=> key \in Keys(a) \/ (key \in Keys(z) /\ key[1] \notin DOMAIN a)
  <2>1. key \in Keys(both) <=> key = <<key[1], key[2]>> /\ key[1] \in DOMAIN both /\ key[2] \in DOMAIN both[key[1]]
    BY KeyIn
  <2>2. key \in Keys(a) <=> key = <<key[1], key[2]>> /\ key[1] \in DOMAIN a /\ key[2] \in DOMAIN a[key[1]]
    BY KeyIn
  <2>3. key \in Keys(z) <=> key = <<key[1], key[2]>> /\ key[1] \in DOMAIN z /\ key[2] \in DOMAIN z[key[1]]
    BY KeyIn
  <2>. QED
    BY <1>1, <2>1, <2>2, <2>3
<1>3. \A key \in Keys(a) : Row(both, key) = Row(a, key)
  BY <1>1, KeyIn DEF Row
<1>4. \A key \in Keys(z) : key[1] \notin DOMAIN a => Row(both, key) = Row(z, key)
  BY <1>1, KeyIn DEF Row
<1>. QED
  BY <1>2, <1>3, <1>4 DEF both

LEMMA CaptureNative ==
    ASSUME NEW c \in Captures
    PROVE  Native(Capture[c].raw) /\ Native(Capture[c].settings) /\ Native(DataStage(Capture[c].raw))
<1>1. Native(Capture[c].raw) /\ Native(Capture[c].settings)
  BY DEF Native, Rows
<1>. QED
  BY <1>1, StageRows DEF Native

LEMMA RerunAlike ==
    ASSUME NEW b \in Captures, NEW p \in Captures,
           DataDiff[<<b, p>>] # Refused, SettingsDiff[<<b, p>>] # Refused
    PROVE  /\ Alike(Beside(Executed(DataStage(Capture[b].raw), DataDiff[<<b, p>>]), Capture[p].raw), Capture[p].raw)
           /\ Alike(Executed(Capture[b].settings, SettingsDiff[<<b, p>>]), Capture[p].settings)
<1>. DEFINE a == DataStage(Capture[b].raw)
            z == DataStage(Capture[p].raw)
            raw == Capture[p].raw
            done == Executed(a, DataDiff[<<b, p>>])
            both == Beside(done, raw)
<1>1. <<b, p>> \in Pairs
  BY DEF Pairs
<1>2. DataDiff[<<b, p>>] = DiffPrototypes(a, z)
      /\ SettingsDiff[<<b, p>>] = DiffPrototypes(Capture[b].settings, Capture[p].settings)
  BY <1>1 DEF DataDiff, SettingsDiff
<1>3. Native(a) /\ Native(z) /\ Native(raw) /\ Native(Capture[b].settings) /\ Native(Capture[p].settings)
  BY CaptureNative
<1>4. Alike(Executed(Capture[b].settings, SettingsDiff[<<b, p>>]), Capture[p].settings)
  BY <1>2, <1>3, ExecutedAlike
<1>5. /\ Alike(done, z) /\ Keys(done) = Keys(z)
      /\ \A kind \in DOMAIN done : kind \in DOMAIN a \/ \E key \in Keys(z) : key[1] = kind
  <2>. HIDE DEF a, z
  <2>. QED
    BY <1>2, <1>3, ExecutedAlike
<1>6. /\ \A key : key \in Keys(z) <=> key \in Keys(raw) /\ key[1] \notin {"bool-setting", "int-setting"}
      /\ \A key \in Keys(z) : Row(z, key) = Row(raw, key)
  BY StageRows
<1>7. \A kind \in DOMAIN done : kind \notin {"bool-setting", "int-setting"}
  <2>1. DOMAIN a = (DOMAIN Capture[b].raw) \ {"bool-setting", "int-setting"}
    BY StageRows
  <2>. HIDE DEF a, z, done
  <2>. QED
    BY <1>5, <1>6, <2>1
<1>8. \A key \in Keys(z) : key[1] \in DOMAIN done
  BY <1>5, KeyIn
<1>. HIDE DEF a, z, done, raw
<1>9. Keys(both) = Keys(raw)
  <2>1. \A key : key \in Keys(both) <=> key \in Keys(done) \/ (key \in Keys(raw) /\ key[1] \notin DOMAIN done)
    BY BesideRows
  <2>2. \A key \in Keys(raw) : key[1] \in DOMAIN done => key \in Keys(z)
    BY <1>6, <1>7
  <2>. QED
    BY <1>5, <1>6, <2>1, <2>2
<1>10. ASSUME NEW key \in Keys(raw)
       PROVE  Row(both, key) \in Values /\ Row(raw, key) \in Values /\ Same(Row(both, key), Row(raw, key))
  <2>1. CASE key \in Keys(z)
    <3>1. Row(both, key) = Row(done, key)
      BY <1>5, <2>1, BesideRows
    <3>2. Row(done, key) \in Values /\ Row(z, key) \in Values /\ Same(Row(done, key), Row(z, key))
      BY <1>5, <2>1 DEF Alike
    <3>. QED
      BY <1>6, <2>1, <3>1, <3>2
  <2>2. CASE key \notin Keys(z)
    <3>1. key[1] \notin DOMAIN done
      BY <1>6, <1>7, <2>2
    <3>2. Row(both, key) = Row(raw, key)
      BY <3>1, BesideRows
    <3>3. Row(raw, key) \in Values
      BY <1>3 DEF Native, Values
    <3>. QED
      BY <3>2, <3>3, ValuesAssumption
  <2>. QED
    BY <2>1, <2>2
<1>. QED
  BY <1>4, <1>9, <1>10 DEF Alike, raw, done, a

(* Over what the game had without MIR, both stages make what the published MIR *)
(* made, and the tool that compares captures finds nothing.                    *)
LEMMA PairRestores ==
    ASSUME NEW b, NEW p, Pair(b, p)
    PROVE  Restores[<<b, p>>]
<1>. DEFINE raw == Beside(Executed(DataStage(Capture[b].raw), DataDiff[<<b, p>>]), Capture[p].raw)
            settings == Executed(Capture[b].settings, SettingsDiff[<<b, p>>])
<1>1. PICK c : c = Capture[p]
  OBVIOUS
<1>2. PICK rerun : rerun = Rerun(b, p)
  OBVIOUS
<1>3. b \in Captures /\ p \in Captures /\ ReplayReads(c, TRUE, Nil) /\ <<b, p>> \in Pairs
  BY <1>1 DEF Pair, Pairs
<1>4. Alike(raw, c.raw) /\ Alike(settings, c.settings)
  BY <1>1, RerunAlike DEF Pair
<1>5. rerun = [c EXCEPT !.raw = raw, !.settings = settings]
  BY <1>1, <1>2 DEF Rerun
<1>. HIDE DEF raw, settings
<1>6. DOMAIN c = {"completed", "altered", "engine", "mods", "recorded", "selected",
                  "loaded", "mir", "profile", "raw", "settings"}
      /\ (c.mir # Nil => \A i \in DOMAIN OnlyMir(c.selected) : OnlyMir(c.selected)[i][2] = c.mir.hash)
  BY <1>1, <1>3, CapturesAssumption
<1>7. /\ rerun.raw = raw /\ rerun.settings = settings
      /\ rerun.completed = c.completed /\ rerun.altered = c.altered /\ rerun.engine = c.engine
      /\ rerun.mods = c.mods /\ rerun.recorded = c.recorded /\ rerun.selected = c.selected
      /\ rerun.loaded = c.loaded /\ rerun.mir = c.mir
  BY <1>5, <1>6
<1>8. SameDump(rerun.raw, c.raw) /\ SameDump(rerun.settings, c.settings)
      /\ Differences(c.raw, rerun.raw) = {} /\ Differences(c.settings, rerun.settings) = {}
  BY <1>4, <1>7, AlikeSame
<1>9. ReplayReads(c, TRUE, c.mir.hash) /\ ReplayReads(rerun, TRUE, c.mir.hash)
  <2>1. ReplayReads(c, TRUE, c.mir.hash)
    BY <1>3, <1>6 DEF ReplayReads
  <2>. QED
    BY <1>7, <2>1 DEF ReplayReads
<1>10. SameInputs(c, rerun)
  BY <1>7 DEF SameInputs
<1>11. CompareCaptures(c, rerun, <<c.mir.hash, c.mir.hash>>) = [data |-> {}, settings |-> {}]
  BY <1>8, <1>9, <1>10 DEF CompareCaptures
<1>. QED
  BY <1>1, <1>2, <1>3, <1>8, <1>11 DEF Restores

(* Built stage by stage: while nothing was damaged, what is written is as it   *)
(* was rendered, and the inventory is written last.                            *)
AsRendered(files, f, j) == files[f] = Rendered(f, j.b, j.p)
WritesWell(j, files) ==
    /\ j.pc = "write" => \A i \in 1..(j.n - 1) : AsRendered(files, WriteOrder[i], j)
    /\ j.pc = "record" => \A f \in Stages : AsRendered(files, f, j)
Receipted(files) ==
    Genuine(files[ReceiptFile], "receipt") =>
        files[ReceiptFile][4] =
            [f \in Stages |-> Rendered(f, files[ReceiptFile][2], files[ReceiptFile][3])]

Rendering ==
    /\ \A p \in Runs : job[p].pc \in Building => replay.files[InventoryFile] = NoFile
    /\ ~replay.damaged =>
          /\ \A p \in Runs : WritesWell(job[p], replay.files)
          /\ Receipted(replay.files)

LEMMA RenderingInit == Init => Rendering
<1>. SUFFICES ASSUME Init PROVE Rendering
  OBVIOUS
<1>1. \A p \in Runs : job[p].pc = "idle"
  BY DEF Init, Idle
<1>2. replay.files[ReceiptFile] = NoFile
  BY DEF Init, NoReplay, ReplayFiles
<1>. QED
  BY <1>1, <1>2, FilesDiffer DEF Rendering, WritesWell, Receipted, Building

LEMMA OthersWrite ==
    ASSUME Shaped, Owned, NEW p \in Runs, Writes(p), job[p].pc \in Building
    PROVE  Others(p) /\ \A q \in Runs : q # p => job'[q].pc \notin Building
<1>1. Others(p)
  BY Writing
<1>. QED
  BY <1>1 DEF Owned, Others

LEMMA NotBuilding == ASSUME NEW j, NEW files, j.pc \notin Building PROVE WritesWell(j, files)
  BY DEF WritesWell, Building

LEMMA RenderingStep ==
    ASSUME Shaped, Owned, Rendering, NEW p \in Runs, Step(p)
    PROVE  Rendering'
<1>. USE DEF To, SetTo, Stops
<1>1. ReplayShape(replay) /\ Others(p)
  BY Writing, Quietly DEF Shaped
<1>2. ReceiptFile \in ReplayFiles /\ InventoryFile \in ReplayFiles /\ Stages \subseteq ReplayFiles
      /\ ReceiptFile # InventoryFile /\ ReceiptFile \notin Stages /\ InventoryFile \notin Stages
  BY FilesDiffer DEF ReplayFiles
<1>3. CASE ~Writes(p)
  <2>1. replay' = replay /\ job'[p].pc \notin Building
    BY <1>3, Quietly
  <2>. QED
    BY <1>1, <2>1, NotBuilding DEF Rendering, Others
<1>4. ASSUME NEW r, r \in {NoReplay, NewReplay(p)}
      PROVE  r.files[InventoryFile] = NoFile /\ Receipted(r.files)
  <2>1. r.files = [f \in ReplayFiles |-> NoFile]
    <3>1. CASE r = NoReplay
      BY <3>1 DEF NoReplay
    <3>2. CASE r = NewReplay(p)
      BY <3>2, NewShapes
    <3>. QED
      BY <1>4, <3>1, <3>2
  <2>2. r.files[InventoryFile] = NoFile /\ r.files[ReceiptFile] = NoFile
    BY <1>2, <2>1
  <2>. QED
    BY <2>2, FilesDiffer DEF Receipted
<1>5. ASSUME job[p].pc \in Building, Writes(p), job'[p].pc \notin Building, Receipted(replay'.files) \/ replay'.damaged
      PROVE  Rendering'
  <2>1. \A q \in Runs : job'[q].pc \notin Building
    BY <1>5, OthersWrite
  <2>. QED
    BY <1>5, <2>1, NotBuilding DEF Rendering
<1>6. CASE MakeReplay(p)
  <2>1. CASE Stops(p, "failed") /\ replay' = replay
    BY <1>1, <2>1, NotBuilding DEF Rendering, Others, Building
  <2>2. CASE ~replay.made /\ To(p, "n", "write", 1) /\ replay' = NewReplay(p)
    <3>1. \A q \in Runs : q # p => job'[q].pc \notin Building
      BY <1>1, <2>2 DEF Owned, Others
    <3>2. WritesWell(job'[p], replay'.files)
      BY <2>2 DEF WritesWell
    <3>. QED
      BY <1>4, <2>2, <3>1, <3>2, NotBuilding DEF Rendering
  <2>. QED
    BY <1>6, <2>1, <2>2, BuildMoves
<1>7. CASE WriteStage(p)
  <2>. DEFINE n == job[p].n
              f == WriteOrder[n]
              content == Rendered(f, job[p].b, job[p].p)
              pc == IF n = Len(WriteOrder) THEN "record" ELSE "write"
  <2>1. At(p, "write") /\ To(p, "n", pc, n + 1) /\ replay' = [replay EXCEPT !.files[f] = content]
    BY <1>7, BuildMoves
  <2>2. job[p].pc \in Building /\ n \in 1..3
    BY <2>1 DEF Owned, Building, At
  <2>3. \A q \in Runs : q # p => job'[q].pc \notin Building
    BY <1>7, <2>2, OthersWrite DEF Writes
  <2>4. f \in Stages
    BY <2>2, FilesDiffer
  <2>. HIDE DEF f, content
  <2>5. replay'.damaged = replay.damaged
        /\ \A g \in ReplayFiles : replay'.files[g] = IF g = f THEN content ELSE replay.files[g]
    <3>1. PICK s : s = replay'
      OBVIOUS
    <3>2. s = Written(replay, f, content)
      BY <2>1, <3>1, Zenon DEF Written
    <3>3. s.damaged = replay.damaged /\ \A g \in ReplayFiles : s.files[g] = IF g = f THEN content ELSE replay.files[g]
      BY <1>1, <3>2, FileWritten
    <3>. QED
      BY <3>1, <3>3
  <2>6. replay'.files[InventoryFile] = NoFile /\ replay'.files[ReceiptFile] = replay.files[ReceiptFile]
    BY <1>2, <2>2, <2>4, <2>5 DEF Rendering
  <2>7. ASSUME ~replay.damaged PROVE WritesWell(job'[p], replay'.files)
    <3>1. \A i \in 1..(n - 1) : AsRendered(replay.files, WriteOrder[i], job[p])
      BY <2>1, <2>7 DEF Rendering, WritesWell, At
    <3>2. \A i \in 1..n : AsRendered(replay'.files, WriteOrder[i], job[p])
      <4>1. \A i \in 1..3 : WriteOrder[i] \in ReplayFiles
        BY <1>2, FilesDiffer
      <4>2. AsRendered(replay'.files, f, job[p])
        BY <1>2, <2>4, <2>5 DEF AsRendered, content
      <4>3. ASSUME NEW i \in 1..n, WriteOrder[i] # f PROVE AsRendered(replay'.files, WriteOrder[i], job[p])
        <5>1. i \in 1..(n - 1) /\ i \in 1..3
          BY <2>2, <4>3 DEF f
        <5>. QED
          BY <2>5, <3>1, <4>1, <4>3, <5>1 DEF AsRendered
      <4>. QED
        BY <4>2, <4>3
    <3>3. job'[p].b = job[p].b /\ job'[p].p = job[p].p /\ job'[p].n = n + 1 /\ job'[p].pc = pc
      BY <2>1
    <3>4. \A i \in 1..n : AsRendered(replay'.files, WriteOrder[i], job'[p])
      BY <3>2, <3>3 DEF AsRendered
    <3>5. CASE n = 3
      <4>1. \A g \in Stages : \E i \in 1..3 : g = WriteOrder[i]
        BY DEF Stages, WriteOrder
      <4>2. \A g \in Stages : AsRendered(replay'.files, g, job'[p])
        BY <3>4, <3>5, <4>1
      <4>3. job'[p].pc = "record"
        BY <3>3, <3>5 DEF WriteOrder
      <4>. QED
        BY <4>2, <4>3 DEF WritesWell
    <3>6. CASE n # 3
      <4>1. job'[p].pc = "write" /\ job'[p].n - 1 = n
        BY <2>2, <3>3, <3>6 DEF WriteOrder
      <4>. QED
        BY <3>4, <4>1 DEF WritesWell
    <3>. QED
      BY <3>5, <3>6
  <2>8. Receipted(replay.files) => Receipted(replay'.files)
    BY <2>6 DEF Receipted
  <2>. QED
    BY <2>3, <2>5, <2>6, <2>7, <2>8, NotBuilding DEF Rendering
<1>8. CASE Record(p)
  <2>. DEFINE outputs == [f \in Stages |-> replay.files[f]]
              content == ReceiptOf(job[p].b, job[p].p, outputs)
  <2>1. /\ At(p, "record")
        /\ \/ Stops(p, "failed") /\ replay' = NoReplay
           \/ /\ To(p, "outputs", "inventory", outputs)
              /\ replay' = [replay EXCEPT !.files[ReceiptFile] = content]
    BY <1>8, BuildMoves
  <2>2. job[p].pc \in Building
    BY <2>1 DEF Building, At
  <2>3. CASE Stops(p, "failed") /\ replay' = NoReplay
    BY <1>4, <1>5, <1>8, <2>2, <2>3 DEF Writes, Building
  <2>4. CASE To(p, "outputs", "inventory", outputs) /\ replay' = [replay EXCEPT !.files[ReceiptFile] = content]
    <3>1. content[1] = "receipt" /\ content[2] = job[p].b /\ content[3] = job[p].p /\ content[4] = outputs
      BY DEF ReceiptOf
    <3>2. ASSUME ~replay.damaged
          PROVE  outputs = [f \in Stages |-> Rendered(f, job[p].b, job[p].p)]
      BY <2>1, <3>2 DEF Rendering, WritesWell, AsRendered, At
    <3>. HIDE DEF content, outputs
    <3>3. replay'.damaged = replay.damaged
          /\ \A g \in ReplayFiles : replay'.files[g] = IF g = ReceiptFile THEN content ELSE replay.files[g]
        <4>1. PICK s : s = replay'
        OBVIOUS
      <4>2. s = Written(replay, ReceiptFile, content)
        BY <2>4, <4>1, Zenon DEF Written
      <4>3. s.damaged = replay.damaged
            /\ \A g \in ReplayFiles : s.files[g] = IF g = ReceiptFile THEN content ELSE replay.files[g]
        BY <1>1, <4>2, FileWritten
      <4>. QED
        BY <4>1, <4>3
    <3>4. replay'.files[InventoryFile] = NoFile /\ replay'.files[ReceiptFile] = content
      BY <1>2, <2>2, <3>3 DEF Rendering
    <3>5. ~replay.damaged => Receipted(replay'.files)
      BY <3>1, <3>2, <3>4 DEF Receipted
    <3>6. \A q \in Runs : q # p => job'[q].pc \notin Building
      BY <1>8, <2>2, OthersWrite DEF Writes
    <3>7. WritesWell(job'[p], replay'.files)
      BY <2>4 DEF WritesWell
    <3>. QED
      BY <3>3, <3>4, <3>5, <3>6, <3>7, NotBuilding DEF Rendering
  <2>. QED
    BY <2>1, <2>3, <2>4
<1>9. CASE WriteInventory(p)
  <2>. DEFINE content == InventoryOf(ReceiptOf(job[p].b, job[p].p, job[p].outputs))
  <2>1. /\ At(p, "inventory") /\ Stops(p, "done") /\ replay' = [replay EXCEPT !.files[InventoryFile] = content]
    BY <1>9, BuildMoves
  <2>. HIDE DEF content
  <2>2. replay'.damaged = replay.damaged
        /\ \A g \in ReplayFiles : replay'.files[g] = IF g = InventoryFile THEN content ELSE replay.files[g]
    <3>1. PICK s : s = replay'
      OBVIOUS
    <3>2. s = Written(replay, InventoryFile, content)
      BY <2>1, <3>1, Zenon DEF Written
    <3>3. s.damaged = replay.damaged
          /\ \A g \in ReplayFiles : s.files[g] = IF g = InventoryFile THEN content ELSE replay.files[g]
      BY <1>1, <3>2, FileWritten
    <3>. QED
      BY <3>1, <3>3
  <2>3. replay'.files[ReceiptFile] = replay.files[ReceiptFile]
    BY <1>2, <2>2
  <2>4. ~replay.damaged => Receipted(replay'.files)
    BY <2>3 DEF Rendering, Receipted
  <2>. QED
    BY <1>5, <1>9, <2>1, <2>2, <2>4 DEF Writes, Building, At
<1>10. CASE WriteFails(p)
  BY <1>4, <1>5, <1>10, BuildMoves DEF Writes, Building
<1>11. CASE Crash(p) /\ job[p].pc \in Building
  <2>1. PICK g : replay' = [replay EXCEPT !.files[g] = Partial]
    BY <1>11, CrashMoves
  <2>2. job'[p].pc = "crashed"
    BY <1>11, CrashMoves
  <2>3. replay'.damaged = replay.damaged
        /\ \A h \in ReplayFiles : replay'.files[h] = IF h = g THEN Partial ELSE replay.files[h]
    <3>1. PICK s : s = replay'
      OBVIOUS
    <3>2. s = Written(replay, g, Partial)
      BY <2>1, <3>1, Zenon DEF Written
    <3>3. s.damaged = replay.damaged /\ \A h \in ReplayFiles : s.files[h] = IF h = g THEN Partial ELSE replay.files[h]
      BY <1>1, <3>2, FileWritten
    <3>. QED
      BY <3>1, <3>3
  <2>4. replay'.files[ReceiptFile] \in {Partial, replay.files[ReceiptFile]}
    BY <1>2, <2>3
  <2>5. ~replay.damaged => Receipted(replay'.files)
    BY <2>4, FilesDiffer DEF Rendering, Receipted
  <2>. QED
    BY <1>5, <1>11, <2>2, <2>3, <2>5 DEF Writes, Building
<1>. QED
  BY <1>3, <1>6, <1>7, <1>8, <1>9, <1>10, <1>11 DEF Writes

LEMMA RenderingKept ==
    ASSUME Shaped, Owned, Rendering, [Next]_vars
    PROVE  Rendering'
<1>1. CASE UNCHANGED vars
  BY <1>1 DEF vars, Rendering
<1>2. CASE Recapture \/ ReplaceArchive
  BY <1>2 DEF Recapture, ReplaceArchive, Rendering
<1>3. CASE Damage
  <2>1. PICK f \in ReplayFiles, content \in {Junk, NoFile} :
          /\ replay.files[f] # NoFile
          /\ replay' = Spoilt(replay, f, content, replay.damaged \/ replay.files[InventoryFile] = NoFile)
    BY <1>3, DamageMoves
  <2>2. ReplayShape(replay) /\ job' = job
    BY <1>3, DamageMoves DEF Shaped
  <2>3. replay'.damaged = (replay.damaged \/ replay.files[InventoryFile] = NoFile)
        /\ \A g \in ReplayFiles : replay'.files[g] = IF g = f THEN content ELSE replay.files[g]
    <3>1. PICK d : d = (replay.damaged \/ replay.files[InventoryFile] = NoFile)
      OBVIOUS
    <3>. QED
      BY <2>1, <2>2, <3>1, Damaged
  <2>4. ReceiptFile \in ReplayFiles /\ InventoryFile \in ReplayFiles
    BY DEF ReplayFiles
  <2>5. \A p \in Runs : job[p].pc \in Building => replay'.files[InventoryFile] = NoFile
    BY <2>1, <2>3, <2>4 DEF Rendering
  <2>6. ASSUME ~replay'.damaged
        PROVE  (\A p \in Runs : WritesWell(job[p], replay'.files)) /\ Receipted(replay'.files)
    <3>1. ~replay.damaged /\ replay.files[InventoryFile] # NoFile
      BY <2>3, <2>6
    <3>2. \A p \in Runs : WritesWell(job[p], replay'.files)
      BY <3>1, NotBuilding DEF Rendering
    <3>3. replay'.files[ReceiptFile] \in {Junk, NoFile, replay.files[ReceiptFile]}
      BY <2>1, <2>3, <2>4
    <3>4. Receipted(replay'.files)
      BY <3>1, <3>3, FilesDiffer DEF Rendering, Receipted
    <3>. QED
      BY <3>2, <3>4
  <2>. QED
    BY <2>2, <2>5, <2>6 DEF Rendering
<1>4. ASSUME NEW p \in Runs, Step(p) PROVE Rendering'
  BY <1>4, RenderingStep
<1>. QED
  BY <1>1, <1>2, <1>3, <1>4 DEF Next, World

(* A finished replay nobody tampered with while it was built does what it is   *)
(* for, whatever the two captures hold, if values are compared and assigned as *)
(* ValuesAssumption has it.                                                    *)
THEOREM ReplaysRestore == Spec => []Restored
<1>1. Init => Rendering
  BY RenderingInit
<1>2. Shaped /\ Owned /\ Rendering /\ [Next]_vars => Rendering'
  BY RenderingKept
<1>3. Trusted /\ Rendering => Restored
  BY PairRestores DEF Trusted, Rendering, Receipted, Restored
<1>. QED
  BY <1>1, <1>2, <1>3, TrustedAlways, PTL DEF Spec
-----------------------------------------------------------------------------
(* Induction over the naturals, for a set: the form of it whose proof and uses *)
(* need no operator as a parameter.                                            *)
LEMMA NatSetInduction ==
    ASSUME NEW S, 0 \in S, \A n \in Nat : n \in S => n + 1 \in S
    PROVE  \A n \in Nat : n \in S
<1>. SUFFICES ASSUME NEW m \in Nat, m \notin S PROVE FALSE
  OBVIOUS
<1>. DEFINE T == {n \in Nat : n \notin S}
            Below == {ss \in Nat \X Nat : ss[1] < ss[2]}
<1>1. IsWellFoundedOn(Below, Nat)
  <2>1. OpToRel(<, Nat) = Below
    BY Zenon DEF OpToRel
  <2>. QED
    BY <2>1, NatLessThanWellFounded, Zenon
<1>2. T \subseteq Nat /\ T # {}
  OBVIOUS
<1>3. PICK x \in T : \A y \in T : ~ (<<y, x>> \in Below)
  <2>. HIDE DEF Below, T
  <2>. QED
    BY <1>1, <1>2, WFMin, Zenon
<1>4. x # 0 /\ x - 1 \in Nat /\ x - 1 \in S
  <2>1. x # 0 /\ x - 1 \in Nat
    OBVIOUS
  <2>2. x - 1 \in T => <<x - 1, x>> \in Below
    BY <2>1
  <2>. QED
    BY <2>1, <2>2, <1>3
<1>. QED
  BY <1>4

(* One row of a review: it sets or removes its own prototype, if it is of the  *)
(* domain, and leaves the others.                                              *)
SetBy(e, r, row) ==
    /\ \A key : key # row.key => /\ key \in Keys(r) <=> key \in Keys(e)
                                 /\ key \in Keys(e) => Row(r, key) = Row(e, key)
    /\ row.value # Nothing => row.key \in Keys(r) /\ Row(r, row.key) = row.value
    /\ row.value = Nothing => row.key \notin Keys(r)

LEMMA RowSet ==
    ASSUME NEW e, NEW row, row.key = <<row.key[1], row.key[2]>>, row.value # Nothing
    PROVE  SetBy(e, Put(e, [key \in {row.key} |-> row.value]), row)
<1>. DEFINE rows == [key \in {row.key} |-> row.value]
            put == Put(e, rows)
<1>1. DOMAIN rows = {row.key} /\ rows[row.key] = row.value
  OBVIOUS
<1>2. \A key \in DOMAIN rows : key = <<key[1], key[2]>>
  BY <1>1
<1>. HIDE DEF rows
<1>3. /\ Keys(put) = Keys(e) \cup DOMAIN rows
      /\ \A key \in DOMAIN rows : Row(put, key) = rows[key]
      /\ \A key \in Keys(e) \ DOMAIN rows : Row(put, key) = Row(e, key)
  BY <1>2, PutRows
<1>. HIDE DEF put
<1>4. SetBy(e, put, row)
  BY <1>1, <1>3 DEF SetBy
<1>. QED
  BY <1>4 DEF put, rows

LEMMA RowLeft ==
    ASSUME NEW e, NEW row, row.value = Nothing, row.key = <<row.key[1], row.key[2]>>, NEW r,
           \A kind : kind \in DOMAIN r => kind \in DOMAIN e,
           \A kind \in DOMAIN r : kind # row.key[1] => r[kind] = e[kind],
           \A kind \in DOMAIN e : kind # row.key[1] => kind \in DOMAIN r,
           row.key[1] \in DOMAIN r =>
               r[row.key[1]] = [name \in DOMAIN e[row.key[1]] \ {row.key[2]} |-> e[row.key[1]][name]],
           row.key[1] \in DOMAIN e /\ row.key[1] \notin DOMAIN r =>
               DOMAIN e[row.key[1]] \ {row.key[2]} = {}
    PROVE  SetBy(e, r, row)
<1>1. ASSUME NEW key, key # row.key
      PROVE  /\ key \in Keys(r) <=> key \in Keys(e)
             /\ key \in Keys(e) => Row(r, key) = Row(e, key)
  <2>1. key \in Keys(r) <=> key = <<key[1], key[2]>> /\ key[1] \in DOMAIN r /\ key[2] \in DOMAIN r[key[1]]
    BY KeyIn
  <2>2. key \in Keys(e) <=> key = <<key[1], key[2]>> /\ key[1] \in DOMAIN e /\ key[2] \in DOMAIN e[key[1]]
    BY KeyIn
  <2>3. CASE key[1] # row.key[1]
    BY <2>1, <2>2, <2>3 DEF Row
  <2>4. CASE key[1] = row.key[1] /\ key = <<key[1], key[2]>>
    <3>1. key[2] # row.key[2]
      BY <1>1, <2>4
    <3>2. CASE key[1] \in DOMAIN r
      BY <2>1, <2>2, <2>4, <3>1, <3>2 DEF Row
    <3>3. CASE key[1] \notin DOMAIN r
      BY <2>1, <2>2, <2>4, <3>1, <3>3
    <3>. QED
      BY <3>2, <3>3
  <2>. QED
    BY <2>1, <2>2, <2>3, <2>4
<1>2. row.key \notin Keys(r)
  <2>1. row.key \in Keys(r) => row.key[1] \in DOMAIN r /\ row.key[2] \in DOMAIN r[row.key[1]]
    BY KeyIn
  <2>. QED
    BY <2>1
<1>. QED
  BY <1>1, <1>2 DEF SetBy

LEMMA RowApplied ==
    ASSUME NEW e, NEW row, row.key = <<row.key[1], row.key[2]>>, NEW domain, row.domain = domain
    PROVE  SetBy(e, ApplyRow(e, row, domain), row)
<1>. DEFINE kind == row.key[1]
            left == IF kind \in DOMAIN e
                    THEN Restrict(e[kind], DOMAIN e[kind] \ {row.key[2]}) ELSE Empty
<1>1. CASE row.value # Nothing
  <2>1. ApplyRow(e, row, domain) = Put(e, [key \in {row.key} |-> row.value])
    BY <1>1 DEF ApplyRow
  <2>. QED
    BY <1>1, <2>1, RowSet
<1>2. CASE row.value = Nothing /\ DOMAIN left = {}
  <2>1. PICK r : r = Restrict(e, (DOMAIN e) \ {kind})
    OBVIOUS
  <2>2. ApplyRow(e, row, domain) = r
    BY <1>2, <2>1 DEF ApplyRow
  <2>3. DOMAIN r = (DOMAIN e) \ {kind} /\ \A k \in DOMAIN r : r[k] = e[k]
    BY <2>1 DEF Restrict
  <2>4. kind \in DOMAIN e => DOMAIN e[kind] \ {row.key[2]} = {}
    BY <1>2 DEF Restrict
  <2>. HIDE DEF left
  <2>5. SetBy(e, r, row)
    BY <1>2, <2>3, <2>4, RowLeft
  <2>. QED
    BY <2>2, <2>5
<1>3. CASE row.value = Nothing /\ DOMAIN left # {}
  <2>1. kind \in DOMAIN e /\ left = [name \in DOMAIN e[kind] \ {row.key[2]} |-> e[kind][name]]
    BY <1>3 DEF Restrict, Empty
  <2>2. PICK r : r = [e EXCEPT ![kind] = left]
    OBVIOUS
  <2>3. ApplyRow(e, row, domain) = r
    BY <1>3, <2>2 DEF ApplyRow
  <2>. HIDE DEF left
  <2>4. DOMAIN r = DOMAIN e /\ r[kind] = left /\ \A k \in DOMAIN r : k # kind => r[k] = e[k]
    BY <2>1, <2>2
  <2>5. SetBy(e, r, row)
    BY <1>3, <2>1, <2>4, RowLeft
  <2>. QED
    BY <2>3, <2>5
<1>. QED
  BY <1>1, <1>2, <1>3
(* A review row by row: after n rows, e says of every prototype what the last  *)
(* of them that names it says, and of the others what it said before.          *)
Names(review, i, domain, key) == review[i].domain = domain /\ review[i].key = key
Says(o, e, review, domain, n, key) ==
    \/ /\ \A i \in 1..n : ~Names(review, i, domain, key)
       /\ key \in Keys(e) <=> key \in Keys(o)
       /\ key \in Keys(o) => Row(e, key) = Row(o, key)
    \/ \E i \in 1..n :
       /\ Names(review, i, domain, key)
       /\ review[i].value # Nothing => key \in Keys(e) /\ Row(e, key) = review[i].value
       /\ review[i].value = Nothing => key \notin Keys(e)
Reviewed(o, e, review, domain, n) == \A key : Says(o, e, review, domain, n, key)

LEMMA RowReviewed ==
    ASSUME NEW o, NEW e, NEW review, NEW domain, NEW n \in Nat, Reviewed(o, e, review, domain, n),
           review[n + 1].key = <<review[n + 1].key[1], review[n + 1].key[2]>>
    PROVE  Reviewed(o, ApplyRow(e, review[n + 1], domain), review, domain, n + 1)
<1>. DEFINE row == review[n + 1]
            r == ApplyRow(e, row, domain)
<1>1. \A i : i \in 1..(n + 1) <=> i \in 1..n \/ i = n + 1
  OBVIOUS
<1>2. ASSUME NEW key, ~Names(review, n + 1, domain, key),
             key \in Keys(r) <=> key \in Keys(e), key \in Keys(e) => Row(r, key) = Row(e, key)
      PROVE  Says(o, r, review, domain, n + 1, key)
  <2>1. Says(o, e, review, domain, n, key)
    BY DEF Reviewed
  <2>. HIDE DEF r
  <2>2. CASE /\ \A i \in 1..n : ~Names(review, i, domain, key)
             /\ key \in Keys(e) <=> key \in Keys(o)
             /\ key \in Keys(o) => Row(e, key) = Row(o, key)
    BY <1>1, <1>2, <2>2, Zenon DEF Says
  <2>3. ASSUME NEW i \in 1..n,
               /\ Names(review, i, domain, key)
               /\ review[i].value # Nothing => key \in Keys(e) /\ Row(e, key) = review[i].value
               /\ review[i].value = Nothing => key \notin Keys(e)
        PROVE  Says(o, r, review, domain, n + 1, key)
    BY <1>1, <1>2, <2>3, Zenon DEF Says
  <2>. QED
    BY <2>1, <2>2, <2>3, Zenon DEF Says
<1>3. CASE row.domain # domain
  <2>1. r = e
    BY <1>3 DEF ApplyRow
  <2>2. \A key : ~Names(review, n + 1, domain, key)
    BY <1>3 DEF Names
  <2>. HIDE DEF r
  <2>. QED
    BY <1>2, <2>1, <2>2 DEF Reviewed, r
<1>4. CASE row.domain = domain
  <2>1. SetBy(e, r, row)
    BY <1>4, RowApplied
  <2>2. \A key : Names(review, n + 1, domain, key) <=> key = row.key
    BY <1>4 DEF Names
  <2>. HIDE DEF r
  <2>3. ASSUME NEW key, key # row.key
        PROVE  Says(o, r, review, domain, n + 1, key)
    <3>1. /\ key \in Keys(r) <=> key \in Keys(e)
          /\ key \in Keys(e) => Row(r, key) = Row(e, key)
      BY <2>1, <2>3 DEF SetBy
    <3>. QED
      BY <1>2, <2>2, <2>3, <3>1 DEF r
  <2>4. Says(o, r, review, domain, n + 1, row.key)
    <3>1. /\ Names(review, n + 1, domain, row.key)
          /\ row.value # Nothing => row.key \in Keys(r) /\ Row(r, row.key) = row.value
          /\ row.value = Nothing => row.key \notin Keys(r)
      BY <2>1, <2>2 DEF SetBy
    <3>2. n + 1 \in 1..(n + 1)
      OBVIOUS
    <3>. QED
      BY <3>1, <3>2, Zenon DEF Says, row
  <2>. QED
    BY <2>3, <2>4 DEF Reviewed, r
<1>. QED
  BY <1>3, <1>4

LEMMA AppliedExists ==
    ASSUME NEW n \in Nat, NEW o, NEW review, NEW domain
    PROVE  \E applied : applied = [i \in 0..n |->
             IF i = 0 THEN o ELSE ApplyRow(applied[i - 1], review[i], domain)]
<1>. DEFINE S == {m \in Nat : \E applied : applied = [i \in 0..m |->
                      IF i = 0 THEN o ELSE ApplyRow(applied[i - 1], review[i], domain)]}
<1>1. 0 \in S
  <2>. DEFINE f == [i \in 0..0 |-> o]
  <2>1. f = [i \in 0..0 |-> IF i = 0 THEN o ELSE ApplyRow(f[i - 1], review[i], domain)]
    OBVIOUS
  <2>. QED
    BY <2>1
<1>2. ASSUME NEW m \in Nat, m \in S PROVE m + 1 \in S
  <2>1. PICK f : f = [i \in 0..m |-> IF i = 0 THEN o ELSE ApplyRow(f[i - 1], review[i], domain)]
    BY <1>2
  <2>. DEFINE g == [i \in 0..m + 1 |-> IF i <= m THEN f[i] ELSE ApplyRow(f[m], review[m + 1], domain)]
  <2>2. \A i \in 0..m : f[i] = IF i = 0 THEN o ELSE ApplyRow(f[i - 1], review[i], domain)
    BY <2>1
  <2>3. \A i \in 0..m + 1 : g[i] = IF i = 0 THEN o ELSE ApplyRow(g[i - 1], review[i], domain)
    BY <2>2
  <2>4. g = [i \in 0..m + 1 |-> IF i = 0 THEN o ELSE ApplyRow(g[i - 1], review[i], domain)]
    BY <2>3
  <2>. HIDE DEF g
  <2>5. \E applied : applied = [i \in 0..m + 1 |->
                      IF i = 0 THEN o ELSE ApplyRow(applied[i - 1], review[i], domain)]
    BY <2>4
  <2>. QED
    BY <2>5
<1>. HIDE DEF S
<1>3. n \in S
  BY <1>1, <1>2, NatSetInduction
<1>. QED
  BY <1>3 DEF S

LEMMA ReviewApplied ==
    ASSUME NEW o, NEW review \in Reviews, NEW domain
    PROVE  Reviewed(o, ApplyReviewed(o, review, domain), review, domain, Len(review))
<1>1. /\ review \in Seq({review[i] : i \in DOMAIN review})
      /\ \A i \in DOMAIN review : review[i].key = <<review[i].key[1], review[i].key[2]>>
  BY ReviewsAssumption
<1>2. Len(review) \in Nat /\ DOMAIN review = 1..Len(review)
  BY <1>1
<1>. DEFINE applied == CHOOSE f : f = [i \in 0..Len(review) |->
                         IF i = 0 THEN o ELSE ApplyRow(f[i - 1], review[i], domain)]
<1>3. ApplyReviewed(o, review, domain) = applied[Len(review)]
  BY DEF ApplyReviewed
<1>4. applied = [i \in 0..Len(review) |-> IF i = 0 THEN o ELSE ApplyRow(applied[i - 1], review[i], domain)]
  BY <1>2, AppliedExists
<1>. HIDE DEF applied
<1>5. \A i \in 0..Len(review) : applied[i] = IF i = 0 THEN o ELSE ApplyRow(applied[i - 1], review[i], domain)
  BY <1>4
<1>. DEFINE S == {n \in Nat : n <= Len(review) => Reviewed(o, applied[n], review, domain, n)}
<1>6. 0 \in S
  <2>1. applied[0] = o
    BY <1>2, <1>5
  <2>. QED
    BY <2>1 DEF Reviewed, Says
<1>7. ASSUME NEW n \in Nat, n \in S PROVE n + 1 \in S
  <2>1. SUFFICES ASSUME n + 1 <= Len(review) PROVE Reviewed(o, applied[n + 1], review, domain, n + 1)
    OBVIOUS
  <2>2. Reviewed(o, applied[n], review, domain, n)
    BY <1>2, <1>7, <2>1
  <2>3. applied[n + 1] = ApplyRow(applied[n], review[n + 1], domain)
    BY <1>2, <1>5, <2>1
  <2>4. review[n + 1].key = <<review[n + 1].key[1], review[n + 1].key[2]>>
    BY <1>1, <1>2, <2>1
  <2>. QED
    BY <2>2, <2>3, <2>4, RowReviewed
<1>. HIDE DEF S
<1>8. Len(review) \in S
  BY <1>2, <1>6, <1>7, NatSetInduction
<1>. QED
  BY <1>2, <1>3, <1>8 DEF S
-----------------------------------------------------------------------------
(* Verdicts                                                                    *)

(* What the published capture's difference from the baseline, less some of     *)
(* what it adds, makes of the baseline.                                        *)
LEMMA Overlaid ==
    ASSUME NEW a, NEW z, Native(a), Native(z), DiffDomain(a, z) # Refused,
           NEW expected, expected.patches = DiffDomain(a, z).patches,
           DOMAIN expected.additions \subseteq Keys(z) \ Keys(a),
           NEW o, o = OverlayDomain(a, expected), o # Refused
    PROVE  /\ Keys(o) = Keys(a) \cup DOMAIN expected.additions
           /\ \A key \in DOMAIN expected.additions : Row(o, key) = expected.additions[key]
           /\ Keys(a) \subseteq Keys(z)
           /\ \A key \in Keys(a) : Row(o, key) \in Values /\ Same(Row(o, key), Row(z, key))
<1>. DEFINE changed == [key \in Keys(a) \cap Keys(z) |-> Changes(Row(a, key), Row(z, key), <<>>)]
            patched == {key \in Keys(a) \cap Keys(z) : changed[key] # {}}
            patches == [key \in patched |-> changed[key]]
            extended == Put(a, expected.additions)
            rows    == [key \in DOMAIN expected.patches |-> expected.patches[key].after]
<1>1. DiffPrototypes(a, z) # Refused
  BY DEF DiffDomain
<1>2. Keys(a) \subseteq Keys(z)
  BY <1>1, DiffOf
<1>3. PICK diff : diff = DiffPrototypes(a, z)
  OBVIOUS
<1>4. diff.patches = patches
  <2>1. diff = [additions |-> [key \in Keys(z) \ Keys(a) |-> Row(z, key)], patches |-> patches]
    BY <1>1, <1>3, DiffOf
  <2>. HIDE DEF patches
  <2>. QED
    BY <2>1
<1>5. DiffDomain(a, z) = [additions |-> diff.additions,
                          patches   |-> [key \in DOMAIN diff.patches |->
                               [before |-> Row(a, key),
                                after  |-> ApplyChanges(Row(a, key), diff.patches[key])]]]
  BY <1>1, <1>3 DEF DiffDomain
<1>6. expected.patches = [key \in DOMAIN diff.patches |->
                               [before |-> Row(a, key),
                                after  |-> ApplyChanges(Row(a, key), diff.patches[key])]]
  BY <1>5
<1>7. patched \subseteq Keys(a) /\ DOMAIN diff.patches = patched /\ DOMAIN expected.patches = patched /\ DOMAIN rows = patched
  BY <1>4, <1>6
<1>8. \A key \in patched : diff.patches[key] = Changes(Row(a, key), Row(z, key), <<>>)
  BY <1>4
<1>9. \A key \in patched : rows[key] = Patched(Row(a, key), Row(z, key))
  <2>1. \A key \in patched : rows[key] = ApplyChanges(Row(a, key), diff.patches[key])
    BY <1>6, <1>7
  <2>. HIDE DEF rows, patched
  <2>. QED
    BY <1>8, <2>1 DEF Patched
<1>10. \A key \in Keys(a) \ patched : Changes(Row(a, key), Row(z, key), <<>>) = {}
  BY <1>2
<1>11. \A key \in Keys(z) : key = <<key[1], key[2]>>
  BY KeyIn
<1>. HIDE DEF changed, patched, patches
<1>12. o = Put(extended, rows)
  BY Zenon DEF OverlayDomain
<1>13. /\ Keys(extended) = Keys(a) \cup DOMAIN expected.additions
       /\ \A key \in DOMAIN expected.additions : Row(extended, key) = expected.additions[key]
       /\ \A key \in Keys(a) : Row(extended, key) = Row(a, key)
  <2>1. \A key \in DOMAIN expected.additions : key = <<key[1], key[2]>>
    BY <1>11
  <2>. QED
    BY <2>1, PutRows
<1>. HIDE DEF extended, rows
<1>14. /\ Keys(o) = Keys(extended)
       /\ \A key \in patched : Row(o, key) = rows[key]
       /\ \A key \in Keys(extended) \ patched : Row(o, key) = Row(extended, key)
  <2>1. \A key \in DOMAIN rows : key = <<key[1], key[2]>>
    BY <1>2, <1>7, <1>11
  <2>. QED
    BY <1>7, <1>12, <1>13, <2>1, PutRows
<1>15. ASSUME NEW key \in Keys(a)
       PROVE  Row(o, key) \in Values /\ Same(Row(o, key), Row(z, key))
  <2>1. Row(z, key) \in Rows /\ Row(a, key) \in Rows
    BY <1>2 DEF Native
  <2>2. Rows \subseteq Values /\ \A x, y \in Rows : Patched(x, y) \in Values
    BY DEF Values
  <2>3. CASE key \in patched
    BY <1>9, <1>14, <2>1, <2>2, <2>3, ValuesAssumption
  <2>4. CASE key \notin patched
    BY <1>10, <1>13, <1>14, <2>1, <2>2, <2>4, ValuesAssumption
  <2>. QED
    BY <2>3, <2>4
<1>16. DOMAIN expected.additions \cap patched = {}
  BY <1>7
<1>. QED
  BY <1>2, <1>13, <1>14, <1>15, <1>16

(* e has, of a prototype, what w says of it.                                   *)
Wants(e, key, w) ==
    \/ key \notin Keys(e) /\ w = Nothing
    \/ key \in Keys(e) /\ w \in Values /\ Row(e, key) \in Values /\ Same(Row(e, key), w)

LEMMA VerdictOf ==
    ASSUME NEW e, NEW z, Native(z), NEW key, NEW w, Wants(e, key, w),
           NEW actual, actual = IF key \in Keys(z) THEN Row(z, key) ELSE Nothing
    PROVE  IF key \in Differences(e, z) THEN w # actual ELSE Lua(w) = Lua(actual)
<1>1. key \in Keys(z) => actual \in Values /\ actual # Nothing
  BY ValuesAssumption DEF Native, Values
<1>2. key \in Differences(e, z) <=>
        /\ key \in Keys(e) \/ key \in Keys(z)
        /\ key \in Keys(e) /\ key \in Keys(z) => ~Same(Row(e, key), actual)
  BY DEF Differences
<1>3. CASE key \notin Keys(e)
  BY <1>1, <1>2, <1>3 DEF Wants
<1>4. CASE key \in Keys(e)
  <2>1. w \in Values /\ Row(e, key) \in Values /\ Same(Row(e, key), w) /\ Lua(Row(e, key)) = Lua(w) /\ w # Nothing
    BY <1>4, ValuesAssumption DEF Wants
  <2>2. CASE key \notin Keys(z)
    BY <1>2, <1>4, <2>1, <2>2
  <2>3. CASE key \in Keys(z)
    <3>1. Same(Row(e, key), actual) => Lua(Row(e, key)) = Lua(actual)
      BY <1>1, <2>1, <2>3, ValuesAssumption
    <3>. QED
      BY <1>2, <1>4, <2>1, <2>3, <3>1
  <2>. QED
    BY <2>2, <2>3
<1>. QED
  BY <1>3, <1>4

(* What recovery records of one pair.                                          *)
LEMMA ProfileOf ==
    ASSUME NEW o, Oracled(o), NEW profile, profile = Oracle[o], NEW b, b = Capture[o[1]], NEW p, p = Capture[o[2]]
    PROVE  /\ profile.data = DiffDomain(b.raw, p.raw) /\ profile.settings = DiffDomain(b.settings, p.settings)
           /\ DiffDomain(b.raw, p.raw) # Refused /\ DiffDomain(b.settings, p.settings) # Refused
           /\ profile.excluded = {key \in DOMAIN profile.data.additions : Private(key)}
           /\ profile.retired = {key \in DOMAIN profile.settings.additions :
                                   "targets" \in DOMAIN Fields(profile.settings.additions[key])}
<1>1. /\ Recoverable(b, p, Published)
      /\ DiffDomain(b.raw, p.raw) # Refused /\ DiffDomain(b.settings, p.settings) # Refused
      /\ profile = RecoverProfile(o[1], b, p, Published)
  BY OracleOf
<1>2. PICK data : data = DiffDomain(b.raw, p.raw)
  OBVIOUS
<1>3. PICK settings : settings = DiffDomain(b.settings, p.settings)
  OBVIOUS
<1>4. PICK excluded : excluded = {key \in DOMAIN data.additions : Private(key)}
  OBVIOUS
<1>5. PICK retired : retired = {key \in DOMAIN settings.additions :
                                  "targets" \in DOMAIN Fields(settings.additions[key])}
  OBVIOUS
<1>6. profile = [receipt  |-> Receipt(o[1], b), data |-> data, settings |-> settings,
                 excluded |-> excluded, retired |-> retired]
  BY <1>1, <1>2, <1>3, <1>4, <1>5, Zenon DEF RecoverProfile
<1>7. profile.data = data /\ profile.settings = settings /\ profile.excluded = excluded /\ profile.retired = retired
  BY <1>6
<1>. QED
  BY <1>1, <1>2, <1>3, <1>4, <1>5, <1>7, Zenon

LEMMA AddedOf ==
    ASSUME NEW a, NEW z, NEW d, d = DiffDomain(a, z), d # Refused
    PROVE  /\ d = [additions |-> d.additions, patches |-> d.patches]
           /\ d.additions = [key \in Keys(z) \ Keys(a) |-> Row(z, key)]
<1>1. DiffPrototypes(a, z) # Refused
  BY DEF DiffDomain
<1>2. PICK diff : diff = DiffPrototypes(a, z)
  OBVIOUS
<1>3. diff.additions = [key \in Keys(z) \ Keys(a) |-> Row(z, key)]
  <2>. DEFINE added == [key \in Keys(z) \ Keys(a) |-> Row(z, key)]
              changed == [key \in Keys(a) \cap Keys(z) |-> Changes(Row(a, key), Row(z, key), <<>>)]
              patches == [key \in {k \in Keys(a) \cap Keys(z) : changed[k] # {}} |-> changed[key]]
  <2>1. diff = [additions |-> added, patches |-> patches]
    BY <1>1, <1>2, DiffOf
  <2>. HIDE DEF added, patches
  <2>2. diff.additions = added
    BY <2>1
  <2>. QED
    BY <2>2 DEF added
<1>4. PICK patches : patches = [key \in DOMAIN diff.patches |->
                                  [before |-> Row(a, key),
                                   after  |-> ApplyChanges(Row(a, key), diff.patches[key])]]
  OBVIOUS
<1>5. d = [additions |-> diff.additions, patches |-> patches]
  BY <1>1, <1>2, <1>4, Zenon DEF DiffDomain
<1>6. d.additions = diff.additions /\ d.patches = patches
  BY <1>5
<1>. QED
  BY <1>3, <1>5, <1>6, Zenon

LEMMA DataIntended ==
    ASSUME NEW o, Oracled(o), NEW b, b = Capture[o[1]], NEW p, p = Capture[o[2]],
           NEW made, made = OverlayDomain(b.raw, Intended(Oracle[o], "data")), made # Refused, NEW key
    PROVE  Wants(made, key, Wanted(b, p, <<>>, "data", key))
<1>1. PICK profile : profile = Oracle[o]
  OBVIOUS
<1>2. /\ profile.data = DiffDomain(b.raw, p.raw) /\ DiffDomain(b.raw, p.raw) # Refused
      /\ profile.excluded = {k \in DOMAIN profile.data.additions : Private(k)}
  BY <1>1, ProfileOf
<1>3. /\ profile.data = [additions |-> profile.data.additions, patches |-> profile.data.patches]
      /\ profile.data.additions = [k \in Keys(p.raw) \ Keys(b.raw) |-> Row(p.raw, k)]
  BY <1>2, AddedOf
<1>4. PICK left : left = {k \in Keys(p.raw) \ Keys(b.raw) : ~Private(k)}
  OBVIOUS
<1>5. PICK intended : intended = Intended(profile, "data")
  OBVIOUS
<1>6. /\ intended.additions = Restrict(profile.data.additions, DOMAIN profile.data.additions \ profile.excluded)
      /\ intended.patches = profile.data.patches
  BY <1>3, <1>5 DEF Intended
<1>7. DOMAIN intended.additions = left /\ \A k \in left : intended.additions[k] = Row(p.raw, k)
  <2>1. /\ DOMAIN profile.data.additions = Keys(p.raw) \ Keys(b.raw)
        /\ \A k \in Keys(p.raw) \ Keys(b.raw) : profile.data.additions[k] = Row(p.raw, k)
    BY <1>3
  <2>2. DOMAIN profile.data.additions \ profile.excluded = left
    BY <1>2, <1>4, <2>1
  <2>3. intended.additions = [k \in left |-> profile.data.additions[k]]
    BY <1>6, <2>2, Zenon DEF Restrict
  <2>4. left \subseteq Keys(p.raw) \ Keys(b.raw)
    BY <1>4
  <2>. QED
    BY <2>1, <2>3, <2>4
<1>8. o[1] \in Captures /\ o[2] \in Captures
  BY DEF Oracled, Pairs
<1>9. Native(b.raw) /\ Native(p.raw)
  BY <1>8, CaptureNative
<1>10. /\ Keys(made) = Keys(b.raw) \cup left
       /\ \A k \in left : Row(made, k) = Row(p.raw, k)
       /\ Keys(b.raw) \subseteq Keys(p.raw)
       /\ \A k \in Keys(b.raw) : Row(made, k) \in Values /\ Same(Row(made, k), Row(p.raw, k))
  <2>1. intended.patches = DiffDomain(b.raw, p.raw).patches /\ DOMAIN intended.additions \subseteq Keys(p.raw) \ Keys(b.raw)
    BY <1>2, <1>4, <1>6, <1>7, Zenon
  <2>2. made = OverlayDomain(b.raw, intended)
    BY <1>1, <1>5
  <2>. QED
    BY <1>2, <1>7, <1>9, <2>1, <2>2, Overlaid, SMTT(30)
<1>11. Wanted(b, p, <<>>, "data", key) =
         IF key \notin Keys(p.raw) \/ (key \notin Keys(b.raw) /\ Private(key)) THEN Nothing ELSE Row(p.raw, key)
  BY DEF Wanted
<1>12. \A k \in Keys(p.raw) : Row(p.raw, k) \in Values /\ Same(Row(p.raw, k), Row(p.raw, k))
  BY <1>9, ValuesAssumption DEF Native, Values
<1>. QED
  BY <1>4, <1>10, <1>11, <1>12 DEF Wants

LEMMA SettingsIntended ==
    ASSUME NEW o, Oracled(o), NEW b, b = Capture[o[1]], NEW p, p = Capture[o[2]],
           NEW made, made = OverlayDomain(b.settings, Intended(Oracle[o], "settings")), made # Refused, NEW key
    PROVE  Wants(made, key, Wanted(b, p, <<>>, "settings", key))
<1>1. PICK profile : profile = Oracle[o]
  OBVIOUS
<1>2. /\ profile.settings = DiffDomain(b.settings, p.settings) /\ DiffDomain(b.settings, p.settings) # Refused
      /\ profile.retired = {k \in DOMAIN profile.settings.additions :
                              "targets" \in DOMAIN Fields(profile.settings.additions[k])}
  BY <1>1, ProfileOf
<1>3. /\ profile.settings = [additions |-> profile.settings.additions, patches |-> profile.settings.patches]
      /\ profile.settings.additions = [k \in Keys(p.settings) \ Keys(b.settings) |-> Row(p.settings, k)]
  <2>1. PICK d : d = profile.settings
    OBVIOUS
  <2>2. d = DiffDomain(b.settings, p.settings) /\ d # Refused
    BY <1>2, <2>1
  <2>3. /\ d = [additions |-> d.additions, patches |-> d.patches]
        /\ d.additions = [k \in Keys(p.settings) \ Keys(b.settings) |-> Row(p.settings, k)]
    <3>1. PICK a : a = b.settings
      OBVIOUS
    <3>2. PICK z : z = p.settings
      OBVIOUS
    <3>3. d = DiffDomain(a, z)
      BY <2>2, <3>1, <3>2
    <3>4. d = [additions |-> d.additions, patches |-> d.patches] /\ d.additions = [k \in Keys(z) \ Keys(a) |-> Row(z, k)]
      BY <2>2, <3>3, AddedOf
    <3>. QED
      BY <3>1, <3>2, <3>4, Zenon
  <2>. QED
    BY <2>1, <2>3, Zenon
<1>4. PICK new : new = Keys(p.settings) \ Keys(b.settings)
  OBVIOUS
<1>5. PICK intended : intended = Intended(profile, "settings")
  OBVIOUS
<1>6. /\ intended.additions = [k \in DOMAIN profile.settings.additions |->
              IF k \in profile.retired THEN Stripped(profile.settings.additions[k]) ELSE profile.settings.additions[k]]
      /\ intended.patches = profile.settings.patches
  BY <1>3, <1>5 DEF Intended
<1>7. DOMAIN intended.additions = new
  BY <1>3, <1>4, <1>6
<1>8. o[1] \in Captures /\ o[2] \in Captures
  BY DEF Oracled, Pairs
<1>9. Native(b.settings) /\ Native(p.settings)
  BY <1>8, CaptureNative
<1>10. ASSUME NEW k \in new PROVE intended.additions[k] = Stripped(Row(p.settings, k))
  <2>1. PICK row : row = Row(p.settings, k)
    OBVIOUS
  <2>2. profile.settings.additions[k] = row /\ k \in DOMAIN profile.settings.additions
    BY <1>3, <1>4, <2>1, Zenon
  <2>3. intended.additions[k] = IF "targets" \in DOMAIN Fields(row) THEN Stripped(row) ELSE row
    BY <1>2, <1>6, <2>2, Zenon
  <2>4. row = Map([f \in DOMAIN Fields(row) |-> Fields(row)[f]])
    BY <1>4, <1>9, <2>1, ValuesAssumption DEF Native
  <2>5. ASSUME "targets" \notin DOMAIN Fields(row) PROVE Stripped(row) = row
    <3>1. (DOMAIN Fields(row)) \ {"targets"} = DOMAIN Fields(row)
      BY <2>5
    <3>. QED
      BY <2>4, <3>1, Zenon DEF Stripped, Restrict
  <2>. QED
    BY <2>1, <2>3, <2>5
<1>11. /\ Keys(made) = Keys(b.settings) \cup new
       /\ \A k \in new : Row(made, k) = intended.additions[k]
       /\ Keys(b.settings) \subseteq Keys(p.settings)
       /\ \A k \in Keys(b.settings) : Row(made, k) \in Values /\ Same(Row(made, k), Row(p.settings, k))
  <2>1. intended.patches = DiffDomain(b.settings, p.settings).patches
        /\ DOMAIN intended.additions \subseteq Keys(p.settings) \ Keys(b.settings)
    BY <1>2, <1>4, <1>6, <1>7, Zenon
  <2>2. made = OverlayDomain(b.settings, intended)
    BY <1>1, <1>5
  <2>. QED
    BY <1>2, <1>7, <1>9, <2>1, <2>2, Overlaid, SMTT(30)
<1>12. Wanted(b, p, <<>>, "settings", key) =
         IF key \notin Keys(p.settings) THEN Nothing
         ELSE IF key \notin Keys(b.settings) THEN Stripped(Row(p.settings, key)) ELSE Row(p.settings, key)
  BY DEF Wanted
<1>13. \A k \in Keys(p.settings) : /\ Row(p.settings, k) \in Values
                                   /\ Stripped(Row(p.settings, k)) \in Values
  BY <1>9 DEF Native, Values
<1>14. \A x \in Values : Same(x, x)
  BY ValuesAssumption
<1>. QED
  BY <1>4, <1>10, <1>11, <1>12, <1>13, <1>14 DEF Wants
(* What a reviewer put in the place of a prototype is wanted instead.          *)
LEMMA ReviewWanted ==
    ASSUME NEW b, NEW p, NEW review \in Reviews, ReviewValid(review), NEW domain, NEW key,
           NEW made, Wants(made, key, Wanted(b, p, <<>>, domain, key)),
           NEW e, Says(made, e, review, domain, Len(review), key)
    PROVE  Wants(e, key, Wanted(b, p, review, domain, key))
<1>. DEFINE reviewed == {i \in DOMAIN review : review[i].domain = domain /\ review[i].key = key}
<1>1. DOMAIN review = 1..Len(review)
  BY ReviewsAssumption
<1>2. CASE /\ \A i \in 1..Len(review) : ~Names(review, i, domain, key)
           /\ key \in Keys(e) <=> key \in Keys(made)
           /\ key \in Keys(made) => Row(e, key) = Row(made, key)
  <2>1. reviewed = {}
    BY <1>1, <1>2 DEF Names
  <2>2. {i \in DOMAIN <<>> : <<>>[i].domain = domain /\ <<>>[i].key = key} = {}
    OBVIOUS
  <2>3. Wanted(b, p, review, domain, key) = Wanted(b, p, <<>>, domain, key)
    BY <2>1, <2>2 DEF Wanted
  <2>. QED
    BY <1>2, <2>3 DEF Wants
<1>3. ASSUME NEW i \in 1..Len(review),
             /\ Names(review, i, domain, key)
             /\ review[i].value # Nothing => key \in Keys(e) /\ Row(e, key) = review[i].value
             /\ review[i].value = Nothing => key \notin Keys(e)
      PROVE  Wants(e, key, Wanted(b, p, review, domain, key))
  <2>1. i \in reviewed
    BY <1>1, <1>3 DEF Names
  <2>2. ASSUME NEW k \in reviewed PROVE k = i
    <3>. DEFINE place == [n \in DOMAIN review |-> <<review[n].domain, review[n].key>>]
    <3>1. place[i] = place[k] /\ i \in DOMAIN place /\ k \in DOMAIN place
      BY <2>1
    <3>2. IsInjective(place)
      BY DEF ReviewValid
    <3>. HIDE DEF place
    <3>. QED
      BY <3>1, <3>2 DEF IsInjective
  <2>3. PICK j : j = CHOOSE k \in reviewed : TRUE
    OBVIOUS
  <2>4. j = i
    BY <2>1, <2>2, <2>3
  <2>5. Wanted(b, p, review, domain, key) = review[j].value
    BY <2>1, <2>3 DEF Wanted
  <2>6. review[i].value # Nothing => review[i].value \in Values
    <3>1. i \in DOMAIN review
      BY <1>1
    <3>2. review[i].value \in UNION {{r[k].value : k \in DOMAIN r} : r \in Reviews}
      BY <3>1
    <3>. QED
      BY <3>2 DEF Values
  <2>. QED
    BY <1>3, <2>4, <2>5, <2>6, ValuesAssumption DEF Wants
<1>. QED
  BY <1>2, <1>3, Zenon DEF Says

(* The two domains of a verdict.                                               *)
LEMMA NamedExactly ==
    ASSUME NEW j, Judged(j), NEW key,
           NEW b, b = Capture[j.b], NEW p, p = Capture[j.outputs[2]], NEW c, c = Capture[j.c],
           NEW review, review = j.given[1]
    PROVE  /\ LET wanted == Wanted(b, p, review, "data", key)
                  actual == IF key \in Keys(c.raw) THEN Row(c.raw, key) ELSE Nothing
              IN  IF key \in j.outcome.data THEN wanted # actual ELSE Lua(wanted) = Lua(actual)
           /\ LET wanted == Wanted(b, p, review, "settings", key)
                  actual == IF key \in Keys(c.settings) THEN Row(c.settings, key) ELSE Nothing
              IN  IF key \in j.outcome.settings THEN wanted # actual ELSE Lua(wanted) = Lua(actual)
<1>1. Oracled(j.outputs) /\ j.c \in Captures /\ review \in Reviews
  BY DEF Judged
<1>2. PICK o : o = j.outputs
  OBVIOUS
<1>3. PICK data : data = OverlayDomain(b.raw, Intended(Oracle[o], "data"))
  OBVIOUS
<1>4. PICK settings : settings = OverlayDomain(b.settings, Intended(Oracle[o], "settings"))
  OBVIOUS
<1>5. PICK d : d = ApplyReviewed(data, review, "data")
  OBVIOUS
<1>6. PICK s : s = ApplyReviewed(settings, review, "settings")
  OBVIOUS
<1>7. /\ j.b = o[1] /\ ReviewValid(review) /\ data # Refused /\ settings # Refused
      /\ j.outcome = [data |-> Differences(d, c.raw), settings |-> Differences(s, c.settings)]
  BY <1>2, <1>3, <1>4, <1>5, <1>6, JudgedBy
<1>8. b = Capture[o[1]] /\ p = Capture[o[2]] /\ Oracled(o)
  BY <1>1, <1>2, <1>7
<1>9. j.outcome.data = Differences(d, c.raw) /\ j.outcome.settings = Differences(s, c.settings)
  BY <1>7
<1>10. Native(c.raw) /\ Native(c.settings)
  BY <1>1, CaptureNative
<1>11. Wants(d, key, Wanted(b, p, review, "data", key))
  <2>1. Wants(data, key, Wanted(b, p, <<>>, "data", key))
    BY <1>3, <1>7, <1>8, DataIntended
  <2>2. Says(data, d, review, "data", Len(review), key)
    BY <1>1, <1>5, ReviewApplied DEF Reviewed
  <2>. QED
    BY <1>1, <1>7, <2>1, <2>2, ReviewWanted
<1>12. Wants(s, key, Wanted(b, p, review, "settings", key))
  <2>1. Wants(settings, key, Wanted(b, p, <<>>, "settings", key))
    BY <1>4, <1>7, <1>8, SettingsIntended
  <2>2. Says(settings, s, review, "settings", Len(review), key)
    BY <1>1, <1>6, ReviewApplied DEF Reviewed
  <2>. QED
    BY <1>1, <1>7, <2>1, <2>2, ReviewWanted
<1>13. PICK is : is = IF key \in Keys(c.raw) THEN Row(c.raw, key) ELSE Nothing
  OBVIOUS
<1>14. PICK was : was = IF key \in Keys(c.settings) THEN Row(c.settings, key) ELSE Nothing
  OBVIOUS
<1>15. PICK w : w = Wanted(b, p, review, "data", key)
  OBVIOUS
<1>16. PICK v : v = Wanted(b, p, review, "settings", key)
  OBVIOUS
<1>17. IF key \in Differences(d, c.raw) THEN w # is ELSE Lua(w) = Lua(is)
  BY <1>10, <1>11, <1>13, <1>15, VerdictOf
<1>18. IF key \in Differences(s, c.settings) THEN v # was ELSE Lua(v) = Lua(was)
  BY <1>10, <1>12, <1>14, <1>16, VerdictOf
<1>. QED
  BY <1>9, <1>13, <1>14, <1>15, <1>16, <1>17, <1>18

(* A verdict names exactly the prototypes in which the candidate differs from  *)
(* what it is to have, however the captures change between the reads of a      *)
(* comparison and since the oracle was recovered (_overlay_domain,             *)
(* _apply_reviewed, _difference_summary).                                      *)
THEOREM VerdictsAreExact == Spec => []VerdictExact
<1>1. Trusted => VerdictExact
  <2>1. SUFFICES ASSUME Trusted, NEW k \in Comparers, job[k].pc = "done"
        PROVE  LET b == Capture[job[k].b]
                   p == Capture[job[k].outputs[2]]
                   c == Capture[job[k].c]
                   review == job[k].given[1]
                   exact(domain, found, had, was, is) ==
                \A key \in Keys(had) \cup Keys(was) \cup Keys(is) \cup {review[i].key : i \in DOMAIN review} :
                    LET wanted == Wanted(b, p, review, domain, key)
                        actual == IF key \in Keys(is) THEN Row(is, key) ELSE Nothing
                    IN  IF key \in found THEN wanted # actual ELSE Lua(wanted) = Lua(actual)
               IN  /\ exact("data", job[k].outcome.data, b.raw, p.raw, c.raw)
                   /\ exact("settings", job[k].outcome.settings, b.settings, p.settings, c.settings)
    BY DEF VerdictExact
  <2>2. PICK j : j = job[k]
    OBVIOUS
  <2>3. Judged(j)
    BY <2>1, <2>2 DEF Trusted, Reading, Runs
  <2>4. \A key :
          /\ LET wanted == Wanted(Capture[j.b], Capture[j.outputs[2]], j.given[1], "data", key)
                 actual == IF key \in Keys(Capture[j.c].raw) THEN Row(Capture[j.c].raw, key) ELSE Nothing
             IN  IF key \in j.outcome.data THEN wanted # actual ELSE Lua(wanted) = Lua(actual)
          /\ LET wanted == Wanted(Capture[j.b], Capture[j.outputs[2]], j.given[1], "settings", key)
                 actual == IF key \in Keys(Capture[j.c].settings) THEN Row(Capture[j.c].settings, key) ELSE Nothing
             IN  IF key \in j.outcome.settings THEN wanted # actual ELSE Lua(wanted) = Lua(actual)
    BY <2>3, NamedExactly, Zenon
  <2>. QED
    BY <2>2, <2>4, Zenon
<1>. QED
  BY <1>1, TrustedAlways, PTL
==============================================================================
