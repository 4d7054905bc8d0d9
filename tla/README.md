# A verification development for More Infinite Research

More Infinite Research (MIR) is a Factorio mod. Its data stage generates endless
technologies once, before a game exists; its control stage is a single Lua state whose
event handlers watch research, forces, damage, windows and ticks. One handler runs at a
time, so there are no data races. What is hard is everything around the handlers:

- **The native state is shared.** Technology levels, `enabled` flags, the research queue and
  one global spoilage modifier belong to the engine. Players, scripts and other mods write
  them at any time, also between an event and MIR's handler of it.
- **Saves outlive configurations.** A save is loaded with other mods, other startup
  settings or another edition of MIR. Durable state then describes a world that has
  changed, and may name forces whose index has been reused.
- **Only `storage` is saved.** Module locals and conditional event subscriptions are not;
  `on_load` must rebuild them from storage, and every client of a multiplayer game must
  rebuild the same.
- **Earned things must neither be lost nor minted**: research levels, invested science,
  and the right to re-enable what MIR disabled.
- **A refusal is an error.** Where a save cannot be explained the mod stops the game
  rather than guess, so refusing too much is a failure as well.

Around the mod stands a set of Python tools in `src/tools` that package it, freeze and
verify releases, and rebuild and compare captures of the running game. Each run is one
sequential process, but its subject is files: commits, worktree records, tool files,
captures, archives and outputs that change between two of its reads, that a stopped run
leaves half written, and that two runs may share. What is hard there is custody: that what
a receipt, an inventory or a verdict says is true of the bytes it names.

The modules here are translations of `src/source/runtime` (with the parts of
`src/source/research` that define its constants) and of `src/tools`. `PROJECT.json` names
for every definition the lines it stands for.

## Inventory

### Parts of the running mod

| Part | State it keeps | Operations | What makes it correct |
| --- | --- | --- | --- |
| Level caps (`caps.lua`, `lifecycle.lua`, `legacy_caps.lua`) | `storage.mir` owned_disabled rows per force and technology | reconcile on init, configuration, research, queue, effects-reset, force and Discovery Tree events; one-time import of a MIR4 ledger | enables only what it disabled; no level above the cap completes; invested work survives; rows match caps |
| Gun-speed credits (`native_gun_credits.lua`) | per force: masks, counts, pending work; a volatile flag | preflight, plan, apply; completion; cancellation; force boundaries; load | every category keeps natively what was paid for |
| Recipe-productivity credits (`native_credits.lua`) | per force and recipe: inclusion, offset, pending work; per family a complete history; a volatile flag | the same, per family, and overlap pairs | every recipe has in effect what it earned |
| Passive repair (`passive_repair.lua`) | queue and member table; a conditional tick | damage event, n-th tick, configuration, load | queue and table agree; bounded; patient; nobody starves |
| Spoilage (`spoilage.lua`, `spoilage_contribution.lua`, `scripted_effects.lua`) | baseline, applied factor and last value of one global modifier | reconcile, retire | MIR's factor is in the modifier once while the feature is on, and taken out when it is retired, unless a foreign write came between |
| Library translations (`library_translations.lua`, parts of `library.lua`) | per player: cache, ledger of issued requests and its saved copy; a conditional tick | open, close, filter, answer, maintenance, player events, load | labels are fresh; the window holds; requests expire; a joining client agrees |
| Event composition (`bootstrap.lua`, `control.lua`) | subscriptions | orders the parts; refuses before the first write | one refusal leaves nothing half done |
| Imersite handoff (`k2_imersite_migration.lua`) | handoff records per force | one transaction over four technologies and the queue, with rollback | earned levels and progress conserved; all or nothing |
| Competing productivity (`competing_productivity.lua`) | a second owned_disabled ledger | reconcile, retire, clear | as level caps, for another provider's technologies |
| One-time legacy credits (`legacy_module_credits.lua`, `legacy_cannon_credits.lua`, `finite_research_speed.lua`) | hidden holders' levels; one marker | preflight, check again, write | credited once, for all forces or none |
| Agriculture (`agriculture.lua`) | none (a legacy snapshot is carried) | one callback | a plant ripens earlier, never in the past |
| Library model and windows | per-player view | filter, sort, draw | functions of the game's state |
| Settings profile, commands, diagnostics, catalogue | none others read | export, report | |

### Parts of the data stage

The generator (checks, orders and publishes the technologies at once), the science policy,
the research definitions and settings, the compatibility profiles, the prototype overrides,
the public API's admission of families, the RIC integration, the reduced editions for older
engines, and JSON name migrations. They are sequential functions evaluated once; their
results reach the running mod as constants, and reach the modules as configurations.

### Tools

| Part | State it keeps | Operations | What makes it correct |
| --- | --- | --- | --- |
| Player packaging (`package.py`) | none; one archive written | select an edition, an early edition or a local rename of the committed tree; close the imports; write | every package holds what it can reach and nothing of another edition; one release, one name |
| Release freezing (`release.py`) | an output directory: archives, checksums, inventory | freeze, verify | custody: claimed once, sealed once, accepted only as sealed; intact releases verify |
| Offline replays (`replay.py`, `compose_replay.py`, `compare_captures.py`) | a replay root; a composition root | build, compose, compare | a replay restores what was published; a composition is what its receipts say |
| Modern catalogue (`recover_modern_catalogue.py`) | an inventory file | recover, compare | a verdict names exactly what differs, of captures that may be compared |
| Benchmark readers, repository checks, renderings | none | read, print | |

### How they interact

`control.lua` loads `bootstrap.lua`, which owns the handlers. An engine event calls the
parts in one fixed order (lifecycle, native credits, competing productivity, scripted
effects, Library). A configuration change first runs every preflight, which may refuse,
and only then writes: Imersite handoff, lifecycle, native credits, competing productivity,
spoilage, legacy credits, gun credits, Library, repair. The parts share native state (the
queue and the levels that caps, credits and the handoff all read) and the conditional
subscriptions, which bootstrap rebinds when a part's need changes. Writing native state
raises further events, which the engine queues behind the present one. Discovery Tree,
another mod, rewrites enablement from its own handlers and runs before MIR.

`release.py` imports `package.py`, which builds every archive; freezing ends with a
verification, which builds them again into a temporary directory. Both read git, the
worktree and the two tool files. `compose_replay.py` reads the replay that `replay.py`
wrote and the published archive; `replay.py` and `recover_modern_catalogue.py` read the same
captures, and `compare` reads the inventory that `recover` wrote. All of them meet only in
files.

### Hard behaviours

`PROJECT.json` lists them under `hazards`, each at its line with the properties that would
catch it. In short: foreign writes between event and handler; ledgers keyed by indexes that
are reused; rows that outlive their technology; imports of old ledgers; flags and
subscriptions lost at load; work queued under one configuration and completed under
another; windows and queues at their bounds; answers late, out of order or never; a queue
rewrite that raises events whose handler rewrites the queue. For the tools: what is read
twice and changes between, a run that stops between two writes, two runs that find the same
output fresh, and values that Python and the game compare differently.

## Modules

The state of a handler's world is a few variables; a handler is one action that does
everything the handler does, guarded by `Takes`/`Taken` on the event it answers. The engine
is modelled by actions that are marked external in the map. The game moves on only when
every raised event has been handled (`Quiet`), as the engine guarantees, while writes of
other mods are allowed in between.

| Module | What it models |
| --- | --- |
| `Caps` | The ledger of level caps. `CapOff`, `Release`, `PolicyOff` and `Bound` are the branches of `caps.reconcile` and `reconcile_force` on one technology; `ReconcileAll` and `ReconcileNamed` are `reconcile_event` with and without a technology; `WithinCaps`, `WithoutUnavailable`, `TakenOver` (what the setter takes over of a rewritten queue) and `WorkAfter` the rewriting of the queue; `ImportCell` and `Reenabled` the MIR4 import. |
| `CapsHistory` | `Caps` with a history: did MIR turn this technology off since the force last started over, what did it find, did anybody touch it since. |
| `CapsProofs` | The theorems about `CapsHistory`. |
| `GunCredits`, `GunRights` | The category credits, and the history of what was paid. `Plan` is the pure part of `plan_force`, `Refuses` its refusals, `Reconcile` preflight and apply. |
| `GunProofs` | The theorems about `GunRights`. |
| `NativeCredits`, `CreditsEarned` | The recipe credits of one technology, its family and its overlap pairs, and the history of what each recipe earned. `Row` is one row of `preflight_family_transition`, `Disputed` and `Unretirable` its refusals. |
| `CreditsProofs` | The theorems about `CreditsEarned`. |
| `PassiveRepair`, `RepairHistory` | The repair queue; saved ticks are kept as steps left. The history counts the steps since an entity was last hit. |
| `RepairProofs` | The theorems about `RepairHistory`. |
| `Spoilage`, `SpoilageHistory` | The global modifier in logarithmic steps, so that factors add. The history keeps an account of MIR's own writes: what they come to (`own`), the modifier after the last of them (`seen`), and what of `own` stays in for good (`left`). It only watches, and is never set back. |
| `SpoilageProofs` | The theorems about `SpoilageHistory`. |
| `Translations` | One Library desk per player index: view, cache, both ledgers and the engine's side of the requests. |
| `TranslationProofs` | The theorems about `Translations`. |
| `Packaging` | `package.py` as operators: `Admitted`, the version codec (`Codec`, `Recoded`), `RequireClosure`, `SelectEdition`, `SelectEarlyEdition`, `RenderLocalMirTargetVersion`, `Members`. A file is the set of modules it requires and a text; `Whole` and `SameRelease` are what a package promises, `Offered` and `Body` what a source has to bring along for it. |
| `Releases` | `freeze` and `verify`, one action for each read or write that others can come between: the identities, the output, opening and closing each file in `WriteOrder`, the inventory, the list, the comparisons in `CheckOrder`. `Allowed` is what each step demands; `Refuse` the exception if it does not hold, `Crash` a stop, `World` what git, editors and the file system do meanwhile. The bytes of a file are the commit's source and record and the version of the tool that made them. |
| `Custody` | The abstract output: none, filling, sealed for a commit, spoiled; who looks at which seal and who accepted what. |
| `ReleaseProofs` | The theorems about `Releases` and `Packaging`. |
| `Prototypes` | `_diff_prototypes` and the stage `_render_stage` writes, by what it does when it is run; what is said of single values is a constant. |
| `JsonValues` | Those constants for TLC, by recursion over JSON: `_same_json_value`, `_changed_fields`, an assignment through a path, `lua_value`. |
| `Catalogue` | What `replay.py` and `recover_modern_catalogue.py` take for a capture, `RecoverProfile`, the intent, the review and the verdict (`CompareCandidate`), and `compare_captures.py`. |
| `Replays` | `build_replay`, `compose_replay`, `recover` and `compare`, one action for each read or write, over shared captures, archive, replay and composition. |
| `ReplayProofs` | The theorems about `Replays` and what it is built from. |
| `MC*` | Instances for TLC. |

The history modules restrict nothing: they extend each step with what they record. They
are the abstract statement of what a component owes (the levels paid, the sum of what MIR
added to the modifier, what MIR turned off), and their properties say that the component's state amounts to it.

Data abstractions: a force, technology, recipe, category or label is a model value; levels
are numbers; a prototype contract is a flag of a configuration (does the row still match);
`saved_progress` is present or absent; effect sizes are one unit per level, which is what
makes credits of equal effects addable in the code too. Malformed saved state, which the
code refuses by type checks, is not enumerated. In the tools, a hash is the content it is
the hash of; JSON keeps the spelling of numbers, which is what Python and Lua see
differently.

## Runs

| Run | Instance | What it shows |
| --- | --- | --- |
| `caps_ledger` | one force, one technology, 12 configurations: every row kind, Discovery Tree absent, plain and queue-aware, from new games and MIR4 saves; levels to 3, queue to 2 | Rights are proven, the ledger matches the caps when quiet, only MIR's own disablements are undone, nothing is revealed under Discovery Tree. |
| `caps_forces` | two forces, one technology, a cap lowered, lifted and withdrawn | No right crosses a reset, a reused index or a merge; a closed row gives the found flags back, and the row of a technology that policy merely disables is kept for that. |
| `caps_queue` | one force for the whole game, two technologies no other mod shows or hides, queue of two, levels to 3, with fairness | No level above the cap completes; the work of no research is lost that is current, unavailable, or enabled and within its cap, whatever the setter leaves out; MIR's own queue events die out. |
| `gun_credits` | two forces, two categories, holders of 2, levels to 3, queue to 2 | Natively each force has what it paid for; pending work, subscription and queue agree; refusals have a cause. |
| `credits_earned` | two forces, a family recipe and an overlap recipe, carriers of 1, levels to 2, queue to 2 | Each recipe has in effect what it earned; owed work is heard; refusals have a cause. |
| `credits_minted` | one force | A violation: see the findings. |
| `repair` | three walls, a queue of two, a budget of one, alliances, the setting, loads, with fairness | Queue and members agree, the subscription follows, repairs are allied, patient and bounded, every queued wall is repaired or dropped unless hit again. |
| `spoilage_share` | two player forces, an enemy, five steps of modifier, three step sizes, five feature states, eight steps left behind | MIR's writes together come to one share, or to none while the feature is inactive, but for what foreign writes made it leave in. |
| `library_labels` | one player, two views, two sites, a window of one, two request ids | Labels, window, expiry, joining clients and the subscription. |
| `library_stale` | the same with one view and two labels | A violation: see the findings. |
| `release` | two runs over one output, two retained targets (one reduced) and an early one, two sources (one cannot be packaged), two records, two versions of the tool, two commits, one damage | Freezing and verifying refine `Custody`, intact outputs verify, sealed ones can be played; and of the packager, over all graphs of imports among a few modules, a file missing or a link, versions up to the last patch and metadata of another release or mod: packages are whole, refused only for cause, and each release has one name. |
| `captures` | ten captures at three roots, three archives, two builders, two composers, one recovery, one comparison, two changes from outside | Finished replays restore, compositions are what their receipts say, builders leave others' roots alone, verdicts are exact and between like captures. |

### Why the bounds are enough

For the mod: the code treats forces, technologies, recipes and entities alike and each alone, so what
can go wrong between two of them needs two; three walls are taken to have one waiting
behind a full queue. Levels matter only by their distance to a cap, to a recorded level or
to a representable limit: a cap of 1 with levels to 3 has below, at and two above; a queue
of two entries has the repetition that `filter_queue` counts. The native limits (2^32-1
levels, 256 queue entries, 16 requests, 600 and 60 ticks) are replaced by limits of 1 to 3
and are reached in every run that has them. Configuration changes are not bounded at all:
each run takes any number in any order. `MaxLevel`, `MaxQueue`, `MaxCompleted`, `LastId`,
the tick counters `Quiet`, `Interval` and `Expiry`, and `MaxLeft` (what MIR leaves behind in
the modifier, one share and one clamp at a time, which accumulates) are the only bounds, each
named in its module. In `repair`, two walls and a third that is either with them or abroad are all the
code distinguishes: it asks each member for its own force and surface. A wall there is whole after one repair, so
that one put back in the queue after a repair, still damaged, is not met; `RepairsInTurn` is
proved for any health. Deadlock checking is off in the
two credit modules, since a refusal stops the game, and in the runs of the tools, which end.

For the tools: a second process matters only in what it shares with the first. In `release`
that is the output directory, so the second run joins while there is one commit, one
tool and nothing edited in the worktree; one run is explored through all histories with a second commit and through all with
an edited tool, which no step of the code relates. In
`captures` a run of the catalogue and a run of a replay share nothing but captures they
only read, so they are explored apart; a composer starts once there is a receipt, since
without one it does nothing but fail. An archive that was replaced is not put back, and
captures change at most twice (`MaxChanges`): a change between any two reads, and one back or
beside it. The captures differ from a good one in one respect each that a tool must tell apart: a
patched prototype, another load order, a removal, an altered file, a switch for a number.
Three editions are one of each shape the packager knows: its own, reduced and early.

### Fairness

Safety and action properties are checked without fairness. `Caps!FairSpec` assumes that
the engine dispatches raised events (weak fairness of MIR's handlers and of Discovery
Tree's), which it does before the game goes on; nothing is assumed of players or other
mods. `PassiveRepair!FairSpec` assumes the same of the damage and tick handlers, and strong
fairness of `Advance`: between two damage events the clock may be stopped, but one game
step holds finitely many of them, so the clock runs on however often walls are hit. The
tools are modelled without fairness: a process may be stopped for good at any step.

### Findings

- `library_stale`: a Library reopened while its window is full of an earlier view's requests
  asks for nothing when the last of them is answered before the next maintenance tick: the
  ledger is then empty, the tick is uninstalled, and the open view waits for something else
  to draw it.
- `credits_minted`: a recipe first listed while the technology is hidden and work queued
  earlier is unfinished is paid that work's level, which the repository's own test calls an
  effect the old work did not earn.
Each is a property of its own that quotes the line it takes at its word; the passing runs
state what the code does keep.

Met while modelling, and not run as findings:

- A queued wall hit while its force is briefly not an ally keeps its old quiet time, against
  the README's "10 seconds without damage"; `RepairsPatiently` says what is kept.
- `compose_replay` makes its root inside the `try` that removes it. A composer that loses
  the race for a fresh root therefore removes the winner's files; `raced` marks it, and
  `ComposedExactly` is stated until then. `build_replay` makes its root before its `try` and
  does not have this (`OthersKept`).
- The composer hashes the published archive, opens its path again, and hashes it once more
  for the receipt without comparing. If the archive is replaced meanwhile the receipt names
  the other source; if it is replaced and put back, nothing would tell.
- `_write_new_json` looks whether the inventory exists and then writes: two recoveries at
  once may both write it. Each writes a whole file, and one recovery is modelled.
- What the queue's setter leaves out of the rest of a queue is checked and repaired for
  unavailable research alone (`caps.lua:77-105`, with `lifecycle.lua:528-529`). A first entry
  that others disabled, or that the policy has just disabled, may therefore go with its
  progress when MIR filters a later entry above its cap: the progress is written back only
  while the entry is still current, and saved only for unavailable research. `spec/runtime.md:33`
  has the queue and the current progress preserved; `WorkKept` says what is.
- When the feature is retired after another mod wrote the spoilage modifier, MIR's factor
  stays in it (`spoilage_contribution.lua:48-49`; `tests/test_spoilage.py` has it so, in
  `test_disable_never_overwrites_an_observed_foreign_value`). Switched on again, the feature
  adds its factor once more on top. `ContributedOnce` counts what stays in `left`, and keeps
  it apart from the share MIR owns.
- A release can be verified only while the worktree has its records as HEAD has them
  (`package.py:82-98`, `release.py:426-429`): a later commit that deletes an early record, or
  an edit that is not committed, makes an intact release refuse. `IntactVerifies` states that
  condition.
- The record and changelog checks of a freeze read HEAD and the worktree, whatever commit is
  frozen: a clean worktree at a newer commit freezes an older one by the older record.

## Proofs

TLC checks each instance above; the theorems below hold for every value of the constants
that satisfies the assumptions the modules name. Every invariant and every action property of
the passing runs is proved; what stays with TLC is listed at the end.

Three things are common to these proofs. None of the properties is inductive as it stands:
each theorem comes from a stronger invariant, checked by TLC before it was proved, whose
parts say what holds while an event waits, a run is half way or a row is out of date. The
proof of a step has one lemma for each action or handler, under lemmas about the pure
operators it is made of. And what a recursive function computes is proved by induction: the
library's induction theorems take an operator as a parameter, which the provers cannot
instantiate, so `NatSetInduction` derives from well-foundedness the form of it that speaks
of a set of naturals, and each function has an existence lemma of its own.

### Level caps (`CapsProofs`)

For any finite set of forces, any technologies and configurations and any bounds:

- `LedgerTypeCorrect`, `CapsTypeCorrect`: native cells, ledger rows, imported rows and the
  history keep their types; so do queues, invested work and events, and no queue outgrows
  the bound;
- `RightsAreProven`: no row says "MIR disabled this" unless MIR did, since the force's last start;
- `OnlyOwnAreRestored`: no handler turns on what MIR did not turn off;
- `HiddenStayHidden`: no handler turns anything on while Discovery Tree is present;
- `LedgerIsExact`: once every event is handled, the ledger lists exactly what is above its
  cap, and disabled generated rows;
- `BaselineIsReturned`: closing a row of an admitted technology gives back the flags MIR
  found. It is stated for new games without Discovery Tree, as its run checks it: a row
  imported from MIR4 has the flags that MIR4 found, and with Discovery Tree a row records
  what that mod showed last, so neither is what this history opened with. The row of a
  technology that policy merely disables is not closed at all;
- `NoOverCapIsCompleted`: the research the player's game finishes is never above its cap;
- `WorkIsKept`: whatever the setter leaves out of a rewritten queue, MIR loses the progress
  of no research that stays current, that is unavailable, or that is within its cap and
  enabled before and after;
- `EventsAreFinite`: while events wait no queue grows, a handler takes the first event and
  adds others only if a queue got shorter, and nothing else adds any (`EventsRunOut`). Each
  event therefore leads to finitely many; `EventsDrain`, that they are all handled, then
  needs only that the engine dispatches them.

The first three rest on `IInv`:

- `CellTypeOK /\ HistTypeOK`, since every branch of reconcile reads the row's optional fields;
- `RightsKnown`: not only a row's `disabled` but also its `discovery` observation can turn a
  technology on, so both must be backed by a write of MIR's, except on a force whose start
  has not been handled, or that is gone;
- `UnmetNext`: the start of a force is handled before anything else, which closes the first
  exception;
- `ImportPending /\ OldRightsProven`: the MIR4 ledger is read only by the first configuration
  event, and what it proves was MIR4's own write; nothing can intervene but foreign flags.

The argument follows the code: what one pass does to one technology (`PolicyOffCell`,
`CapOffCell`, `ReleaseCell`, joined in `ReconcilePasses`), then to all (`PassEffect`), then
each of the nine handlers (`MirStep`), the engine and other mods (`WorldStep`), and the start
of a force (`BoundaryStep`).

`LedgerIsExact` adds `LedgerFollows`: every cell matches its cap, or the first event in line
has it reconciled (`Covers`); `Handled` and `OnePass` say that a handler makes match what its
event covers. `BaselineIsReturned` adds `AllReturn`: while nobody else wrote its flags, a row
still says what the history opened with.

The queue needs more, as a rewrite of the queue raises events while others wait.
`HeadsWatched` says that a research above its cap is first in line only while some event
waits that filters it out (`Filters`: one that has it reconciled, or its own `started`); the
game moves on only when none waits. `FilterKeeps` is what `filter_queue` leaves of a queue,
by induction over its entries; `QueueEffect` is what one pass over the forces does and which
events it raises, `MovesUp` that events in line only move up. `TakenOver` leaves the setter free to
omit anything but a first entry that can be researched (`Firm`), and `RestQueue` is what that
may do to a queue. `WorkIsKept` follows from what one pass saves or writes back
(`WorkAfterType`, `OpenQueue`, `RestQueue`) and from `PolicyRetires`: where the policy ran,
none of the technologies it speaks of is enabled afterwards;
`EventsAreFinite` follows from the same lemmas: what is kept is no longer than what was queued,
and where it is as long the same research leads it, so that no event is raised.

### Gun-speed credits (`GunProofs`)

For any forces, any non-empty set of categories, any limit of a holder and any bounds:

- `PaidLevelsKept`: each force has natively exactly the levels of each category it paid for;
- `WorkHeard`, `WorkQueued`: the subscription follows the rows that wait for queued work, and
  none waits for more than is queued;
- `GunTypeCorrect`: types, and no holder is written a level it cannot store;
- `NoGroundlessRefusal`: as long as no script moved a level and every count is storable, no
  handler refuses.

What makes the first inductive is `Due`: each kind of event MIR has not handled yet leaves
the force it names in a state of its own, and every other force `Kept`. A completed level is
`Uncredited`, one short in the categories its row promised; a cancellation is `Uncancelled`;
a force that starts over is `Begun`; after a load every row is `Saved`, that of a mask which
may no longer be the loaded one; before the first configuration a force is `Unknown`.
`PlanKeeps` is the arithmetic of `plan_force`: with the planned holders the force has what
it earned under the previous mask. `ReconcileKeeps` lifts it to one pass over any forces,
each handler then has its own `...Step`, and the engine's actions lead from `Kept` into the
states above. The history's `owed` and `promise` have to be in the invariant because the
row's `pending` and `payable` are only right relative to them.

For the refusals, `Sane` says that the row of a force is what the force natively has, that a
category is kept by at most one of its two holders, that no category was paid more levels
than were completed, and that a row waiting for work knows the count of completed levels but
for the one just completed. From these every refusal of `observe`, `plan_force` and
`on_research_finished` is refuted in turn (`Accepted`, `FinishedSane`).

### Recipe credits (`CreditsProofs`)

For any forces, family and overlap recipes, inputs and limits: `EarnedLevelsKept`,
`RefusalsHaveCause`, `OwedWorkHeard` and `CreditTypeCorrect`. The theorems have the
hypothesis `~Strict`, which selects the reading of "earned" that the code follows: work
queued before a recipe was listed pays it. Under the other reading `NothingMinted` is
violated (`credits_minted`).

`IInv` has the argument of `GunProofs` twice over, for the inputs that are loaded and for
those a ledger was saved under. `Recorded`: between loads the row of each listed recipe is
that of the loaded inputs, its carrier holds the row's offset, and a recipe no longer listed
has neither. `Backed`: what was earned is what row and completed levels explain
(`Explained`). `Promising`: hidden work pays what the row says, and the row waits for all of
it. `Counted`: while anything is owed, every completion was counted, which is why losing the
flag would lose a payment. A completion or cancellation that waits is subtracted again
(`SeenDone`, `SeenQueued`). After a load a force is either `Saved` (all of this relative to
the inputs of its row, whose recipes are still listed unless the save is foul) or
`Unexplained` (no ledger; its levels say where it can come from). `RefusedForCause` is in
`IInv` itself: that a handler does not refuse is part of the argument that what it writes is
right.

### Passive repair (`RepairProofs`)

For any entities, places and bounds: `RepairsArePatient`, `QueueMatchesMembers`,
`BoundFollowsQueue`, `RepairTypeCorrect` and `RepairsInTurn`. The last is the safety half of
`Served`: a tick moves everyone behind its visits forward by as many places and touches
nothing else of theirs, drops a visited one that is still MIR's to repair only when its time
has come, and otherwise repairs it or leaves it waiting because its time has not; between
ticks nobody moves back, and only who is hit again waits longer (`ServedInTurn`). `IInv` adds to types and `QueueIsMembers` that
the subscription follows the queue at every moment (`Follows`), and `Patient`: the time an
entity has been calm and the time its member still has to wait add up to the quiet time,
unless its last hit was refused or is not handled yet. A tick is a recursive function over
its visits: `Toured` says what the first k of them did (queue and table agree, at most k
entities repaired, each by one, calm and allied), `FirstStage` and `NextStage` are its two
steps and `VisitedToured` the induction. That the first k visits took the first k of the
queue, and moved the others k places, is part of it (`FirstInOrder`, `NextInOrder`). Beneath are lemmas on queues without repetition
(`TailTakes`, removing an element, moving the head to the end).

### Spoilage (`SpoilageProofs`)

`ShareHeldOnce` and `SpoilageTypeCorrect`, for any range of the modifier, any forces, levels
and foreign writes. `ShareHeldOnce` speaks of an account that is never set back: all that MIR
ever added to the modifier. `IInv` adds to the types `Linked` (what MIR added is the saved
contribution and what it left behind, and the record was saved with the last write),
`Recorded` (the contribution is what that write added to its baseline) and `Settled` (between
events that write is the one the present levels call for, and an inactive feature has no
record). Two things are left behind: a contribution retired after a foreign write, and what
of one no longer fits the range when a foreign write lowers the modifier beneath it.

### Library translations (`TranslationProofs`)

For any players, sites, keys, catalogues, windows, expiries and numbers of request ids:
`LabelsAreFresh`, `WindowHolds`, `JoinersAgree`, `TickFollowsLedger` and `ExpiredAreReleased`.
The desks of two players share nothing but the subscription, so the invariant is `Whole` of
each desk: `Core` and `Filed`. `Core` holds at every place inside a handler: labels on show
are right (`Fresh`), a request marked current will be answered right unless the player has
moved since (`Honest`), and MIR knows of every unexpired request the engine holds (`Counted`),
so that the window, which counts what MIR knows of, bounds what the engine has. `Filed`, that
ledger, copy and cache agree, holds only once a handler saved. `Placed` joins them: until the
player's move is handled the cache may be for another place. The parts of a handler each
lead from a whole desk to a whole desk without moving the player (`Leads`, `Nears`), and the
two loops, over the window when labels are asked for and over the ids when expired requests
are dropped, are recursive functions. `Lively`, kept by every part and made by maintenance,
gives the expiry.

### Packaging and releases (`ReleaseProofs`)

For any runs, commits, sources, records, plans of editions and versions of the tool, and any
number of damages:

- `CustodyAlwaysKept`: `Releases` implements `Custody`, with the mapping `Box`, `Looking`
  and `accepted`: the output is claimed once, it is sealed by the step that writes the
  inventory, and a verification accepts only the commit the output was sealed for, as it was when
  the verification read the inventory;
- `IntactAlwaysVerifies`: no step of a verification refuses an intact output, while the
  worktree has every record the release was frozen by as HEAD has it, and the tools are those
  that made it;
- `PackagesArePromised`: of any ordinary source tree, a package that is not refused is whole
  (entry points, all they import, no other Lua) and states one release everywhere, which is
  that of its source;
- `PackagesAreMade`: a package is refused exactly where something is missing: a link in the
  tree or no metadata, an asset missing or under another heading, an edition that is not
  offered, or an import, among those the edition reaches, that leads nowhere;
- `PackagesAreRight`: for every edit of a source and every committed record (`Edits` and the
  records are constants), a package is refused for no less than that, is whole, and bears the
  name its release is frozen under; a local build under another version bears that one in all
  its places;
- `SealedIsPlayable`: so is every archive of a sealed output;
- `ReleasesTypeCorrect`: types, and a place in the order wherever one is used.

`IInv` says of the world (`WorldOK`, `Unclaimed`): without an output directory there is no
file and nobody fills one; of the runs: at most one fills the output (`OneFiller`), and as
long as nothing was damaged the files before its place are exact and those from it on are
not there (`FillOK`); of the output: an inventory is written last, so once it is there every
other file is exact unless something was damaged since (`SealOK`); and of a verification
(`VerifyOK`): as long as nothing was damaged it read the inventory that is there, and if
something was damaged before it set out, a file it has yet to compare is not what it should
be, so that it never comes to compare the inventory. The last needs that damage is never
written over, and that every file of the plan is compared.
`Planned` collects what the proof needs of `WriteOrder` and `CheckOrder`, for any two
cohorts: no file twice, the inventory last in one and absent from the other, the same files
otherwise. `OlderSame` and `OlderStay` carry bytes across a commit, which only appends;
`AsideKeeps` does every step that moves one run and nothing else; each writing step has a
lemma of its own. `CustodyForms` then reads the abstract step off `Box` and the two
functions of runs.

For the packages, `ClosureLeast` is the main lemma: the worklist of `require_closure` yields
the least set of files that holds the entries and whatever its members import, and refuses
only where an import cannot be resolved, in whatever order the list is worked off. The
recursion ends because each call leaves fewer names outside the closure, or as many and
fewer pending (`Measure`), so the induction is over that measure. Each edition's package is
then taken apart into the files it selects (`EditionPromised` and its early counterpart), and
each refusal put down to what is missing (`ClosureMade`, `EditionMade`, `EarlyMade`);
`RenamedKept` follows a local build. What is refused is a value in the model, `Refused`, and
these two theorems have the hypothesis that it is none of the values a selection returns
(`RefusedApart`): not a package, nor the files of one, nor a closure. TLA+ does not say so of
a string, and every reader of the code knows it of an exception.
The assumptions say what a source tree is (`Ordinary`: finitely many files that import
finitely many Lua files, none of them below the directory the changelog presentation is
dropped from), that its version is a codec version, and that targets are numbers.

### Replays and the catalogue (`ReplayProofs`)

For any captures, archives, reviews and runs:

- `RootsOfOthersKept`: a builder writes and removes nothing in a root another run made;
- `ComparedAreAlike`: what is compared or composed ran in the same game;
- `CompositionsAreExact`: a composition with a receipt is whole, and the receipt true of it.
  It has the hypothesis `NotPutBack`: an archive that is replaced between two hashes and put
  back is one the composer cannot tell from the original, see the findings;
- `ReplaysRestore`: a replay nobody tampered with makes, of the game without MIR, what the
  published MIR made;
- `VerdictsAreExact`: a verdict names exactly what differs from what was published, less
  what was retired and as reviewed.

`Shaped /\ Owned` (a run at work on a root owns it) gives the first. `Trusted` says of every
run what it has read by the place it stands at, and of every record on disk that it is of a
pair of captures that was admitted: captures are taken again between any two reads, so what
holds of a run's captures cannot be read off the roots. It gives the second, and to the
others what they start from. `Composition` says what a composer has copied by its place
(`Composes`, `Copied`) and that a finished composition is `Exact`, until two runs raced for
the root; `Rendering` says that, as long as nothing was damaged, the files a builder has
passed are as rendered and the inventory is written last.

What stages, intents and reviews compute is an algebra of dumps: `PutRows` (which keys and
rows a dump has after rows are put into it), `DiffOf`, `StageRows`, `BesideRows`, and from
them `ExecutedAlike` (the stage rendered from two dumps, run over the first, makes the
second), `Overlaid` (so does the intent, less what it leaves out) and `ReviewApplied` (after
a review, row by row, each prototype is what the row that names it says). `Wants` and
`VerdictOf` then compare one prototype with its verdict. What is said of single values
recurses into JSON and is a constant of `Prototypes`, which `JsonValues` defines for TLC; of
it the proofs use the laws of `ValuesAssumption`: prototypes are objects, `Same` is
reflexive and symmetric and makes equal Lua values on the values that occur, no change means
the same, and a row patched with the changes to another is the same as that. They are what
`_same_json_value`, `_changed_fields` and `_apply_changes` owe each other; TLC evaluates
them over all values of the instance, where booleans, numbers in two spellings, lists and
nested objects differ. An equality that takes `True` for 1, as Python's does, breaks them.

### What the proofs assume

Nil is nothing else the modules know: no boolean, technology or ledger row (`Caps`,
`GunCredits`, `NativeCredits`), no entity, member or bucket (`PassiveRepair`), no request,
answer or cache (`Translations`), no record and no event (`Spoilage`), no tool and no commit
(`Releases`). There are finitely many forces; bounds are naturals, windows and intervals
positive; configurations are built of the declared rows. There is a gun-speed category, as
`CATEGORIES` has, and the published family is not empty and disjoint from the overlap pairs.
The two cohorts of editions are disjoint and each is built in an order without repetition. A
run of the tools is of one command; captures, reviews and archives have the fields their
readers demand.

### Only model-checked

- `EventsDrain` and `Served`: fairness and ENABLED are out of the provers' reach. What each
  step contributes to them is proved (`EventsAreFinite`, `RepairsInTurn`); TLC checked those
  two action properties on the instances of `caps_queue` and `repair` beforehand.
- What is a fold of the community modules over a data-dependent operator
  (`ApplyChanges` within a row), and the recursion of `JsonValues`: the provers know no
  RECURSIVE operators, and a fold takes its operator as a parameter. The laws above stand
  in their place.

## Not modelled

- The order of the parts within one configuration change, and the refusals of
  `bootstrap.lua` before its first write: each part is checked with its own handlers.
- The Imersite handoff, the second ledger of competing productivity, the one-time credits,
  agriculture and the generator: see the plan.
- In `Caps`: the worker-robot tail that changes hands between two technologies, the older
  boolean import policy, and the direct jump between two engine editions.
- In the credit modules: that `earned` is an integer is not asked of a saved row
  (`native_gun_credits.lua:235`), the observation and the pending test of a completion are one
  step (`native_gun_credits.lua:319-320`), the visibility flags of hidden holders, the MIR4 preference and
  the sulfur baseline, and the recheck of a stale plan (nothing intervenes in the models).
- In `Translations`: label lengths, partly composed answers, malformed ledgers, drawing.
- In the tools: a further reading of a file in a step that reads it already (an archive for
  its digest in `release.py:222-241` and `package.py:464`, an inventory for its digest in
  `compose_replay.py:165` and `recover_modern_catalogue.py:845`), the bytes of archives (`package.build` is the step that writes them), paths
  that leave their root or are links, the tables of reports that nothing reads back, and the
  readers of benchmarks, text checks and renderings, whose content is statistics and layout.
- Malformed saved tables in general, and everything in the data stage but its results.

## Plan

Done, in this order, the most consequential state first: caps (the right to re-enable,
invested research), gun credits, passive repair, spoilage, translations, recipe credits,
the theorems about caps, gun credits and spoilage; then the tools: packaging and releases
with the proof that they keep custody, captures, replays and the catalogue.

What would come next in the model:

1. `ImersiteHandoff`: `plan` as an operator checked against a reference (earned levels and
   queue entries conserved), then the transaction with its checkpoint, a failure at every
   write, and the rollback; beside it `LegacyCredits`, which shares plan, check again, write.
2. `OwnedRights`: the abstract ledger (turn off and own, give back what is owned, forget),
   refined by `Caps` and by `CompetingProductivity`; the worker tail in `Caps`.
3. `Configured`: the composition of bootstrap's configuration change over `NativeCredits`
   and `Caps`, for the plans computed before the writes they meet.
4. `Agriculture` beside `Spoilage`, and `Generator`: Kahn's order against acyclicity.

The project keeps its runs few, one per question; new modules join an existing run where
they share the question (a second ledger with `caps_forces`, agriculture with
`spoilage_share`).

And in the proofs, with the modules above: the conservation of levels by the Imersite
handoff, and that its rollback puts everything back.
