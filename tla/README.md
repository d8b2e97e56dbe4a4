# Structure Blueprint, specified

TLA+ models, TLC runs and TLAPS proofs for the StructureBlueprint plugin
(`src/src/`), an ArkServerAPI plugin that captures player-built structures on
an ARK server, keeps them in a library on disk, and pastes them elsewhere.

## 1. The system

| component | code | state it keeps | operations |
|---|---|---|---|
| Capture | `Capture.cpp/h` | per-admin selection (two corners) in `g_selections` | set corner, scan, inspect links, `CaptureSelection` |
| Blueprint model | `Model.h` | none; the `Blueprint` value | to and from JSON, with what formats 1 and 2 left out filled in |
| Storage | `Storage.cpp/h`, `Gzip.cpp/h` | the library directory | save (temporary file, then rename), load, list, delete |
| Preview | `Preview.cpp/h` | one pending preview per admin, its marker actors | begin (clears the last one), confirm, clear |
| Paste engine | `Paste.cpp/h` | the one running job `g_job`, the last record `g_last`, `undo.gz` | begin, tick, cancel, undo |
| Reports | `Coverage.cpp`, `Catalog.cpp`, `Preview.cpp` (terrain) | none | coverage, catalog, terrain spread |
| Turret fill | `Fill.cpp/h` | none (it changes inventories) | fill the turrets of a selection |
| Dispatch | `Main.cpp` | the command and tick registrations | one handler per `/sb` verb, load, unload |
| Plugin host | `sdk/Private` (vendored), `scripts/deploy.ps1` | mapped and listed plugins, the callbacks they registered | load, unload, reload of staged builds; the hooks that call commands, frame and timer callbacks |

How they interact. Every command handler, the frame callback and the game
itself run on the one game thread, so a handler is atomic with respect to a
tick. What falls *between* ticks is everything else: players build and destroy,
structures decay, the world is saved, the host reloads the plugin, the process
dies. The paste engine and the preview keep raw actor pointers across such
gaps. The library, `undo.gz` and the world are three stores written at
different times.

What is hard here, and what correctness means for each component:

* **Paste engine.** A paste is spread over many ticks and two phases. Correct:
  cursors never leave their vectors; every piece is placed or counted failed;
  every edge between placed pieces is linked and every mounted piece sits on its
  floor; the record written at the end finds exactly the pieces placed; undo
  takes the last paste and nothing else; a paste never hangs.
* **Preview.** One pending preview per admin; markers are real actors of the
  world. Correct: markers of a preview that is gone are gone too; clearing
  never destroys anything else; what is confirmed is what was shown.
* **Capture.** Links and floors are pointers turned into indices in two passes
  with filters between. Correct: every index in the blueprint names the piece
  the pointer named, and the graph stays symmetric.
* **Storage.** Correct: an entry of the library is always a whole blueprint,
  the old one or the new one, whatever fails on the way.
* **Contents, model, fill.** What a container holds goes through a capture, a
  file and a paste, and fill adds to it. Correct: a copy holds, stack for stack,
  what was saved, but for what was lost for a reason the admin is told; fill puts
  ammunition into turrets, no more than fits, and reports what it did.
* **Reports.** Correct: the coverage map counts every turret that reaches a point.
* **Plugin host.** Plugins come and go while the game calls into them. Correct:
  nothing is called in a module that is gone; a plugin that is listed serves with
  all it registers; the world is saved before a reload; a staged build is taken in.
* **Dispatch.** Two admins share one paste engine. Correct: no command of one
  admin breaks a promise made to the other.

`PROJECT.json` lists the hazards of this code, each at its line and with the
properties that watch it.

## 2. The modules

| module | what it is |
|---|---|
| `Geometry` | the transform shared by preview, paste and undo: quarter turns, translation, undo's 10-unit buckets |
| `Paste` | the paste engine: `BeginPaste`, one turn of `TickPaste` per action, `FinishJob`, `CancelPaste`, `UndoLastPaste`, and the environment |
| `PastePromise` | what a paste promises an admin, without cursors, budgets, actors or files |
| `PasteRefines` | the mapping under which `Paste` implements `PastePromise` |
| `Plugin` | the commands of several admins over `Paste`: previews, their markers, confirm, cancel, unload |
| `PasteProofs` | TLAPS proofs about the paste engine: types, what a running paste gets right, undo, the refinement of `PastePromise`; about the previews and markers of `Plugin`; and the engine's theorems again among the commands of several admins |
| `Survey` | what a preview says of a site (`AdjustOriginToGround`, burial, obstacles) and what the paste then does there |
| `SurveyProofs` | TLAPS proofs about `Survey` and about the coverage map of `Coverage` |
| `Capture` | `CaptureSelection`: the selection and the three passes from actors to pieces |
| `CaptureProofs` | TLAPS proofs about `Capture` |
| `Lists` | parts of a sequence in their order: what the filters of a capture leave |
| `ListProofs` | lemmas about `Lists`, least and greatest elements, and sums, for the other proofs |
| `Storage` | the library directory: `Save` step by step, `Load`, `List`, `Delete`, failures and crashes |
| `Library` | what the library promises: a map from names to whole blueprints |
| `StorageProofs` | TLAPS proofs about `Storage` |
| `Gzip` | the walk of `Decompress` over a gzip header |
| `GzipProofs` | TLAPS proofs about `Gzip` |
| `Coverage` | the coverage map of `/sb cov`, over the site of `Survey` |
| `Model` | `Blueprint`: `ToJson` and `FromJson`, as records with optional keys |
| `Contents` | contents and device settings from capture over the file (`Model`) to the paste, and `Fill` |
| `ContentsProofs` | TLAPS proofs about `Model` (what is written is what is read back) and `Contents` |
| `Host` | the plugin host: registration, loading, unloading, reloading, the callbacks of the game thread |
| `HostProofs` | TLAPS proofs about `Host` |
| `MCPaste`, `MCPlugin`, `MCSurvey`, `MCCapture`, `MCStorage`, `MCContents`, `MCHost` | blueprints, options, scenes and sets for TLC |

### Paste

`g_job`, `g_last`, and the fields `order`, `spawned`, `phase`, `cursor`,
`link_cursor`, `link_sub`, `failed`, `links_made`, `floors_restored` are those
of `Paste.cpp`. `disk` is `undo.gz`: absent, torn, or a record. `left` is the
loop variable of a tick: the budget that remains, or `Idle` between ticks. A
tick is `TickBegin`, then one action for each turn of its loop, then one of
`TickEnd`, `StartLinking`, `FinishJob`; every other action of the admin and of
the environment asks for `left = Idle`, because they share the game thread.
Only a crash does not wait.

`world` belongs to the game: the structures that stand at each actor address,
`LinkedStructures` as a relation, and the floor relation. Addresses are reused
after a structure is destroyed. A call through a pointer to a destroyed actor is
undefined in the code; `Joined` and `StaleCrash` give its outcomes: nothing
anybody sees, an effect on whatever stands at that address now, or the end of
the process. `saved` is the world as last saved; a crash returns to it.

A piece carries its class where the code has `class_index`, an index into the
blueprint's list of classes that comes from the file and that nothing checks.
`NoClass` is the class of an index past that list. `Resolved` is what
`job.resolved[class_index]` reads: the class, if the map has it; past the end,
which is undefined, whatever lies there (a class, or nothing, so that the turn
fails), and `StaleCrash` ends the process there too. The record of such a piece
names no class: undo passes over it (`Named`), and a record with nothing else in
it is read and refused (`UndoNothing`).

Data is kept to what the properties tell apart. A piece has a class, an offset,
a floor and links; rotation is by quarter turns, which keeps coordinates
integral (`RotateAroundZ` is then exact; floating-point drift is what the 10-unit
buckets of undo are for). Undo's bounding sphere is taken to reach every piece;
what it may miss is actors in stasis (`Sightings`). What is written into a piece
after it is placed (contents, ranges, the activated flag) is in `Contents`; the
wording of replies is left out. `valid` of
a `PasteRecord` is `items # {}`: the code asks for both and sets the first only
with a record that undo rejects when it has no items.
`paste` and `piece` of a structure, `paste` of a record, and `pastes` are
history variables: no guard of the code's actions reads them, apart from the
bound `MaxPastes`.

Indices count from 1 in the model; the checks of the code for indices out of
range are those of `Joinable` and `FloorOf`, and the blueprints of `MCPaste`
contain an index past the end.

The environment is chosen per run with `Events`: spawns that return null
(`null_spawn`), no world at a tick (`no_world`), `cancel`, `reload`, `save`,
`crash`, failing disk writes and removals (`disk`), actors missed by the octree
(`stasis`), players building and destroying (`build`, `destroy`).

### Plugin

Extends `Paste` with `g_pending`, one pending preview per admin, and turns
`BeginPreview`, `ConfirmPreview` and `/sb cancel` into actions that change both.
Markers are actors of the same `world`, spawned without an owner, so players and
decay leave them alone; ticks, undo, players and crashes interleave with the
commands. Markers stand at some corners of the footprint (`Corners`); whoever
clears a preview destroys those of its markers that one query finds.
`abandoned` is a history variable: markers whose preview is gone although they
were not destroyed, because the query did not find them or the plugin was
unloaded. A preview that is refused (no world, empty blueprint) changes nothing
and has no action of its own. `undone` is history as well: addresses of stored
markers that an undo took for pieces of their class. Some of the classes markers
are made of are pasted too (`Preview.cpp:29-32`), and the preview still names the
address, where anything may be built since.

### Survey

One site, one preview, one paste at a time. The terrain is a height for each
column; `AdjustOriginToGround` samples it on the 7 by 7 grid of the code, the
preview on its 5 by 5 grid, and both trace from 3000 above to 20000 below. The
average is over the points whose trace hits, where points of a narrow footprint
share a column too.
Between preview and confirm players may build. `Landing` is the placement of
`TickPaste`, written apart from `Placed` of the preview as in the code, so that
the properties compare the two. The enemy proximity report is not modelled.

### Capture

A scene is fixed while a capture runs: which structures stand where, which of
them the octree returns, which have a root component and a class path, what they
are linked to and mounted on. `HandleSave` collects them in any order, then
`Keep`, `MakePiece` and `LinkPiece` each take one step of a pass. Indices count
from 1, and 0 stands for the code's -1. What containers hold is in `Contents`.

### Contents and Model

`Contents` composes what `Capture`, `Model.h`, `Paste` and `Fill` do to the
inside of structures. `world` is the structures, the selection first and what is
pasted after it; `file` is the save as JSON, a record whose fields are the keys
present; `job` is the paste with its dictionary of item classes, the piece it is
at and the entry of that piece. `PlacePiece`, `SkipEntry`, `RestoreEntry` and
`RestoreDevice` are the body of the placing loop; between a piece and its
contents nothing else runs, between two pieces `HandleFill` may. Where pieces
stand and how links are made is left to `Paste` and `Capture`; `pose` stands for
all the fields that are carried as they are. `job.refused`, `source` and
`with_items` are history. The classes that the mods no longer bring (`gone`, one of
`Missing`) are chosen with the paste. What `AddNewItem` does is the game's: it makes a new
stack, or nothing (`refused`); `merged` (it hands back a stack that is there) and
`clamped` (it cuts the quantity) are settings. Turrets are known by their path,
as in the code; the fields of a turret read from another structure give anything
(`Templates`). A piece may come to nothing, its class missing or its spawn null, and a
container may come without its inventory (`Spawned`); the structure that never was
is kept in its place with `NoClass`, so that pieces keep their numbers. Stacks that go
with it are in no count the admin is told. The range setting and the rounds of a turret are captured and
never put back (`Paste.cpp:388-393`); nothing in the code says they should be.
Classes and item classes are numbered as the code does, each when it is met first
on the walk over structures and stacks (`FirstMet`, `Dictionary`); stacks that
cannot be named are not on the walk, so that indices of entries and of classes
run apart. `ContentsAssumption` says
what the game brings: every turret is a container with three ranges, and a file of
an earlier format holds a piece's one parent or its links, not both.

### Coverage

A report on the site of `Survey`: the turrets are those of its structures with a
range. The map is kept until something else happens, so that the property is
about the state it was made in. The grid is 5 by 5 points for the code's 21.

### Host

`frame` says what the game thread is doing: starting up, in the world, in a round
of frame or of timer callbacks (`queue` holds the callbacks copied for the round
and not called yet), or in a reload. A pass over the plugin directories takes one
action per step (`stage`): visit, unload, copy, remove, load; a failure at a step
goes on with the next directory, as the `catch` does. The two settings of the
host's configuration are taken as on: plugins are reloaded, and the world is
saved before (`PluginManager.cpp:139-143, 322`). `refs` counts references to
a module as Windows does; `DllMain` registers and takes back the callbacks.
`deploy.ps1` and time run beside the game thread. It writes in place where nothing
is installed yet and stages otherwise. A file may be seen while it is being copied,
and a copy over the dll may break off (`Torn`); a file cut short does not load. `unsaved` is history. With `Events` the
failures are chosen: `load_fails`, `half_load` (an exception after `LoadLibrary`),
`copy_fails`, `slow_copy`, `crash`.

### Storage and Library

A file is what `Load` would make of it: a blueprint, `Torn`, or `Absent`. `Save`
is `OpenTemp`, `WriteTemp`, `CloseTemp`, `RenameTemp`, `ReplySaved`, any of which
may fail as the code checks for it, or end in a crash; `disk_full` in `Events`
has the write that fails be the one the stream makes when it is closed, which the
code does not check. `told` is history: what the admin was last told an entry
holds. `Library` has one step for a save; `KeepsLibrary` says that `Storage`
implements it with the directory itself as the map.

### Gzip

`file` is a member as a sequence of bytes, with every combination of the optional
fields and cut at every length, or a file of another format. Which fields there are
is read from the fourth byte (`Announced`). One action per optional field; `read` is the largest offset read. The length of the extra field
is two bytes, the lower first, up to 65535.

## 3. The runs

Passing runs:

| run | asks | bounds |
|---|---|---|
| `paste_core` | do indexes, counts, links and floors stay right whatever happens between ticks? | one paste of 3 pieces, two of equal height, one with a link out of range, with and without a missing mod, and one of two pieces with a class index past the list; owned at 2 turns a tick and showcase at the default budget; 4 addresses, so that one can be rebuilt on while the job still points at it |
| `paste_undo` | is every step of the engine a step of the promise; does a record survive a reload; does undo spare the players? | two pastes of 2 pieces at two places, with every abort, reload, save and crash, players building another class where a piece goes and the piece's class twenty units beside |
| `paste_recovery` | is whatever record is left after crashes and failed writes one that finds its own pieces, does undo leave none of them, and does a paste end? | two pastes, owned and showcase, at 2 turns a tick and the default, with saves, crashes, torn and stale files, removals that fail |
| `preview` | do markers stand only while their preview is pending; does clearing destroy them alone; does a confirmed paste land where it was shown? | two admins, two places, a blueprint of the marker's own class and one that cannot be pasted, one marker each, players building that class on freed addresses, 3 addresses, one paste |
| `survey_site` | does the build rest on the ground, and are burial and obstacles as foretold? | one tower of four pieces, four turns, three ground modes, on level ground, a mound and a ditch, four structures players may build, one a turret far beside the site; coverage maps of one admin on a 5 by 5 grid, along the ground and at a height |
| `capture_wiring` | is a saved blueprint wired like its scene, with each piece in its place within the size, and is every loss counted? | three structures in every order, inside, on the edge of and beside the box, unreadable or unnamed, with every combination of three link lists |
| `storage_crash` | is the library always a map of whole blueprints that changes as the admin was told? | two names, two blueprints and one of a newer format, a failure or a crash at every step |
| `gzip_container` | is the payload found in a whole file, and no byte read outside any? | fields of 0, 3 and 258 bytes (the last one needs both length bytes), payloads of 1 and 2, every cut |
| `contents` | does a copy hold what was saved, is it set as the original was, and does fill do what it says? | a wall, a box of three stacks, a turret with two slots; saved with and without contents, or loaded from formats 1 and 2; three sets of missing classes, any stack refused, any spawn null, any inventory missing; one paste; fill with `--stack` 2 or none between any two pieces |
| `host_reload` | is only loaded code called, does what is listed serve, is the world saved first, is a staged build taken in? | two plugins, with a frame and a timer callback between them, installed or not, two builds, 2 seconds between checks, failing loads, copies that fail or break off, slow copies, restarts |

Two pastes are enough for every question about undo: a record can only be
confused with that of an earlier paste or with none. Three pieces are enough
for the placing and linking loops: one in work, one before and one after it;
with two of equal height for the unstable sort. One address more than pieces is
enough for an address to be reused while a job points at it. Two admins are
enough for previews: what one does to another it does to any other. For the
capture, three structures give one that is skipped between two that are kept,
which is what shifts indices. A box with a stack that cannot be named between
two of one class is what could shift the entries of a container. Two plugins are
enough for the host: one is visited and loaded while the other serves or waits.
Two seconds let a check be passed over and made.

`contents` runs without the deadlock check: once the one paste is over and every
turret is full, the server may idle.

Fairness: `paste_recovery` assumes weak fairness of the frame callback (`Tick`)
and of nothing else. The host calls it every frame; a tick, once begun, runs to
its end. No admin, player or save owes a step. `host_reload` assumes that the
game thread finishes what it begins (weak fairness of `Calls` and of `Pass`),
that time passes (weak fairness of `Second`), and that the game's timer fires
again and again (strong fairness of `DefaultTimer`: other work of the thread comes
between two firings, and disables it, but does not keep it from coming). No
admin, player or deployment owes a step.

Runs that find the code at odds with what it says of itself (`findings` in
`PROJECT.json` quotes the lines):

| run | what happens |
|---|---|
| `undo_after_cancel` | paste, paste again, cancel, undo: the first paste goes, the cancelled pieces stay |
| `stale_link` | a piece destroyed between placing and linking is linked through a dangling pointer |

Other properties hold in the passing runs because the cause is left out there.
Each line below names the setting that makes TLC find the property violated:

| property | setting | what happens |
|---|---|---|
| `RecordLocates` | `Options <- SunkOption` | the record leaves out `sink`, though it is to hold "where each piece actually landed": a sunk paste cannot be undone (`Paste.cpp:247-260, 308`) |
| `KeepsLibrary` | `Events <- FullDisk` | the disk fills as the temporary file is closed, unnoticed, and the short file replaces the entry (`Storage.cpp:56-57, 65-68`) |
| `RecordLocates` | `Blueprints <- TightOnly` | two pieces within one 10-unit bucket: undo finds only the later one (`Paste.cpp:452-465`) |
| `UndoTakesAll` | `"stasis"` in `Events` | actors in stasis are not among those searched, and undo forgets its record after one pass: what it did not see stays (`Capture.h:58`, `Paste.cpp:483, 504-507`) |
| `RecordLocates` | `Blueprints <- ForgedOnly` | a class index past the list is not checked before it is used (`Paste.cpp:297`), while undo checks it (464): what was placed for it is never undone |
| `MountedOnItsFloor` | `Blueprints <- LowLampOnly` | at equal height the floor may be placed after what is mounted on it (`Paste.cpp:222, 334`) |
| `BurialForetold` | `Options <- Sunk` | the burial check leaves out the sink (`Preview.cpp:249`) |
| `ClearMeansClear` | `Structures <- Foundations`, `Ranges <- Unarmed` | the preview asks one octree group, and foundations are in another (`Preview.cpp:185`, `Capture.cpp:56-58`) |
| `LossesShown` | `Scenes <- AsleepScenes` | a structure in stasis is missing from the save and from its report (`Main.cpp:108-109`) |
| `NearMissesCounted` | `Scenes <- DiagonalScenes` | the near-miss box has corners outside the sphere that is searched (`Capture.cpp:240, 267-270`) |
| `HoldsWhatWasSaved` | `Events = {"merged"}` | an item that the game stacks is handed back, and the entry is written over the stack that was there (`Paste.cpp:353-366`) |
| `FillAsTold` | `Events = {"clamped"}`, `StackArgs = {5}` | the rounds reported are those asked for (`Fill.cpp:92`) |
| `FillFits` | `Kind <- WithTurretBox` | a mod's box with "turret" in its path is read through the fields of a turret; the comment thinks only of turrets without the word (`Fill.cpp:17-19`) |
| `CoverIsReal` | `Asked <- AtSeaLevel` | a height asked for that is 0 above sea level means to follow the ground (`Main.cpp:346`) |
| `CoverIsReal` | `Terrains <- DeepLand`, `Structures <- EmplacedBelow`, `Ranges <- ReachBelow` | turrets far below are outside the sphere around the admin (`Coverage.cpp:34`) |
| `ServesWhatIsListed` | `"half_load"` in `Events` | an exception after `LoadLibrary` leaves a module that serves and is not listed (`PluginManager.cpp:189-194`) |
| `LoadedCodeOnly` | `Ids <- SharedIds` | two plugins with one command name: the first to go takes the other's entry and leaves its own (`Commands.h:80-96`) |

Two harms are not excluded but bounded. `UndoSparesPlayers` lets undo take a
player's structure of a piece's class less than ten units from it, which is as
far as undo can tell them apart (`Paste.cpp:488-499`); a player's rebuild goes with
the paste. `ClearSparesOthers` lets a preview that is cleared take what stands at
the address of a marker that an undo has taken for a piece (`Preview.cpp:132-134`).

And `MarkersPending` excepts the markers of a preview that was pending when the
plugin was unloaded, and those a query did not find: they stand for good.
`StagedIsTaken` accepts a plugin that is unloaded: when the copy fails after the
unload, no later pass looks at the plugin, because only listed ones are reloaded
(`PluginManager.cpp:339-372`); it comes back when an admin loads it. While
modelling we met one more disagreement that no property is about: the
repository's `README.md:396` says that container inventories are not captured,
while `/sb save` captures them unless told not to (`Main.cpp:89-94`).

## 4. The proofs

All for every value of the constants that satisfies the module's assumption.

`PasteProofs`: `TypeCorrect`, `Spec => []TypeOK`. `TypeOK` is inductive as it
stands: it carries the ranges of `cursor`, `link_cursor` and `link_sub` (what a
file's `class_index` is, it does not say), that the
placing phase has not begun to link, and that the order is a bottom-up
permutation. There is one lemma per action that moves the job and one for those
that drop it or leave it alone.

What a running paste gets right, on those types:

* `EveryPieceAccounted`: placed and failed pieces make up the turns taken.
* `LinksStand`: what the link loop has been past is linked as long as both ends
  stand. It needs `Counted` beside it (a running paste has a number above 0), so
  that what players build on a freed address is not taken for a piece.
* `MountsStand`, on the condition `AllFloorsBelow` (which `Blueprints <-
  LowLampOnly` drops): by the bottom-up order a floor's turn is before that of
  what it carries.
* `RepliesTrue`: the counts told at the end. `LinkTally` and `FloorTally` say what
  the counters are in the middle: the joinable edges among those taken, the
  mounted pieces among those placed.

Undo:

* `ReloadKeepsUndo`, if the writes of `undo.gz` succeed (`"disk" \notin Events`).
* `PlayersAreSpared`, whatever players build, the pasted classes included: that a
  match of class and bucket means a class of the record and a place less than ten
  units off, along each axis and across rounding (`Bucket`).
* `RecordsLocate`, where class indexes are in range, without a sink, and where
  pieces that share a bucket are of one class (`Indexed`, `Sinkless`,
  `BucketsApart`, which `ForgedOnly`, `SunkOption` and `TightOnly` drop).
  `LocateInv` relates each structure, in the world and in the saved world, to the
  piece it was placed for and to both records, and orders the records' pastes
  before the running one. Failing writes and crashes are included.
* `UndoLeavesNothing`, on the same conditions and if nothing is in stasis: what
  stands of the paste that is undone is sighted, found by its record and
  destroyed. A record may be that of a paste already undone, left by a removal
  that failed; then there is nothing more to take.
* `SpacingKeepsBucketsApart`, what `BucketsApart` asks of a blueprint: pieces of
  different classes ten units apart along one of its axes. The comment at
  `Paste.cpp:452-454` counts on hundreds.

The promise: `PasteKeepsPromise`, the refinement of `PastePromise`, if the
writes of `undo.gz` succeed. Each action of `Paste` is shown to map to a step of
the promise or to a stutter; it rests on `TypeOK`, `Accounted`, `LinkTally` and
`UndoSurvivesReload`. The mapping needs `NoJob` not to be a
blueprint (`PromiseAssumption`).

The two findings, with the cause each needs. TLC finds the two properties to hold
when `Events` of the violated run is everything but that cause: `{"build",
"null_spawn", "no_world", "cancel", "reload", "save", "crash", "stasis", "disk"}` for
the first (with `Options <- CoreOptions`), `{"build", "null_spawn", "save",
"stasis"}` for the second, in both with a structure for players to build
(`Builds <- OtherClass`).

* `NeighboursStay`: if nothing is destroyed between two ticks, each link is made
  between the two actors the paste placed, whatever else happens. Saves and crashes
  are included, since a crash ends the job that held the pointers.
* `UndoOfTheLatest`: if nothing interrupts a paste or destroys, class indexes are in
  range (another may end the process), and `undo.gz` can be
  written, undo takes the latest paste. `LatestKept` says that between two pastes
  a record that names anything is of the latest.

Previews (`Plugin`), for any number of admins and any blueprints, also of a marker's
class:

* `PointersStayGood`, `MarkersAreKnown`, `ClearTakesItsOwn`: a stored marker is a
  marker or an undo took it, a marker that stands is stored or abandoned, and
  clearing takes an admin's own and what stands where an undo took one. `MarkersInv`
  is the three together: markers have no owner, so players and decay leave them
  alone, and whoever else destroys one drops its address.
* `ConfirmedWhereShown`, if offsets are measured from the corner of the box
  (`FromTheCorner`, as the capture does): for each quarter turn, a piece between 0
  and the extent of the blueprint lands between the origin and the far marker.

The engine among several admins. What is proved of `Spec` says nothing yet of
`PluginSpec`, where commands also put up and clear markers in the same world, and
where confirm and direct paste start jobs. `RepliesTrueToAll`,
`LinksStandAmongAll`, `MountsStandAmongAll`, `PromiseKeptToAll`,
`RecordsLocateAmongAll`, `UndoSparesAll`, `UndoLeavesNothingAmongAll` and
`NeighboursStayAmongAll` carry the theorems above over, each with the conditions
it had; `NeighboursStayAmongAll` alone needs besides that no pasted piece is of a
marker's class (`MarkersApart`), since a piece placed at the address of a marker
that was undone could be cleared with its preview. The argument is one lemma per command for each invariant (`EngineInv`, and
those of undo): a command is a step of the engine with markers added or taken
away, markers belong to no paste, and what the invariants say of the world is about
what belongs to a paste. For the promise, a command is a stutter, a begin or a
giving up.

`StorageProofs`: `StorageTypeCorrect`; then, on the condition that failing writes
are noticed before the file is closed (`"disk_full" \notin Events`, the condition
that `Events <- FullDisk` drops):

* `EntriesStayWhole`: no entry is ever torn. The invariant needed beside it says
  what the temporary file of the running save holds at each stage: the whole
  blueprint once it is closed. The run checks it as part of `KeepsLibrary`: a step
  of `Library` puts nothing but whole blueprints.
* `ToldTheTruth`: the library holds what the admin was told. Between rename and
  reply the two differ, for the name being saved only; the invariant says so.
* `StorageKeepsLibrary`: the stepwise save implements `Library`.

`ContentsProofs`, of `Model`: `PieceRoundTrip` and `RoundTrip`, that `FromJson` gives back what
`ToJson` was given, for every blueprint whose floors, range settings, rounds and activated flags are
at least -1, the value that stands for none (`Normal`, in the theorems), though keys that hold their default
are left out. The argument is one lemma: a key that is left out exactly when its
value is the default, and read with that default, is read as it was
(`ValueOfObject`).

`ContentsProofs`, of `Contents`. The invariant, `ContentsInv`, says how far a job
has come: what the file and the dictionaries hold (`FileInv`), that the job works
from a blueprint whose indices are in range (`JobInv`), that every piece placed so far
is of its original's class or came to nothing and every one the paste is through
with is set as its original was (`CopyInv`), and that the stacks counted and
refused are those, of the pieces and entries dealt with, that can be restored
(`StacksInv`):

* `AlwaysLoadedAsSaved`, `DevicesAlwaysAsCaptured`, `StacksAlwaysAsTold`, with no
  further condition.
* `AlwaysHoldsWhatWasSaved`, if the game never hands back an item that is there
  (`"merged" \notin Events`). `HeldInv` beside it says of each copy that it begins
  with the stacks that came through, in order; fill only adds behind them.
* `FillAlwaysFits`, if only turrets have a path that looks like a turret's (the
  condition that `Kind <- WithTurretBox` drops).
* `FillAlwaysAsTold`, if the game keeps the quantity asked for (`"clamped" \notin
  Events`): the stacks and rounds added up over the turrets that were asked are the
  difference between the world after and the world before.

`HostProofs`, on the condition that no two plugins register one name
(`NamesApart`, which `Ids <- SharedIds` drops):

* `CallsLoadedCode`: what is registered, or copied for a running round, belongs
  to a mapped module. The invariant beside it (`HostInv`) is that a pass over the
  directories runs only when no round does, which is why the check is made after
  the callbacks, and that a module's entries are exactly its own.
* `ListedServes`: moreover `refs` is 1 of what is listed and 0 of the rest
  (`CountInv`), if no exception comes between `LoadLibrary` and the list
  (`"half_load" \notin Events`).

With no condition, `AlwaysSavedFirst`: the world is saved before a plugin is
unloaded for a reload. `SavedInv` is that nothing in a pass changes the world once
the pass has saved it.

`CaptureProofs`, for every scene, selection and order in which the octree returns
what is there: `CaptureTypeOK`, `WiredAlways`, `PlacedAlways` and
`LinksAlwaysAddUp` with no condition; `LossesAlwaysShown` if nothing is in stasis (`AllAwake`, which
`AsleepScenes` drops) and `MissesCounted` if moreover the sphere that is searched
reaches what is just outside the box (`MissesInReach`, which `DiagonalScenes`
drops). The invariant has a part per pass: each collected structure is found once
(`FoundInv`); of those seen, exactly those that fit are kept, once each, and the
rest are counted (`KeptInv`); a kept structure that can be named is the piece of
its number among those, and `kept_to_piece` says so (`PiecesInv`), at its place
from the corner of the box (`PlacesInv`); the pieces passed are wired like their structures, and the two counters make up their links
(`LinksInv`).

`GzipProofs`, for every combination of fields, field lengths up to 65535, payload,
and cut: `AlwaysReadsInside`, no byte outside the file is read, and
`PayloadAlwaysFound`. The invariant places the walk: before each optional field,
the position is where that field begins in a whole file, and what has been read is
inside (`PlacedInv`, `InsideInv`).

`SurveyProofs`, for every blueprint, option, terrain and building of players. The
invariant, `SurveyInv`, is that each report, pending or confirmed on, is still true
of the ground (`Foretold`), and that the pieces landed where the confirmed one has
them:

* `AlwaysRestsOnTheGround` and `HighestNeverBuries`, where the traces find the
  ground: no more than 3000 above the origin and 20000 below it (`GroundInReach`).
  For the average, that a sum of n heights is between n times the least and n times
  the greatest (`SumBounds`).
* `BurialAlwaysForetold`, without a sink (`Sinkless`, which `Options <- Sunk` drops).
* `AlwaysClear`, without a sink and with no structure in the group that is not asked
  (`Coreless`, which `Structures <- Foundations` drops): in each of the four turns,
  the volume between the rotated corners holds every piece (`VolumeHolds`).
* `CoverageOnlyLooks`: a site that is scanned in between is a site (`CoverageSpec =>
  Spec`), so these theorems are about the run's specification too.
* `CoverAlwaysReal`: each point of a coverage map counts the turrets that reach it,
  no more and no fewer, if the sphere that is searched holds whatever reaches a
  sample (`SearchReaches`: some distance within which all samples lie, that added to
  a turret's range is no more than the radius; `DeepLand` with `ReachBelow` drops it)
  and no height asked for comes out as 0 (`NoHeightIsZero`, which `AtSeaLevel`
  drops). The radius of the code is 0.7071 times the span and the longest range, so
  on level ground its corners keep to `SearchReaches` up to the rounding.

`Survey` takes a blueprint's pieces to lie within its size (`Enclosed`), and
`ConfirmedWhereShown` takes them to be on one side of the origin
(`FromTheCorner`); `PlacedAlways` is why that is so of what a save writes.

Sums. A fold of the community modules is a recursive function chosen by its
equation. `SumExists` shows that one exists, and the other lemmas on sums what it
gives, over finite sets, by a least counterexample: the least size at which the
claim fails would follow one at which it holds (`EveryPart`). No induction rule
with an operator for a parameter is needed.

Every invariant above was first checked by TLC on the instance of its run.

Left to TLC: liveness (`PasteEnds`, `StagedIsTaken`), since the prover has no
rule for `ENABLED` and so none for fairness. Everything else that a passing run
checks is a theorem.

## 5. The plan

Done: the paste engine with its promise, the library, previews, the survey of a
site and its coverage map, capture, contents with the file format and fill, the
gzip container, the plugin host, each checked; proved, every safety property and
action property that the passing runs check, on the conditions named above, the
refinements of `PastePromise` and `Library`, and what keeps the two findings away.

Left: `Capture`, `Storage` and `Paste` composed in one module, with places and
links as well as the contents that `Contents` carries through.

## 6. Not modelled

miniz and the parts of the SDK that this plugin does not use or that keep no
state of their own (detours of `Hooks`, `Timer`, `Requests`, the reading of the
PDB, dependency warnings, offsets and type declarations: most of the repository's
lines are such declarations); the catalog, terrain, scan and links reports, which
keep no state; the enemy proximity report of a preview; the spread of the ground
that is reported with a paste; parsing of command arguments and the admin check;
wording and logging.
