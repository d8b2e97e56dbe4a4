------------------------------ MODULE Contents ------------------------------
(***************************************************************************)
(* What containers hold and how devices are set: read by CaptureSelection  *)
(* (src/src/Capture.cpp), written to a save and read back (Model.h), put   *)
(* into the pasted copy by TickPaste (Paste.cpp), and, for turrets, topped *)
(* up by /sc fill (Fill.cpp) while a paste goes on or not. Where the       *)
(* pieces stand is the business of Paste, how links are found of Capture.  *)
(***************************************************************************)
EXTENDS Model, Lists, SequencesExt

CONSTANTS
  Kind,        \* what each structure class is
  MaxStack,    \* MaxItemQuantity of each item class, 0 when it declares none
  Scenes,      \* the selections explored
  OldFiles,    \* saves of earlier formats, as JSON
  Missing,     \* the sets of classes explored that the mods no longer bring
  StackArgs,   \* the values of --stack explored, 0 for none
  Events,      \* what the game may do besides spawning and adding what is asked for
  StatSlots,   \* 8 in the game
  NoClass,     \* the class of what has not come to be
  NoItem, NoInventory, NoFile, NoJob, NoReply

Items == DOMAIN MaxStack
Classes == DOMAIN Kind

\* named: its blueprint path has "turret" in it, which is what fill goes by.
Kinds == [container: BOOLEAN, turret: BOOLEAN, named: BOOLEAN, slots: Nat,
          template: Items \cup {NoItem}]

\* An item whose class cannot be named has NoItem for a path. Its stats are an
\* array in the item itself.
Stack == [path: Items \cup {NoItem}, quantity: Int, durability: Int, blueprint: BOOLEAN,
          stats: [1..StatSlots -> Int]]

\* Where a piece has failed there is a place of class NoClass.
Structure == [class: Classes, inventory: Seq(Stack) \cup {NoInventory}, active: 0..1,
              ranges: Seq(Int), setting: Nat, bullets: Nat, links: Seq(Nat), floor: Nat \cup {-1}]

\* What earlier formats load as: their indices go into their dictionaries, and
\* a piece has one parent (format 1) or links.
AsFormerlySaved(j) ==
  LET b == FromJson(j)
  IN  /\ b \in Blueprint
      /\ b.classes \in Seq(Classes)
      /\ b.item_classes \in Seq(Items)
      /\ \A k \in DOMAIN b.pieces : /\ b.pieces[k].class_index \in 0..(Len(b.classes) - 1)
                                    /\ ~({"f", "l"} \subseteq DOMAIN j.pieces[k])

\* first: the structures there were when the paste began. refused is history:
\* the stacks, by piece and by place in it, that the game did not add.
Jobs == [bp: Blueprint, invulnerable: BOOLEAN, gone: SUBSET (Items \cup Classes),
         first: Nat, next: Nat, step: {"piece", "contents"}, entry: Nat, stacks: Nat,
         devices: Nat, refused: SUBSET (Nat \X Nat)]

\* Every turret is a container, and has three ranges.
ASSUME ContentsAssumption ==
  /\ Kind \in [Classes -> Kinds]
  /\ \A c \in Classes : Kind[c].turret => Kind[c].container
  /\ NoClass \in Classes /\ ~Kind[NoClass].container /\ ~Kind[NoClass].named
  /\ Missing \subseteq SUBSET (Items \cup Classes)
  /\ MaxStack \in [Items -> Nat]
  /\ IsFiniteSet(Items) /\ IsFiniteSet(Classes) /\ Items \cup Classes \subseteq Paths
  /\ \A scene \in Scenes :
       /\ scene \in Seq(Structure) /\ DOMAIN scene \subseteq Poses
       /\ \A k \in DOMAIN scene : Kind[scene[k].class].turret => Len(scene[k].ranges) = 3
  /\ \A j \in OldFiles : AsFormerlySaved(j)
  /\ StackArgs \subseteq Nat
  /\ StatSlots \in Nat
  /\ NoItem \notin Items
  /\ NoInventory \notin Seq(Stack)
  /\ NoJob \notin Jobs

VARIABLES
  world,      \* the structures: the selection first, then what is pasted
  file,       \* the save, as JSON
  job,        \* the paste, to its last piece and after
  reply,      \* what a fill has counted, until something else happens
  source,     \* history: the selection when it was last saved
  with_items  \* history: and whether its contents were saved

vars == <<world, file, job, reply, source, with_items>>

IsContainer(s) == Kind[s.class].container
IsTurret(s) == Kind[s.class].turret
HasInventory(s) == s.inventory # NoInventory

----------------------------------------------------------------------------
(* Capture *)

\* What a walk meets, structure by structure and stack by stack.
Before(u, v) == u[1] < v[1] \/ (u[1] = v[1] /\ u[2] < v[2])

\* Where a class is met that is not in the dictionary yet.
FirstMet(walk) ==
  {u \in DOMAIN walk : \A v \in DOMAIN walk : Before(v, u) => walk[v] # walk[u]}

\* How long the dictionary is by then.
MetBefore(walk, u) == Cardinality({v \in FirstMet(walk) : Before(v, u)})

Dictionary(walk) ==
  [i \in 1..Cardinality(FirstMet(walk)) |->
     walk[CHOOSE u \in FirstMet(walk) : MetBefore(walk, u) = i - 1]]

\* Mistake: the number of stacks met so far, whether their class is known or not.
PlaceInWalk(c, walk) ==
  LET u == CHOOSE u \in FirstMet(walk) : walk[u] = c
  IN  Cardinality({v \in DOMAIN walk : Before(v, u)})

\* The index a class was given when it was met first.
Index(c, walk) == MetBefore(walk, CHOOSE u \in FirstMet(walk) : walk[u] = c)

\* The stacks that are carried: those whose class can be named.
Carried(s) ==
  IF IsContainer(s) /\ HasInventory(s)
  THEN Picked(s.inventory, {n \in DOMAIN s.inventory : s.inventory[n].path # NoItem})
  ELSE <<>>

\* All stacks of a selection, by structure and by place in it.
Spots(scene) == UNION {{k} \X DOMAIN Carried(scene[k]) : k \in DOMAIN scene}

ClassWalk(scene) == [u \in (DOMAIN scene) \X {1} |-> scene[u[1]].class]
ItemWalk(scene) == [u \in Spots(scene) |-> Carried(scene[u[1]])[u[2]].path]

EntryOf(it, walk) ==
  [cls |-> Index(it.path, walk), quantity |-> it.quantity,
   durability |-> it.durability, blueprint |-> it.blueprint, stats |-> it.stats]

\* The pose is the place in the selection.
PieceOf(k, scene, items) ==
  LET s == scene[k]
      device == items /\ IsTurret(s)
  IN  [class_index |-> Index(s.class, ClassWalk(scene)),
       pose |-> k, links |-> s.links, floor |-> s.floor,
       items |-> IF items THEN [n \in DOMAIN Carried(s) |-> EntryOf(Carried(s)[n], ItemWalk(scene))]
                 ELSE <<>>,
       ranges |-> IF device THEN s.ranges ELSE <<>>,
       range_setting |-> IF device THEN s.setting ELSE -1,
       ammo |-> IF device THEN s.bullets ELSE -1,
       activated |-> IF items /\ IsContainer(s) THEN s.active ELSE -1]

CaptureSelection(scene, items) ==
  [format |-> kFormatVersion, classes |-> Dictionary(ClassWalk(scene)),
   item_classes |-> IF items THEN Dictionary(ItemWalk(scene)) ELSE <<>>,
   pieces |-> [k \in DOMAIN scene |-> PieceOf(k, scene, items)]]

----------------------------------------------------------------------------
(* Restoring *)

\* What the game gives a new structure and a new item.
Bare(class) ==
  [class |-> class, inventory |-> IF Kind[class].container THEN <<>> ELSE NoInventory,
   active |-> 1, ranges |-> IF Kind[class].turret THEN <<1, 1, 1>> ELSE <<>>,
   setting |-> 0, bullets |-> 0, links |-> <<>>, floor |-> -1]

\* What may stand where a piece is put: nothing when its class cannot be loaded
\* or the spawn gives null, and it may be without the inventory it should have.
Spawned(class) ==
  IF class \in job.gone THEN {Bare(NoClass)}
  ELSE {Bare(class)}
        \cup (IF "null_spawn" \in Events THEN {Bare(NoClass)} ELSE {})
        \cup (IF "no_inventory" \in Events
              THEN {[Bare(class) EXCEPT !.inventory = NoInventory]} ELSE {})

NewItem(path, quantity) ==
  [path |-> path, quantity |-> quantity, durability |-> 0, blueprint |-> FALSE,
   stats |-> [n \in 1..StatSlots |-> 0]]

\* The captured state is written over the new item's.
Restored(made, entry) ==
  [made EXCEPT !.quantity = entry.quantity, !.durability = entry.durability,
               !.stats = IF Len(entry.stats) = StatSlots THEN entry.stats ELSE @]

\* AddNewItem with bDontStack false: a stack of its own, nothing, or, should
\* the game stack it, one that is there.
AddedTo(inventory, entry, path) ==
  LET made == [NewItem(path, entry.quantity) EXCEPT !.blueprint = entry.blueprint]
      same == {n \in DOMAIN inventory : inventory[n].path = path}
  IN  {Append(inventory, Restored(made, entry))}
        \cup (IF "refused" \in Events THEN {inventory} ELSE {})
        \cup (IF "merged" \in Events
              THEN {[inventory EXCEPT ![n] = Restored(@, entry)] : n \in same} ELSE {})

Running == job # NoJob /\ job.next <= Len(job.bp.pieces)

At == Len(world)      \* the structure being pasted
PieceNow == job.bp.pieces[job.next]
EntryNow == PieceNow.items[job.entry]

\* The path an entry's index stands for, if its class can be loaded.
PathOf(entry) ==
  IF entry.cls \in 0..(Len(job.bp.item_classes) - 1)
       /\ job.bp.item_classes[entry.cls + 1] \notin job.gone
  THEN job.bp.item_classes[entry.cls + 1] ELSE NoItem

NextPiece == [job EXCEPT !.next = @ + 1, !.step = "piece", !.entry = 1]

----------------------------------------------------------------------------

Init ==
  /\ world \in Scenes
  /\ file \in {NoFile} \cup OldFiles
  /\ job = NoJob
  /\ reply = NoReply
  /\ source = <<>>
  /\ with_items = FALSE

HandleSave(items) ==
  /\ job = NoJob
  /\ file' = ToJson(CaptureSelection(world, items))
  /\ source' = world
  /\ with_items' = items
  /\ reply' = NoReply
  /\ UNCHANGED <<world, job>>

\* gone: the classes that cannot be loaded. Bound: one paste.
HandlePaste(invulnerable, gone) ==
  /\ job = NoJob
  /\ file # NoFile
  /\ FromJson(file).pieces # <<>>
  /\ \E i \in DOMAIN FromJson(file).classes : FromJson(file).classes[i] \notin gone
  /\ job' = [bp |-> FromJson(file), invulnerable |-> invulnerable, gone |-> gone,
             first |-> Len(world), next |-> 1, step |-> "piece", entry |-> 1,
             stacks |-> 0, devices |-> 0, refused |-> {}]
  /\ reply' = NoReply
  /\ UNCHANGED <<world, file, source, with_items>>

PlacePiece ==
  /\ Running
  /\ job.step = "piece"
  /\ \E s \in Spawned(job.bp.classes[PieceNow.class_index + 1]) :
       /\ world' = Append(world, s)
       /\ job' = IF s.class = NoClass \/ job.invulnerable THEN NextPiece
                 ELSE [job EXCEPT !.step = "contents"]
  /\ reply' = NoReply
  /\ UNCHANGED <<file, source, with_items>>

Restoring == Running /\ job.step = "contents"

\* Mistake: the last stack is left out.
AllButOne == Restoring /\ HasInventory(world[At]) /\ job.entry < Len(PieceNow.items)

Unrestored == Restoring /\ HasInventory(world[At]) /\ job.entry <= Len(PieceNow.items)

\* "A missing one costs that stack, not the paste."
SkipEntry ==
  /\ Unrestored
  /\ PathOf(EntryNow) = NoItem
  /\ job' = [job EXCEPT !.entry = @ + 1]
  /\ reply' = NoReply
  /\ UNCHANGED <<world, file, source, with_items>>

RestoreEntry ==
  /\ Unrestored
  /\ PathOf(EntryNow) # NoItem
  /\ \E after \in AddedTo(world[At].inventory, EntryNow, PathOf(EntryNow)) :
       /\ world' = [world EXCEPT ![At].inventory = after]
       /\ job' = IF after = world[At].inventory
                 THEN [job EXCEPT !.entry = @ + 1, !.refused = @ \cup {<<job.next, job.entry>>}]
                 ELSE [job EXCEPT !.entry = @ + 1, !.stacks = @ + 1]
  /\ reply' = NoReply
  /\ UNCHANGED <<file, source, with_items>>

\* Mistake: a device that was off is taken for an unknown one.
OnesOnly(piece) == piece.activated > 0

DeviceKnown(piece) == piece.activated >= 0

\* Of a turret's setting and ammunition only the ranges are put back.
RestoreDevice ==
  /\ Restoring
  /\ ~Unrestored
  /\ LET on == DeviceKnown(PieceNow) /\ IsContainer(world[At])
     IN  /\ world' = [world EXCEPT
              ![At].active = IF on THEN IF PieceNow.activated = 1 THEN 1 ELSE 0 ELSE @,
              ![At].ranges = IF Len(PieceNow.ranges) = 3 /\ IsTurret(world[At])
                             THEN PieceNow.ranges ELSE @]
         /\ job' = [NextPiece EXCEPT !.devices = @ + (IF on THEN 1 ELSE 0)]
  /\ reply' = NoReply
  /\ UNCHANGED <<file, source, with_items>>

----------------------------------------------------------------------------
(* Fill *)

\* Mistake: whatever holds something is filled.
AnyContainer(s) == IsContainer(s)

LooksLikeTurret(s) == Kind[s.class].named

\* AmmoItemTemplate, at its offset in a turret; in anything else there is
\* whatever happens to lie there.
Templates(s) == IF IsTurret(s) THEN {Kind[s.class].template} ELSE Items \cup {NoItem}

StackFor(ammo, per_stack) ==
  IF per_stack > 0 THEN per_stack ELSE IF MaxStack[ammo] > 0 THEN MaxStack[ammo] ELSE 1

\* Mistake: the stacks that are there are not counted.
AllSlots(s) == Kind[s.class].slots

FreeSlots(s) ==
  IF Kind[s.class].slots > Len(s.inventory) THEN Kind[s.class].slots - Len(s.inventory) ELSE 0

\* The game may clamp the quantity it is asked for.
Quantities(ammo, stack) ==
  {stack} \cup (IF "clamped" \in Events /\ MaxStack[ammo] \in 1..stack THEN {MaxStack[ammo]} ELSE {})

\* How many stacks the game takes until it gives none.
Takes(free) == IF "refused" \in Events THEN 0..free ELSE {free}

Filled(s, ammo, n, quantity) ==
  [s EXCEPT !.inventory = @ \o [k \in 1..n |-> NewItem(ammo, quantity)]]

\* What one pass of the loop may make of a turret and count for it. The rounds
\* it counts are those it asked for.
Outcomes(s, ammo, per_stack) ==
  IF ~HasInventory(s) THEN {[after |-> s, stacks |-> 0, rounds |-> 0, skip |-> "no_inventory"]}
  ELSE IF ammo = NoItem THEN {[after |-> s, stacks |-> 0, rounds |-> 0, skip |-> "no_template"]}
  ELSE IF FreeSlots(s) = 0 THEN {[after |-> s, stacks |-> 0, rounds |-> 0, skip |-> "already_full"]}
  ELSE {[after |-> Filled(s, ammo, n, quantity), stacks |-> n,
         rounds |-> n * StackFor(ammo, per_stack), skip |-> "none"] :
         n \in Takes(FreeSlots(s)), quantity \in Quantities(ammo, StackFor(ammo, per_stack))}

OutcomesFor(k, per_stack) ==
  UNION {Outcomes(world[k], ammo, per_stack) : ammo \in Templates(world[k])}

Total(f) == FoldFunction(+, 0, f)

\* Mistake: a turret with room is counted before the game gives it anything.
CountedOpen(turrets, done) ==
  [turrets |-> Cardinality(turrets),
   filled |-> Cardinality({k \in turrets : done[k].skip = "none"}),
   already_full |-> Cardinality({k \in turrets : done[k].skip = "already_full"}),
   skipped |-> Cardinality({k \in turrets : done[k].skip \in {"no_inventory", "no_template"}}),
   stacks_added |-> Total([k \in turrets |-> done[k].stacks]),
   rounds_added |-> Total([k \in turrets |-> done[k].rounds])]

FillStats(turrets, done) ==
  [turrets |-> Cardinality(turrets),
   filled |-> Cardinality({k \in turrets : done[k].stacks > 0}),
   already_full |-> Cardinality({k \in turrets : done[k].skip = "already_full"}),
   skipped |-> Cardinality({k \in turrets : done[k].skip \in {"no_inventory", "no_template"}}),
   stacks_added |-> Total([k \in turrets |-> done[k].stacks]),
   rounds_added |-> Total([k \in turrets |-> done[k].rounds])]

\* turrets: those within the radius. A paste has the game thread to itself from
\* a piece to its contents. Bound: once it has begun, only its copies are filled.
HandleFill(turrets, per_stack) ==
  /\ job # NoJob => job.step = "piece" /\ \A k \in turrets : k > job.first
  /\ turrets # {}
  /\ \E done \in [turrets -> UNION {OutcomesFor(k, per_stack) : k \in turrets}] :
       /\ \A k \in turrets : done[k] \in OutcomesFor(k, per_stack)
       /\ world' = [k \in DOMAIN world |-> IF k \in turrets THEN done[k].after ELSE world[k]]
       /\ reply' = FillStats(turrets, done)
  /\ UNCHANGED <<file, job, source, with_items>>

\* A player empties a container.
Empty(k) ==
  /\ job = NoJob
  /\ HasInventory(world[k])
  /\ world[k].inventory # <<>>
  /\ world' = [world EXCEPT ![k].inventory = <<>>]
  /\ reply' = NoReply
  /\ UNCHANGED <<file, job, source, with_items>>

Next ==
  \/ \E items \in BOOLEAN : HandleSave(items)
  \/ \E invulnerable \in BOOLEAN, gone \in Missing : HandlePaste(invulnerable, gone)
  \/ PlacePiece
  \/ SkipEntry
  \/ RestoreEntry
  \/ RestoreDevice
  \/ \E turrets \in SUBSET {k \in DOMAIN world : LooksLikeTurret(world[k])},
        per_stack \in StackArgs : HandleFill(turrets, per_stack)
  \/ \E k \in DOMAIN world : Empty(k)

Spec == Init /\ [][Next]_vars

----------------------------------------------------------------------------
(* Properties *)

\* The pieces of the paste that are done with.
Done == IF job = NoJob THEN {} ELSE 1..(job.next - 1)

Copy(k) == world[job.first + k]

\* What the copy of a piece should hold: what the original did, without what no
\* class could be found for and what the game refused.
Expected(k) ==
  LET carried == Carried(source[k])
  IN  Picked(carried, {n \in DOMAIN carried : /\ carried[n].path \notin job.gone
                                              /\ <<k, n>> \notin job.refused})

\* The copy of a piece, where it has come to be and has an inventory, holds stack
\* for stack and with its quality what the original held when it was saved, and
\* only what cannot be loaded or the game refused is missing (Capture.cpp:323-366,
\* Paste.cpp:345-379; "a missing one costs that stack, not the paste",
\* Paste.cpp:203); what fill adds comes after it.
HoldsWhatWasSaved ==
  \A k \in Done :
    source # <<>> /\ with_items /\ ~job.invulnerable =>
      /\ Copy(k).class \in {source[k].class, NoClass}
      /\ HasInventory(Copy(k)) => IsPrefix(Expected(k), Copy(k).inventory)

\* The stacks that can be restored: their class loads, and their piece has neither
\* failed (Paste.cpp:298, 315) nor come without an inventory (346).
Restorable ==
  {u \in Spots(source) : /\ ItemWalk(source)[u] \notin job.gone
                         /\ HasInventory(Copy(u[1]))}

\* The admin is told how many stacks came through (Paste.cpp:268-273): all that
\* can be restored but those the game refuses. The others are in no reply: those
\* of failed pieces, of containers without an inventory, and of a missing class.
StacksAsTold ==
  job # NoJob /\ ~Running /\ source # <<>> /\ with_items /\ ~job.invulnerable =>
    job.stacks + Cardinality(job.refused) = Cardinality(Restorable)

\* A device of the copy is set as its original was, off as well as on, and
\* with its ranges; a save without contents leaves it as the game made it
\* (Capture.cpp:324-381, Paste.cpp:381-393).
DevicesAsCaptured ==
  \A k \in Done :
    source # <<>> =>
      LET set == with_items /\ ~job.invulnerable
      IN  /\ IsContainer(Copy(k)) =>
               Copy(k).active = IF set THEN source[k].active ELSE Bare(Copy(k).class).active
          /\ IsTurret(Copy(k)) =>
               Copy(k).ranges = IF set THEN source[k].ranges ELSE Bare(Copy(k).class).ranges

\* What a paste works from is what was captured, though a file leaves out what
\* has its default: piece 0, a device that is off, a single item (Model.h:80-140).
\* "Format 1 save: promote the single parent to a one-entry graph."
LoadedAsSaved ==
  job # NoJob =>
    IF source # <<>> THEN job.bp = CaptureSelection(source, with_items)
    ELSE \A k \in DOMAIN job.bp.pieces :
           job.bp.pieces[k].links =
             LET j == file.pieces[k]
             IN  IF "f" \in DOMAIN j /\ j["f"] >= 0 THEN <<j["f"]>> ELSE Value(j, "l", <<>>)

StacksIn(w) == Total([k \in DOMAIN w |-> IF HasInventory(w[k]) THEN Len(w[k].inventory) ELSE 0])

Quantity(s) ==
  IF HasInventory(s) THEN Total([n \in DOMAIN s.inventory |-> s.inventory[n].quantity]) ELSE 0

\* What fill tells the admin is what it did: the turrets that took something,
\* the stacks and the rounds that are there and were not (Main.cpp:297-307).
FillAsTold ==
  [][reply' # NoReply =>
       /\ reply'.stacks_added = StacksIn(world') - StacksIn(world)
       /\ reply'.rounds_added = Total([k \in DOMAIN world |-> Quantity(world'[k]) - Quantity(world[k])])
       /\ reply'.filled = Cardinality({k \in DOMAIN world : world'[k] # world[k]})]_vars

\* Fill puts ammunition of its own kind into turrets, and never more than there
\* is room for, in the midst of a paste too ("fails safe: it is skipped, not
\* corrupted", Fill.cpp:17-18; "free slots times the ammo's own stack size",
\* Main.cpp:276-277).
FillFits ==
  [][reply' # NoReply =>
       \A k \in DOMAIN world : world'[k] # world[k] =>
         LET s == world[k] new == world'[k].inventory
         IN  /\ IsTurret(s)
             /\ Len(new) <= Kind[s.class].slots
             /\ \A n \in DOMAIN new :
                  IF n <= Len(s.inventory) THEN new[n] = s.inventory[n]
                  ELSE new[n].path = Kind[s.class].template]_vars
============================================================================
