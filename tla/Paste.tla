------------------------------- MODULE Paste -------------------------------
(***************************************************************************)
(* The paste engine of src/src/Paste.cpp: one job at a time, placed piece  *)
(* by piece and then linked edge by edge from the server's frame callback, *)
(* recorded in memory and in undo.gz when it ends, and taken out again by  *)
(* UndoLastPaste.                                                          *)
(*                                                                         *)
(* Commands, the frame callback and the game itself all run on the one     *)
(* game thread, so a command never lands inside a tick; but players,       *)
(* decay, world saves, plugin reloads and crashes fall between ticks, and  *)
(* the job keeps raw actor pointers across them.                           *)
(***************************************************************************)
EXTENDS Geometry, Sequences, FiniteSets

CONSTANTS
  Classes,      \* blueprint paths of structure classes
  Loadable,     \* the classes BPLoadClass finds on this map
  Blueprints,   \* the blueprints that may be pasted
  Options,      \* the PasteOptions a paste may be started with
  Actors,       \* actor addresses; an address is reused after Destroy
  Builds,       \* what players may build, and where
  MaxPastes,    \* bound: pastes started in one behaviour
  Events,       \* which doings of the environment are explored
  NoClass,      \* what a class_index out of range names
  NoActor, NoStructure, NoJob

\* Piece of Model.h. cls is the class that class_index names in the blueprint's
\* list; nothing checks the index a file brings. floor and links are indices of
\* other pieces. The code counts from 0 and rejects those out of range; here
\* they count from 1.
Piece == [cls: Classes \cup {NoClass}, at: Location, floor: Int, links: Seq(Int)]

\* yaw is in quarter turns, the rotations that keep coordinates integral.
Option == [origin: Location, yaw: 0..3, sink: Int,
           invulnerable: BOOLEAN, per_tick: Int]

\* A structure actor. paste and piece are history: which paste put it there
\* and as which piece, 0 for one a player built.
Structure == [cls: Classes, at: Location, owned: BOOLEAN,
              paste: Nat, piece: Nat]

\* PasteJob: order and spawned are parallel to the pieces.
JobOf(b) == [bp: {b}, opts: Options, order: [DOMAIN b -> DOMAIN b],
             spawned: [DOMAIN b -> Actors \cup {NoActor}],
             phase: {"Placing", "Linking"}, cursor: 0..Len(b),
             link_cursor: 0..Len(b), link_sub: Nat,
             failed: Nat, links_made: Nat, floors_restored: Nat]

IsJob(job) == \E b \in Blueprints : job \in JobOf(b)

ASSUME PasteAssumption ==
  /\ Loadable \subseteq Classes
  /\ NoClass \notin Classes
  /\ Blueprints \subseteq Seq(Piece)
  /\ Options \subseteq Option
  /\ Builds \subseteq [cls: Classes, at: Location]
  /\ MaxPastes \in Nat
  /\ NoActor \notin Actors
  /\ NoStructure \notin Structure
  /\ ~IsJob(NoJob)

VARIABLES
  world,    \* [actors, linked, mounted]: the structures that stand, their
            \* LinkedStructures and the floors mounted items sit on
  saved,    \* the world as the server last saved it
  g_job,    \* the running PasteJob, or NoJob
  left,     \* what is left of the current tick's budget, Idle between ticks
  g_last,   \* the record of the last paste, in memory
  disk,     \* undo.gz
  pastes    \* history: how many pastes have been started

vars == <<world, saved, g_job, left, g_last, disk, pastes>>

Idle == -1

----------------------------------------------------------------------------
(* Where pieces land *)

\* Where placement puts a piece.
WorldLocation(p, o) ==
  LET v == Translate(RotateAroundZ(p.at, o.yaw), o.origin)
  IN  [v EXCEPT !.z = @ - o.sink]

\* Mistake: the offsets recorded as captured, not as rotated.
UnrotatedLocation(p, o) == Translate(p.at, o.origin)

\* Where FinishJob writes down that it is: the sink is not subtracted.
RecordedLocation(p, o) == Translate(RotateAroundZ(p.at, o.yaw), o.origin)

----------------------------------------------------------------------------
(* The job *)

Budget(o) == IF o.per_tick > 0 THEN o.per_tick ELSE 25

\* The list of classes holds those of the pieces.
ClassesOf(b) == {b[i].cls : i \in DOMAIN b}

\* What job.resolved[class_index] reads: the class if this map has it; past the
\* end of the vector whatever lies there, any class among it. Where it holds
\* nothing the turn fails; it may also end the process (StaleCrash).
Resolved(p) == IF p.cls = NoClass THEN Loadable ELSE {p.cls} \cap Loadable

\* Mistake: the order of capture.
AnyOrder(b, f) == \A i, j \in DOMAIN b : i < j => f[i] # f[j]

\* std::sort by z is not stable: pieces of equal height come in any order.
BottomUp(b, f) ==
  \A i, j \in DOMAIN b : i < j => f[i] # f[j] /\ b[f[i]].at.z <= b[f[j]].at.z

PlacementOrders(b) == {f \in [DOMAIN b -> DOMAIN b] : BottomUp(b, f)}

NewJob(b, o, order) ==
  [bp |-> b, opts |-> o, order |-> order,
   spawned |-> [i \in DOMAIN b |-> NoActor],
   phase |-> "Placing", cursor |-> 0, link_cursor |-> 0, link_sub |-> 0,
   failed |-> 0, links_made |-> 0, floors_restored |-> 0]

Running == g_job # NoJob

Size == Len(g_job.bp)

\* The piece the placing loop takes next, and the one being linked.
Current == g_job.order[g_job.cursor + 1]
Linked == g_job.link_cursor + 1

Links == g_job.bp[Linked].links
EdgeTarget == Links[g_job.link_sub + 1]

\* Mistake: a piece's last edge is left out.
PieceDoneEarly == \/ g_job.spawned[Linked] = NoActor
                  \/ g_job.link_sub + 1 >= Len(Links)

\* Nothing (more) to link from this piece: it was never placed, or all its
\* edges have been taken.
PieceDone == \/ g_job.spawned[Linked] = NoActor
             \/ g_job.link_sub >= Len(Links)

\* Mistake: a neighbour that was never placed is linked and counted.
InRange(target) == target \in 1..Size

Joinable(target) == /\ target \in 1..Size
                    /\ g_job.spawned[target] # NoActor

\* Mistake: an exit that forgets to count.
UncountedTurn(job) == [job EXCEPT !.cursor = @ + 1]

\* A turn of the placing loop that places nothing.
FailedTurn(job) == [job EXCEPT !.cursor = @ + 1, !.failed = @ + 1]

\* Mistake: the edge index is carried over.
CarriedOver(job) == [job EXCEPT !.link_cursor = @ + 1]

\* The link loop moves on to the next piece.
NextLinked(job) == [job EXCEPT !.link_cursor = @ + 1, !.link_sub = 0]

\* The floor handed to NonPlayerFinalStructurePlacement for piece i.
FloorOf(i, spawned) ==
  LET f == g_job.bp[i].floor
  IN  IF f \in DOMAIN spawned THEN spawned[f] ELSE NoActor

----------------------------------------------------------------------------
(* The world, kept by the game *)

Live == {a \in Actors : world.actors[a] # NoStructure}
Free == Actors \ Live

Without(w, gone) ==
  [actors  |-> [a \in Actors |-> IF a \in gone THEN NoStructure ELSE w.actors[a]],
   linked  |-> {e \in w.linked : e[1] \notin gone /\ e[2] \notin gone},
   mounted |-> {e \in w.mounted : e[1] \notin gone /\ e[2] \notin gone}]

EmptyWorld == [actors |-> [a \in Actors |-> NoStructure], linked |-> {}, mounted |-> {}]

\* A call through a pointer to a destroyed actor is undefined. Either it
\* writes where nobody looks, or it brings the process down (StaleCrash); if
\* the address has been reused it acts on whatever stands there now.
Joined(a, b) == IF a \in Live /\ b \in Live THEN {<<a, b>>} ELSE {}

----------------------------------------------------------------------------
(* The undo record *)

\* paste is history; piece gives the order of the items in the code's vector.
Item == [piece: Nat, cls: Classes \cup {NoClass}, at: Location]
NoRecord == [paste |-> 0, items |-> {}]

Record(job) ==
  [paste |-> pastes,
   items |-> {[piece |-> i, cls |-> job.bp[i].cls,
               at |-> RecordedLocation(job.bp[i], job.opts)] :
              i \in {j \in DOMAIN job.bp : job.spawned[j] # NoActor}}]

NoFile == [kind |-> "none", record |-> NoRecord]
TornFile == [kind |-> "torn", record |-> NoRecord]
File(r) == [kind |-> "ok", record |-> r]

\* Mistake: an undo.gz that is already there is left alone.
PersistOnce(r) == IF disk.kind = "ok" THEN {disk} ELSE {File(r)}

\* PersistUndo truncates and rewrites the file in place and reports nothing:
\* it may not open (nothing changes) or stop half way.
PersistUndo(r) == IF "disk" \in Events THEN {File(r), TornFile, disk} ELSE {File(r)}

\* What UndoLastPaste works from: memory, else what LoadUndo accepts. An
\* empty record is not accepted, nor a file Decompress or parse rejects.
UndoRecord == IF g_last.items # {} THEN g_last ELSE disk.record

\* The items whose index is in the record's list of classes; undo passes over
\* the others.
Named(items) == {it \in items : it.cls # NoClass}

\* wanted[Key] = class, the last item written under a key wins.
Wanted(items, k) ==
  LET here == {i \in Named(items) : Key(i.at) = k}
  IN  {it.cls : it \in {i \in here : \A j \in here : j.piece <= i.piece}}

\* Mistake: position alone decides.
MatchesPlace(s, items) == Wanted(items, Key(s.at)) # {}

Matches(s, items) == s.cls \in Wanted(items, Key(s.at))

\* Mistake: what nobody owns is not looked for.
OwnedSightings == {{a \in Live : world.actors[a].owned}}

\* GetAllActorsInRange can miss actors in stasis (Capture.h:58).
Sightings == IF "stasis" \in Events THEN SUBSET Live ELSE {Live}

----------------------------------------------------------------------------
(* Commands *)

Init ==
  /\ world = EmptyWorld
  /\ saved = EmptyWorld
  /\ g_job = NoJob
  /\ left = Idle
  /\ g_last = NoRecord
  /\ disk = NoFile
  /\ pastes = 0

Accepted(b) == b # <<>> /\ ClassesOf(b) \cap Loadable # {}

StartJob(b, o) ==
  /\ pastes < MaxPastes
  /\ \E order \in PlacementOrders(b) : g_job' = NewJob(b, o, order)
  /\ g_last' = NoRecord
  /\ pastes' = pastes + 1

BeginPaste(b, o) ==
  /\ left = Idle
  /\ ~Running
  /\ Accepted(b)
  /\ StartJob(b, o)
  /\ UNCHANGED <<world, saved, left, disk>>

CancelPaste ==
  /\ "cancel" \in Events
  /\ left = Idle
  /\ Running
  /\ g_job' = NoJob
  /\ UNCHANGED <<world, saved, left, g_last, disk, pastes>>

\* Mistake: undo does not ask whether a paste is running.
UndoWhileRunning == Named(UndoRecord.items) # {}

UndoAllowed == ~Running /\ Named(UndoRecord.items) # {}

UndoLastPaste ==
  /\ left = Idle
  /\ UndoAllowed
  /\ \E seen \in Sightings :
       world' = Without(world, {a \in seen : Matches(world.actors[a], UndoRecord.items)})
  /\ g_last' = NoRecord
  /\ disk' \in IF "disk" \in Events THEN {NoFile, disk} ELSE {NoFile}
  /\ UNCHANGED <<saved, g_job, left, pastes>>

\* The record is read, but no item of it names a class: nothing to undo.
UndoNothing ==
  /\ left = Idle
  /\ ~Running
  /\ UndoRecord.items # {}
  /\ Named(UndoRecord.items) = {}
  /\ g_last' = UndoRecord
  /\ UNCHANGED <<world, saved, g_job, left, disk, pastes>>

----------------------------------------------------------------------------
(* TickPaste *)

TickBegin ==
  /\ left = Idle
  /\ Running
  /\ left' = Budget(g_job.opts)
  /\ UNCHANGED <<world, saved, g_job, g_last, disk, pastes>>

TickNoWorld ==
  /\ "no_world" \in Events
  /\ left = Idle
  /\ Running
  /\ g_job' = NoJob
  /\ UNCHANGED <<world, saved, left, g_last, disk, pastes>>

PlacingTurn ==
  /\ left > 0
  /\ g_job.phase = "Placing"
  /\ g_job.cursor < Size

LinkingTurn ==
  /\ left > 0
  /\ g_job.phase = "Linking"
  /\ g_job.link_cursor < Size

\* An unresolved class, or a spawn that returns null; past the end of resolved
\* there may be nothing.
PlaceFails ==
  /\ PlacingTurn
  /\ \/ g_job.bp[Current].cls \notin Loadable
     \/ "null_spawn" \in Events
     \/ Free = {}
  /\ left' = left - 1
  /\ g_job' = FailedTurn(g_job)
  /\ UNCHANGED <<world, saved, g_last, disk, pastes>>

\* A showcase build is never finalized: no owner, no floor.
PlaceStructure(a) ==
  LET i == Current
      landed == [g_job.spawned EXCEPT ![i] = a]
      floor == IF g_job.opts.invulnerable THEN NoActor ELSE FloorOf(i, landed)
  IN  /\ PlacingTurn
      /\ a \in Free
      /\ left' = left - 1
      /\ \E cls \in Resolved(g_job.bp[i]) :
           world' = [world EXCEPT
             !.actors[a] = [cls |-> cls,
                            at |-> WorldLocation(g_job.bp[i], g_job.opts),
                            owned |-> ~g_job.opts.invulnerable,
                            paste |-> pastes, piece |-> i],
             !.mounted = @ \cup (IF floor \in Live \cup {a} THEN {<<a, floor>>} ELSE {})]
      /\ g_job' = [g_job EXCEPT
           !.cursor = @ + 1,
           !.spawned = landed,
           !.floors_restored = @ + (IF floor # NoActor THEN 1 ELSE 0)]
      /\ UNCHANGED <<saved, g_last, disk, pastes>>

StartLinking ==
  /\ left # Idle
  /\ g_job.phase = "Placing"
  /\ g_job.cursor >= Size
  /\ ~g_job.opts.invulnerable
  /\ left' = Idle
  /\ g_job' = [g_job EXCEPT !.phase = "Linking"]
  /\ UNCHANGED <<world, saved, g_last, disk, pastes>>

NextPiece ==
  /\ LinkingTurn
  /\ PieceDone
  /\ left' = left - 1
  /\ g_job' = NextLinked(g_job)
  /\ UNCHANGED <<world, saved, g_last, disk, pastes>>

\* Mistake: an edge is passed only when it is joined.
RetriedEdge(job) == job

\* The statement that reads an edge moves past it, whether it can be joined or not.
PastEdge(job) == [job EXCEPT !.link_sub = @ + 1]

SkipEdge ==
  /\ LinkingTurn
  /\ ~PieceDone
  /\ ~Joinable(EdgeTarget)
  /\ left' = left - 1
  /\ g_job' = PastEdge(g_job)
  /\ UNCHANGED <<world, saved, g_last, disk, pastes>>

LinkEdge ==
  /\ LinkingTurn
  /\ ~PieceDone
  /\ Joinable(EdgeTarget)
  /\ left' = left - 1
  /\ world' = [world EXCEPT !.linked =
                 @ \cup Joined(g_job.spawned[Linked], g_job.spawned[EdgeTarget])]
  /\ g_job' = [g_job EXCEPT !.link_sub = @ + 1, !.links_made = @ + 1]
  /\ UNCHANGED <<saved, g_last, disk, pastes>>

AllPlaced == g_job.phase = "Placing" /\ g_job.cursor >= Size /\ g_job.opts.invulnerable
AllLinked == g_job.phase = "Linking" /\ g_job.link_cursor >= Size

FinishJob ==
  /\ left # Idle
  /\ AllPlaced \/ AllLinked
  /\ left' = Idle
  /\ g_job' = NoJob
  /\ g_last' = Record(g_job)
  /\ disk' \in PersistUndo(Record(g_job))
  /\ UNCHANGED <<world, saved, pastes>>

\* The budget is spent and the phase is not over.
TickEnd ==
  /\ left = 0
  /\ \/ g_job.phase = "Placing" /\ g_job.cursor < Size
     \/ g_job.phase = "Linking" /\ g_job.link_cursor < Size
  /\ left' = Idle
  /\ UNCHANGED <<world, saved, g_job, g_last, disk, pastes>>

TickStep ==
  \/ PlaceFails
  \/ \E a \in Actors : PlaceStructure(a)
  \/ StartLinking
  \/ NextPiece
  \/ SkipEdge
  \/ LinkEdge
  \/ FinishJob
  \/ TickEnd

Tick == TickBegin \/ (left # Idle /\ TickStep)

----------------------------------------------------------------------------
(* The game and the host *)

\* Players and decay leave alone what was never finalized.
Destroy(a) ==
  /\ "destroy" \in Events
  /\ left = Idle
  /\ a \in Live
  /\ world.actors[a].owned
  /\ world' = Without(world, {a})
  /\ UNCHANGED <<saved, g_job, left, g_last, disk, pastes>>

\* Bound: one standing structure of each kind of Builds at a time.
BuildStructure(a, s) ==
  /\ "build" \in Events
  /\ left = Idle
  /\ a \in Free
  /\ \A x \in Live : world.actors[x].paste = 0 =>
                     [cls |-> world.actors[x].cls, at |-> world.actors[x].at] # s
  /\ world' = [world EXCEPT !.actors[a] =
                 [cls |-> s.cls, at |-> s.at, owned |-> TRUE, paste |-> 0, piece |-> 0]]
  /\ UNCHANGED <<saved, g_job, left, g_last, disk, pastes>>

SaveWorld ==
  /\ "save" \in Events
  /\ left = Idle
  /\ saved' = world
  /\ UNCHANGED <<world, g_job, left, g_last, disk, pastes>>

\* Plugin_Unload cancels the job; the module's statics go with it.
Reload ==
  /\ "reload" \in Events
  /\ left = Idle
  /\ g_job' = NoJob
  /\ g_last' = NoRecord
  /\ UNCHANGED <<world, saved, left, disk, pastes>>

\* The process ends, and starts again from what was saved.
Restarted ==
  /\ world' = saved
  /\ g_job' = NoJob
  /\ g_last' = NoRecord
  /\ left' = Idle
  /\ UNCHANGED <<saved, pastes>>

Crash ==
  /\ "crash" \in Events
  /\ Restarted
  /\ UNCHANGED disk

\* The process dies between truncating undo.gz and the last byte of it.
CrashWhileSaving ==
  /\ "crash" \in Events
  /\ left # Idle
  /\ AllPlaced \/ AllLinked
  /\ Restarted
  /\ disk' = TornFile

\* A call through a pointer to a destroyed actor, or a class read past the end
\* of resolved, is undefined: it may end the process.
Dangling(a) == a # NoActor /\ a \notin Live

StaleCrash ==
  /\ \/ /\ LinkingTurn
        /\ ~PieceDone
        /\ Joinable(EdgeTarget)
        /\ \/ Dangling(g_job.spawned[Linked])
           \/ Dangling(g_job.spawned[EdgeTarget])
     \/ /\ PlacingTurn
        /\ ~g_job.opts.invulnerable
        /\ Resolved(g_job.bp[Current]) # {}
        /\ Dangling(FloorOf(Current, g_job.spawned))
     \/ PlacingTurn /\ g_job.bp[Current].cls = NoClass
  /\ Restarted
  /\ UNCHANGED disk

ProcessEnds == Crash \/ CrashWhileSaving \/ StaleCrash

Next ==
  \/ \E b \in Blueprints, o \in Options : BeginPaste(b, o)
  \/ CancelPaste
  \/ UndoLastPaste
  \/ UndoNothing
  \/ Tick
  \/ TickNoWorld
  \/ \E a \in Actors : Destroy(a)
  \/ \E a \in Actors, s \in Builds : BuildStructure(a, s)
  \/ SaveWorld
  \/ Reload
  \/ ProcessEnds

Spec == Init /\ [][Next]_vars

\* The host calls the tick callback every frame; nobody else owes a step.
FairSpec == Spec /\ WF_vars(Tick)

----------------------------------------------------------------------------
(* Properties *)

World == [actors: [Actors -> Structure \cup {NoStructure}],
          linked: SUBSET (Actors \X Actors), mounted: SUBSET (Actors \X Actors)]

UndoRecords == [paste: Nat, items: SUBSET Item]

\* Every index the job itself holds is inside the vector it indexes.
IndexesInRange ==
  /\ BottomUp(g_job.bp, g_job.order)
  /\ g_job.link_sub <= IF g_job.link_cursor < Size THEN Len(Links) ELSE 0
  /\ g_job.phase = "Placing" => g_job.link_cursor = 0 /\ g_job.link_sub = 0
  /\ g_job.phase = "Linking" => g_job.cursor = Size

\* The types of the state, and the indexes that the job keeps (order, cursor and
\* the two link cursors) in range of the vectors TickPaste subscripts with them
\* (Paste.cpp:294-295, 318, 416-418, 427), also when a file brings a class_index
\* that is not: that one is subscripted as it comes (Paste.cpp:297).
TypeOK ==
  /\ world \in World
  /\ saved \in World
  /\ Running => IsJob(g_job)
  /\ left \in Nat \cup {Idle}
  /\ left # Idle => Running
  /\ g_last \in UndoRecords
  /\ disk \in [kind: {"none", "torn", "ok"}, record: UndoRecords]
  /\ pastes \in Nat
  /\ Running => IndexesInRange

Placed == {i \in 1..Size : g_job.spawned[i] # NoActor}

\* The actor this job placed as piece i has not been destroyed since.
Standing(i) ==
  /\ g_job.spawned[i] \in Live
  /\ world.actors[g_job.spawned[i]].paste = pastes
  /\ world.actors[g_job.spawned[i]].piece = i

Edges(b) == UNION {{<<i, k>> : k \in DOMAIN b[i].links} : i \in DOMAIN b}

\* The edges the link loop has been past.
Taken == {e \in Edges(g_job.bp) : \/ e[1] <= g_job.link_cursor
                                  \/ e[1] = Linked /\ e[2] <= g_job.link_sub}

JoinableEdges == {e \in Edges(g_job.bp) : /\ e[1] \in Placed
                                          /\ g_job.bp[e[1]].links[e[2]] \in Placed}

\* A floor lies strictly below what is mounted on it.
FloorsBelow(b) ==
  \A i \in DOMAIN b : b[i].floor \in DOMAIN b => b[b[i].floor].at.z < b[i].at.z

MountedPieces == {i \in Placed : g_job.bp[i].floor \in Placed}

\* Every piece the placing loop has been past is either placed or counted as
\* failed, and no piece is placed before its turn: the two exits of a turn
\* (Paste.cpp:298, 315) and the cursor agree in every order of failures.
Accounted ==
  Running =>
    /\ Placed \subseteq {g_job.order[k] : k \in 1..g_job.cursor}
    /\ Cardinality(Placed) + g_job.failed = g_job.cursor

\* What the admin is told at the end (Paste.cpp:268-273) is what happened:
\* placed and failed pieces make up the blueprint, and the links and floor
\* mounts counted are those of pieces whose neighbour or floor was placed.
ReplyIsTrue ==
  (left # Idle /\ (AllPlaced \/ AllLinked)) =>
    /\ Cardinality(Placed) + g_job.failed = Size
    /\ g_job.links_made = IF g_job.opts.invulnerable THEN 0
                           ELSE Cardinality(JoinableEdges)
    /\ FloorsBelow(g_job.bp) =>
         g_job.floors_restored = IF g_job.opts.invulnerable THEN 0
                                 ELSE Cardinality(MountedPieces)

\* Once the link loop is past an edge, its ends are linked for as long as the
\* two pieces stand, whatever was destroyed or built on their neighbours'
\* addresses meanwhile (Paste.cpp:414-435).
LinkedSoFar ==
  Running =>
    \A e \in Taken :
      LET t == g_job.bp[e[1]].links[e[2]]
      IN  (t \in 1..Size /\ Standing(e[1]) /\ Standing(t)) =>
            <<g_job.spawned[e[1]], g_job.spawned[t]>> \in world.linked

\* "The floor already exists by the time its mounted item is placed"
\* (Paste.cpp:330-332): a placed piece whose floor was placed is mounted on it.
MountedOnItsFloor ==
  Running /\ ~g_job.opts.invulnerable =>
    \A i \in MountedPieces :
      LET f == g_job.bp[i].floor
      IN  (Standing(i) /\ Standing(f)) =>
            <<g_job.spawned[i], g_job.spawned[f]>> \in world.mounted

\* "A piece can only be linked once its neighbours exist" (Paste.cpp:20-22):
\* whenever LinkStructure is called, both actors are those the job placed.
NeighboursExist ==
  (left # Idle /\ LinkingTurn /\ ~PieceDone /\ Joinable(EdgeTarget)) =>
    Standing(Linked) /\ Standing(EdgeTarget)

\* Every piece of a recorded paste that still stands is one the record finds
\* again, from memory or from the file: "record where each piece actually
\* landed" (Paste.cpp:247-249), one bucket to a piece (Paste.cpp:452-454).
RecordLocates ==
  \A r \in {g_last, disk.record} :
    r.items # {} =>
      \A a \in Live : world.actors[a].paste = r.paste => Matches(world.actors[a], r.items)

\* While the files can be written, what memory would undo the file would undo
\* after a reload too (Paste.cpp:445-446).
UndoSurvivesReload == g_last.items # {} => disk = File(g_last)

\* Undo takes out the most recent paste (README.md, "/sb undo"), not one
\* before it.
UndoTakesLatest == (left = Idle /\ UndoAllowed) => UndoRecord.paste = pastes

\* Closer than ten units along each axis.
Near(c, d) == c < d + 10 /\ d < c + 10
NearPlaces(u, v) == Near(u.x, v.x) /\ Near(u.y, v.y) /\ Near(u.z, v.z)

\* "A pre-existing structure that happens to sit where a pasted piece went is
\* never destroyed by mistake" (Paste.cpp:488-489), as far as undo can tell: what
\* it destroys that was not pasted is of the class of a piece of that paste and
\* stands less than ten units from where this piece was recorded. Whatever else
\* players built stays, of the pasted classes too.
UndoSparesPlayers ==
  [][UndoLastPaste =>
       \A a \in Live :
         world'.actors[a] = NoStructure /\ world.actors[a].paste = 0 =>
           \E it \in UndoRecord.items : /\ it.cls = world.actors[a].cls
                                        /\ NearPlaces(it.at, world.actors[a].at)]_vars

\* Undo takes out all that still stands of the paste its record names, however
\* the paste was turned, and whether memory, the file or a file left over from
\* before a crash names it: it is to "remove exactly what was pasted"
\* (TESTING.md:85, Paste.cpp:483-507).
UndoTakesAll ==
  [][UndoLastPaste =>
       \A a \in Live : world.actors[a].paste = UndoRecord.paste =>
                       world'.actors[a] = NoStructure]_vars

\* A paste never hangs: whatever happens between ticks, it finishes or is
\* given up (Paste.cpp:280-438).
PasteEnds == Running ~> ~Running
============================================================================
