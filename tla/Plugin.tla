------------------------------- MODULE Plugin -------------------------------
(***************************************************************************)
(* The chat commands of src/src/Main.cpp composed: several admins share    *)
(* one paste engine (Paste) and each may have a preview pending, with its  *)
(* corner markers standing in the world (src/src/Preview.cpp).             *)
(*                                                                         *)
(* Blueprints are what storage::Load gave, Options what BuildOptions and   *)
(* AdjustOriginToGround made of the command line and the terrain.          *)
(***************************************************************************)
EXTENDS Paste

CONSTANTS
  Admins,             \* steam ids, positive numbers
  Corners,            \* bound: the corners of the footprint that are marked
  MarkerCandidates,   \* the sequence ResolveMarkerClass tries first
  NoPending

Pending == [bp: Blueprints, opts: Options, markers: SUBSET Actors]

ASSUME PluginAssumption ==
  /\ Admins \subseteq Nat \ {0}
  /\ Corners \subseteq 1..4
  /\ MarkerCandidates \in Seq(Classes)
  /\ NoPending \notin Pending

VARIABLES
  g_pending,  \* the pending preview of each admin
  abandoned,  \* history: the markers no preview knows any more, as ClearPreview
              \* did not find them or the plugin was unloaded
  undone      \* history: the addresses stored by a preview where an undo has
              \* taken a marker

plugin_vars == <<vars, g_pending, abandoned, undone>>

----------------------------------------------------------------------------
(* Preview geometry and markers *)

\* The selection box a blueprint was captured in encloses its pieces.
Extent(b, axis) ==
  CHOOSE m \in {b[i].at[axis] : i \in DOMAIN b} : \A i \in DOMAIN b : b[i].at[axis] <= m

\* The corner's place; its height is the terrain's.
Corner(b, o, k) ==
  LET local == [x |-> IF k \in {2, 3} THEN Extent(b, "x") ELSE 0,
                y |-> IF k \in {3, 4} THEN Extent(b, "y") ELSE 0,
                z |-> 0]
  IN  Translate(RotateAroundZ(local, o.yaw), o.origin)

\* The first class that can be loaded, the blueprint's own coming last.
ResolveMarkerClass(b) ==
  LET tried == MarkerCandidates \o [i \in DOMAIN b |-> b[i].cls]
  IN  {tried[i] : i \in {j \in DOMAIN tried : /\ tried[j] \in Loadable
                                            /\ \A k \in 1..(j - 1) : tried[k] \notin Loadable}}

\* Mistake: a finalized marker has an owner, and so may be demolished.
OwnedMarker(c, b, o, k, admin) ==
  [cls |-> c, at |-> Corner(b, o, k), owned |-> TRUE, paste |-> 0, piece |-> admin]

\* Spawned without finalization; piece is history, the admin it was put for.
Marker(c, b, o, k, admin) ==
  [cls |-> c, at |-> Corner(b, o, k), owned |-> FALSE, paste |-> 0, piece |-> admin]

\* Which actor each corner got; a spawn may return null.
Spawns(free) ==
  {f \in [Corners -> free \cup {NoActor}] :
     /\ \A k, l \in Corners : k # l /\ f[k] # NoActor => f[k] # f[l]
     /\ \A k \in Corners : f[k] = NoActor =>
          "null_spawn" \in Events \/ free \subseteq {f[l] : l \in Corners}}

WithMarkers(w, f, c, b, o, admin) ==
  [w EXCEPT !.actors =
     [a \in Actors |-> IF \E k \in Corners : f[k] = a
                       THEN Marker(c, b, o, CHOOSE k \in Corners : f[k] = a, admin)
                       ELSE w.actors[a]]]

IsMarkerIn(w, a, admin) ==
  w.actors[a] # NoStructure /\ w.actors[a].paste = 0 /\ w.actors[a].piece = admin

----------------------------------------------------------------------------
(* ClearPreview *)

\* What one query finds; nothing without a world. Markers are taken to be in
\* the one octree group that is asked, and within its 100000 units.
Queries == Sightings \cup (IF "no_world" \in Events THEN {{}} ELSE {})

\* Mistake: whatever looks like a marker goes.
ClearedByClass(admin, seen) ==
  IF g_pending[admin] = NoPending THEN {}
  ELSE {a \in seen : world.actors[a].cls \in ResolveMarkerClass(g_pending[admin].bp)}

\* Markers are told apart by address alone.
Cleared(admin, seen) ==
  IF g_pending[admin] = NoPending THEN {} ELSE g_pending[admin].markers \cap seen

Dropped(admin) == [g_pending EXCEPT ![admin] = NoPending]

\* Its pointer is dropped with the preview, found or not.
Unseen(admin, seen) ==
  IF g_pending[admin] = NoPending THEN {}
  ELSE {a \in g_pending[admin].markers \ seen : IsMarkerIn(world, a, admin)}

\* The addresses that previews store.
Stored(pending) ==
  UNION {pending[m].markers : m \in {n \in Admins : pending[n] # NoPending}}

Clear(admin) ==
  /\ \E seen \in Queries :
       /\ world' = Without(world, Cleared(admin, seen))
       /\ abandoned' = abandoned \cup Unseen(admin, seen)
  /\ g_pending' = Dropped(admin)
  /\ undone' = undone \cap Stored(g_pending')

\* Mistake: the previous outline is left standing.
NotReplaced(admin, seen) == {}

\* What BeginPreview destroys of the outline it replaces.
Replaced(admin, seen) == Cleared(admin, seen)

----------------------------------------------------------------------------
(* Commands *)

PluginInit ==
  /\ Init
  /\ g_pending = [admin \in Admins |-> NoPending]
  /\ abandoned = {}
  /\ undone = {}

\* Without a world, or with an empty blueprint, BeginPreview returns before it
\* touches anything.
HandlePreview(admin, b, o) ==
  /\ left = Idle
  /\ b # <<>>
  /\ \E seen \in Sightings :
       LET cleared == Without(world, Replaced(admin, seen))
           free == {a \in Actors : cleared.actors[a] = NoStructure}
       IN  \E f \in Spawns(free) :
             /\ world' = IF ResolveMarkerClass(b) = {} THEN cleared
                         ELSE WithMarkers(cleared, f, CHOOSE c \in ResolveMarkerClass(b) : TRUE,
                                          b, o, admin)
             /\ g_pending' = [g_pending EXCEPT ![admin] =
                  [bp |-> b, opts |-> o,
                   markers |-> IF ResolveMarkerClass(b) = {} THEN {}
                               ELSE {f[k] : k \in Corners} \ {NoActor}]]
       /\ abandoned' = abandoned \cup Unseen(admin, seen)
       /\ undone' = undone \cap Stored(g_pending')
  /\ UNCHANGED <<saved, g_job, left, g_last, disk, pastes>>

\* Mistake: the options are made anew, where the admin stands by now.
OptionsNow(admin) == {o \in Options : o # g_pending[admin].opts}

ConfirmedOptions(admin) == {g_pending[admin].opts}

\* BeginPaste refuses after the preview is gone when no class can be loaded.
HandleConfirm(admin) ==
  /\ left = Idle
  /\ ~Running
  /\ g_pending[admin] # NoPending
  /\ Clear(admin)
  /\ IF Accepted(g_pending[admin].bp)
     THEN \E o \in ConfirmedOptions(admin) : StartJob(g_pending[admin].bp, o)
     ELSE UNCHANGED <<g_job, g_last, pastes>>
  /\ UNCHANGED <<saved, left, disk>>

\* "One escape hatch for both": anybody's paste, and one's own preview.
HandleCancel(admin) ==
  /\ "cancel" \in Events
  /\ left = Idle
  /\ g_job' = NoJob
  /\ Clear(admin)
  /\ UNCHANGED <<saved, left, g_last, disk, pastes>>

\* The module's statics go with it; the markers stay in the world.
Forgotten ==
  /\ g_pending' = [admin \in Admins |-> NoPending]
  /\ abandoned' = {a \in Actors : \E admin \in Admins : IsMarkerIn(world', a, admin)}
  /\ undone' = {}

\* Undo matches by class and place, markers as well.
UndoAmongMarkers ==
  /\ UndoLastPaste
  /\ undone' = undone \cup {a \in Stored(g_pending) :
                             /\ \E admin \in Admins : IsMarkerIn(world, a, admin)
                             /\ world'.actors[a] = NoStructure}
  /\ UNCHANGED <<g_pending, abandoned>>

\* Bound: the world is not saved here, so that after a crash it is empty; Paste
\* has the saves.
PluginNext ==
  \/ \E admin \in Admins, b \in Blueprints, o \in Options : HandlePreview(admin, b, o)
  \/ \E admin \in Admins : HandleConfirm(admin)
  \/ \E admin \in Admins : HandleCancel(admin)
  \/ /\ \/ \E b \in Blueprints, o \in Options : BeginPaste(b, o)
        \/ UndoNothing
        \/ Tick
        \/ TickNoWorld
        \/ \E a \in Actors : Destroy(a)
        \/ \E a \in Actors, s \in Builds : BuildStructure(a, s)
     /\ UNCHANGED <<g_pending, abandoned, undone>>
  \/ UndoAmongMarkers
  \/ (Reload \/ ProcessEnds) /\ Forgotten

PluginSpec == PluginInit /\ [][PluginNext]_plugin_vars

----------------------------------------------------------------------------
(* Properties *)

IsMarker(a, admin) == IsMarkerIn(world, a, admin)

\* The types of the state, and undo the only way for a stored marker pointer to
\* go stale: each points at the marker it was stored for, or at an address where
\* an undo took a marker for a pasted piece of its class (Preview.cpp:29-32 lists
\* classes that are pasted too). Players and decay leave markers alone
\* (Preview.cpp:24-26), and so do the ticks and the other admins' commands.
PluginTypeOK ==
  /\ TypeOK
  /\ g_pending \in [Admins -> Pending \cup {NoPending}]
  /\ abandoned \subseteq Actors
  /\ undone \subseteq Actors
  /\ \A admin \in Admins :
       g_pending[admin] # NoPending =>
         \A a \in g_pending[admin].markers : IsMarker(a, admin) \/ a \in undone

\* "/sb confirm and /sb cancel both remove them" (README.md:253-255): a marker
\* that stands is of a pending preview, whatever was previewed, pasted, undone,
\* cancelled and refused before, unless ClearPreview did not find it or the
\* plugin was unloaded under it.
MarkersPending ==
  \A admin \in Admins, a \in Live :
    IsMarker(a, admin) =>
      \/ a \in abandoned
      \/ g_pending[admin] # NoPending /\ a \in g_pending[admin].markers

\* Previewing, confirming and cancelling destroy the admin's own markers, and
\* nothing else but what stands by now where an undo took one of them: the query
\* tells whether something is at the address, not what (Preview.cpp:114-138).
ClearSparesOthers ==
  [][\A admin \in Admins, a \in Live :
       /\ g_pending'[admin] # g_pending[admin]
       /\ world'.actors[a] # world.actors[a]
       /\ ~IsMarker(a, admin)
       /\ \/ HandleConfirm(admin)
          \/ HandleCancel(admin)
          \/ \E b \in Blueprints, o \in Options : HandlePreview(admin, b, o)
       => a \in g_pending[admin].markers \cap undone]_plugin_vars

Between(v, lo, hi) == (lo <= v /\ v <= hi) \/ (hi <= v /\ v <= lo)

\* "It must build at the markers, not at wherever you have wandered to since"
\* (TESTING.md:104-105): the marker of the corner across from the origin was put
\* there when the preview was made; between the two lies every piece of the
\* paste that is confirmed.
ConfirmAtMarkers ==
  [][\A admin \in Admins, m \in Live :
       /\ HandleConfirm(admin)
       /\ g_job' # NoJob
       /\ IsMarker(m, admin)
       /\ world.actors[m].at = Corner(g_pending[admin].bp, g_pending[admin].opts, 3)
       => \A i \in DOMAIN g_job'.bp :
            LET at == WorldLocation(g_job'.bp[i], g_job'.opts)
                origin == g_job'.opts.origin
            IN  /\ Between(at.x, origin.x, world.actors[m].at.x)
                /\ Between(at.y, origin.y, world.actors[m].at.y)]_plugin_vars
=============================================================================
