------------------------------- MODULE Survey -------------------------------
(***************************************************************************)
(* What a preview tells the admin about a site, and what a confirmed paste *)
(* then does there: AdjustOriginToGround of src/src/Paste.cpp, the checks  *)
(* of BeginPreview in src/src/Preview.cpp, and the placing of the pieces.  *)
(* Between the two, players may build. Pieces matter by their place only.  *)
(***************************************************************************)
EXTENDS Geometry, FiniteSets, FiniteSetsExt

CONSTANTS
  Blueprints,  \* [pieces: set of Locations, size: Location]
  Options,
  Terrains,    \* [base: height, bumps: function from columns to heights]
  Structures,  \* what may stand or be built on the site
  NoReport

Option == [origin: Location, yaw: 0..3, sink: Int, snap_to_ground: BOOLEAN,
           ground_mode: {"average", "highest", "lowest"}]

\* core: kept in the STRUCTURES_CORE group of the octree (Capture.cpp:56-57).
Structure == [at: Location, core: BOOLEAN]

Column(v) == <<v.x, v.y>>

\* A capture's box encloses its pieces, with the corner at 0.
Enclosed(b) ==
  \A p \in b.pieces : /\ 0 <= p.x /\ p.x <= b.size.x
                      /\ 0 <= p.y /\ p.y <= b.size.y
                      /\ 0 <= p.z /\ p.z <= b.size.z

ASSUME SurveyAssumption ==
  /\ \A b \in Blueprints : /\ b.pieces \subseteq Location /\ b.pieces # {}
                            /\ b.size \in Location /\ Enclosed(b)
  /\ Options \subseteq Option
  /\ \A t \in Terrains : t.base \in Int /\ \A c \in DOMAIN t.bumps : t.bumps[c] \in Int
  /\ Structures \subseteq Structure

VARIABLES
  terrain,
  standing,   \* the structures on the site
  report,     \* the pending preview and what was said of it, or NoReport
  landed,     \* where the last confirmed paste put its pieces
  said        \* history: the report that paste was confirmed on

vars == <<terrain, standing, report, landed, said>>

----------------------------------------------------------------------------
(* The ground *)

GroundAt(c) == IF c \in DOMAIN terrain.bumps THEN terrain.bumps[c] ELSE terrain.base

\* GetGroundLocation traces from 3000 above to 20000 below.
Traced(z, c) == z - 20000 <= GroundAt(c) /\ GroundAt(c) <= z + 3000

\* An n by n grid over the footprint: its points, and their columns.
GridPoints(n) == (0..(n - 1)) \X (0..(n - 1))

Under(b, o, n, g) ==
  Column(Translate(RotateAroundZ([x |-> (b.size.x * g[1]) \div (n - 1),
                                  y |-> (b.size.y * g[2]) \div (n - 1), z |-> 0], o.yaw),
                   o.origin))

Grid(b, o, n) == {Under(b, o, n, g) : g \in GridPoints(n)}

\* The height found at each point whose trace hits the ground.
Samples(b, o, n) ==
  [g \in {g \in GridPoints(n) : Traced(o.origin.z, Under(b, o, n, g))} |->
     GroundAt(Under(b, o, n, g))]

Found(hits) == {hits[g] : g \in DOMAIN hits}

Heights(cs) == {GroundAt(c) : c \in cs}

\* Mistake: the selection's corner taken for the base of the build.
CornerHeight(b) == 0

LowestPiece(b) == Min({p.z : p \in b.pieces})

\* Every hit counts, where points of a narrow footprint share a column too.
Sum(hits) == FoldSet(LAMBDA g, total : hits[g] + total, 0, DOMAIN hits)

\* Mistake: the two extremes exchanged.
SwappedTarget(o, hits) ==
  CASE o.ground_mode = "highest" -> Min(Found(hits))
    [] o.ground_mode = "lowest"  -> Max(Found(hits))
    [] OTHER -> Sum(hits) \div Cardinality(DOMAIN hits)

\* The fraction of the average is dropped.
Target(o, hits) ==
  CASE o.ground_mode = "highest" -> Max(Found(hits))
    [] o.ground_mode = "lowest"  -> Min(Found(hits))
    [] OTHER -> Sum(hits) \div Cardinality(DOMAIN hits)

AdjustOriginToGround(b, o) ==
  LET hits == Samples(b, o, 7)
  IN  IF ~o.snap_to_ground \/ DOMAIN hits = {} THEN o
      ELSE [o EXCEPT !.origin.z = Target(o, hits) - LowestPiece(b)]

----------------------------------------------------------------------------
(* What a preview finds *)

Placed(p, o) == Translate(RotateAroundZ(p, o.yaw), o.origin)

\* Mistake: the footprint as captured, not as rotated.
UnrotatedCorners(b, o) ==
  {Translate(c, o.origin) : c \in [x: {0, b.size.x}, y: {0, b.size.y}, z: {0}]}

FootprintCorners(b, o) ==
  {Placed(c, o) : c \in [x: {0, b.size.x}, y: {0, b.size.y}, z: {0}]}

InVolume(v, b, o) ==
  LET xs == {c.x : c \in FootprintCorners(b, o)}
      ys == {c.y : c \in FootprintCorners(b, o)}
  IN  /\ Min(xs) <= v.x /\ v.x <= Max(xs)
      /\ Min(ys) <= v.y /\ v.y <= Max(ys)
      /\ o.origin.z <= v.z /\ v.z <= o.origin.z + b.size.z

\* One group of the octree is asked.
InTheWay(b, o) == {s \in standing : ~s.core /\ InVolume(s.at, b, o)}

\* A location below the ground that a trace from height z finds there.
BelowGround(v, z) == Traced(z, Column(v)) /\ GroundAt(Column(v)) > v.z

\* Mistake: the ground of the place the piece had before the turn.
UnrotatedBuried(b, o) ==
  {p \in b.pieces : BelowGround(Translate(p, o.origin), o.origin.z)}

\* The burial check places a piece without the sink.
Buried(b, o) == {p \in b.pieces : BelowGround(Placed(p, o), o.origin.z)}

\* known is history: what stood there when the preview was made.
Report(b, o) ==
  [bp |-> b, opts |-> o,
   structures_in_way |-> InTheWay(b, o),
   pieces_buried |-> Cardinality(Buried(b, o)),
   ground |-> Found(Samples(b, o, 5)),
   known |-> standing]

\* Where TickPaste puts a piece.
Landing(p, o) ==
  LET v == Placed(p, o) IN [v EXCEPT !.z = @ - o.sink]

----------------------------------------------------------------------------

Init ==
  /\ terrain \in Terrains
  /\ standing = {}
  /\ report = NoReport
  /\ landed = {}
  /\ said = NoReport

\* Structures the players build, not through a pasted piece.
Build(s) ==
  /\ s \notin standing
  /\ s.at \notin landed
  /\ standing' = standing \cup {s}
  /\ UNCHANGED <<terrain, report, landed, said>>

\* Bound: a site is pasted on once, then cleared before it is surveyed again.
HandlePreview(b, o) ==
  /\ said = NoReport
  /\ report' = Report(b, AdjustOriginToGround(b, o))
  /\ UNCHANGED <<terrain, standing, landed, said>>

\* The paste itself, from the confirm to the last piece.
HandleConfirm ==
  /\ report # NoReport
  /\ landed' = {Landing(p, report.opts) : p \in report.bp.pieces}
  /\ said' = report
  /\ report' = NoReport
  /\ UNCHANGED <<terrain, standing>>

HandleUndo ==
  /\ landed # {}
  /\ landed' = {}
  /\ said' = NoReport
  /\ UNCHANGED <<terrain, standing, report>>

Next ==
  \/ \E s \in Structures : Build(s)
  \/ \E b \in Blueprints, o \in Options : HandlePreview(b, o)
  \/ HandleConfirm
  \/ HandleUndo

Spec == Init /\ [][Next]_vars

----------------------------------------------------------------------------
(* Properties *)

\* "This says which pieces actually end up inside the landscape"
\* (Preview.h:28-29): as many pieces lie below the ground as the preview said.
BurialForetold ==
  said # NoReport =>
    said.pieces_buried = Cardinality({p \in said.bp.pieces :
                           BelowGround(Landing(p, said.opts), said.opts.origin.z)})

\* Confirming lands no piece on a structure the preview has not counted,
\* unless it was built since: the volume that is searched (Preview.cpp:155-194)
\* holds every piece, for every rotation, and "preview ... standing inside an
\* existing base ... must report a non-zero" count (TESTING.md:109-110).
ClearMeansClear ==
  [][HandleConfirm =>
       \A s \in standing :
         s.at \in landed' /\ report.structures_in_way = {} => s \notin report.known]_vars

\* AdjustOriginToGround "drops the build so its lowest piece rests on the
\* ground" (Paste.h:28-30): whatever the terrain, the turn and the corner the
\* build was captured from, its lowest piece lands between the lowest and the
\* highest ground under the footprint.
RestsOnTheGround ==
  said # NoReport /\ said.opts.snap_to_ground =>
    LET hs == Heights(Grid(said.bp, said.opts, 7))
        low == Min({v.z : v \in landed}) + said.opts.sink
    IN  Min(hs) <= low /\ low <= Max(hs)

\* "Sitting on the highest point avoids burying anything" (Paste.h:15-16), as
\* far as the ground was sampled.
HighestBuriesNothing ==
  said # NoReport /\ said.opts.snap_to_ground /\ said.opts.ground_mode = "highest"
                  /\ said.opts.sink = 0 =>
    \A v \in landed : Column(v) \in Grid(said.bp, said.opts, 7) =>
                        GroundAt(Column(v)) <= v.z
============================================================================
