---------------------------- MODULE PasteProofs ----------------------------
(***************************************************************************)
(* Theorems about the paste engine, for every blueprint, map, budget and   *)
(* order of events: the types of its state; counts, links and floors of    *)
(* the running job; what the record that a paste leaves finds, over        *)
(* reloads, saves and crashes; that it keeps what PastePromise promises,   *)
(* while undo.gz can be written and removed; and, of the previews that     *)
(* share the world with it, that what stands for a preview is known to it  *)
(* and clearing it takes away nothing else.                                *)
(***************************************************************************)
EXTENDS Plugin, PasteRefines, FiniteSetTheorems, WellFoundedInduction, TLAPS


----------------------------------------------------------------------------
(* Types *)

\* A piece of a blueprint, and the indices it is found at.
LEMMA BlueprintFacts ==
  ASSUME NEW b \in Blueprints
  PROVE  /\ b \in Seq(Piece)
         /\ Len(b) \in Nat
         /\ DOMAIN b = 1..Len(b)
         /\ \A i \in 1..Len(b) : b[i] \in Piece
<1>1. b \in Seq(Piece)
  BY PasteAssumption
<1> QED
  BY <1>1

\* What TypeOK says of the job while one runs.
LEMMA JobFacts ==
  ASSUME TypeOK, Running
  PROVE  /\ IsJob(g_job)
         /\ g_job \in JobOf(g_job.bp)
         /\ g_job.bp \in Blueprints
         /\ Size \in Nat
         /\ DOMAIN g_job.bp = 1..Size
         /\ \A i \in 1..Size : g_job.bp[i] \in Piece
         /\ g_job.opts \in Option
<1>1. IsJob(g_job)
  BY DEF TypeOK, Running
<1>2. PICK b \in Blueprints : g_job \in JobOf(b)
  BY <1>1 DEF IsJob
<1>3. g_job.bp = b /\ g_job.opts \in Options
  BY <1>2 DEF JobOf
<1> QED
  BY <1>1, <1>2, <1>3, BlueprintFacts, PasteAssumption DEF Size

\* A job stays a job when the fields that move stay in their ranges.
LEMMA JobType ==
  ASSUME NEW b \in Blueprints, NEW job \in JobOf(b)
  PROVE  IsJob(job)
  BY DEF IsJob

\* Turning and moving an offset gives a location.
LEMMA LocationType ==
  ASSUME NEW p \in Piece, NEW o \in Option
  PROVE  WorldLocation(p, o) \in Location /\ RecordedLocation(p, o) \in Location
<1>1. /\ p.at \in Location /\ o.origin \in Location
      /\ o.yaw \in 0..3 /\ o.sink \in Int
  BY DEF Piece, Option
<1>2. Cos(o.yaw) \in Int /\ Sin(o.yaw) \in Int
  BY <1>1 DEF Cos, Sin
<1>3. RotateAroundZ(p.at, o.yaw) \in Location
  BY <1>1, <1>2 DEF RotateAroundZ, Location
<1>4. RecordedLocation(p, o) \in Location
  BY <1>1, <1>3 DEF RecordedLocation, Translate, Location
<1>5. WorldLocation(p, o) = [RecordedLocation(p, o) EXCEPT !.z = @ - o.sink]
  BY DEF WorldLocation, RecordedLocation
<1> QED
  BY <1>1, <1>4, <1>5 DEF Location

\* What FinishJob records is a record.
LEMMA RecordType ==
  ASSUME TypeOK, Running
  PROVE  Record(g_job) \in UndoRecords
<1>1. pastes \in Nat
  BY DEF TypeOK
<1>2. \A i \in 1..Size :
        [piece |-> i, cls |-> g_job.bp[i].cls,
         at |-> RecordedLocation(g_job.bp[i], g_job.opts)] \in Item
  BY JobFacts, LocationType DEF Item, Piece
<1> QED
  BY <1>1, <1>2, JobFacts DEF Record, UndoRecords

\* Taking actors out leaves a world.
LEMMA WithoutType ==
  ASSUME NEW w \in World, NEW gone
  PROVE  Without(w, gone) \in World
  BY DEF Without, World

LEMMA InitialTypes == Init => TypeOK
<1>1. EmptyWorld \in World
  BY DEF EmptyWorld, World
<1>2. NoRecord \in UndoRecords
  BY DEF NoRecord, UndoRecords
<1> QED
  BY <1>1, <1>2 DEF Init, TypeOK, NoFile, Running, Idle

\* A fresh job is a job, at the start of its placing phase.
LEMMA NewJobType ==
  ASSUME NEW b \in Blueprints, NEW o \in Options, NEW order \in PlacementOrders(b)
  PROVE  NewJob(b, o, order) \in JobOf(b)
  BY BlueprintFacts DEF NewJob, JobOf, PlacementOrders

\* So it is when a job is started, whatever becomes of markers meanwhile.
LEMMA StartJobTypes ==
  ASSUME TypeOK, NEW b \in Blueprints, NEW o \in Options, StartJob(b, o),
         world' \in World, UNCHANGED <<saved, left, disk>>
  PROVE  TypeOK'
<1>1. PICK order \in PlacementOrders(b) : g_job' = NewJob(b, o, order)
  BY DEF StartJob
<1>2. g_job' \in JobOf(b) /\ IsJob(g_job')
  BY <1>1, NewJobType, JobType
<1>3. /\ g_job'.bp = b /\ g_job'.order = order /\ g_job'.phase = "Placing"
      /\ g_job'.cursor = 0 /\ g_job'.link_cursor = 0 /\ g_job'.link_sub = 0
  BY <1>1 DEF NewJob
<1>4. BottomUp(b, order)
  BY DEF PlacementOrders
<1>5. 1 \in 1..Len(b) => Len(b[1].links) \in Nat
  BY BlueprintFacts DEF Piece
<1>6. IndexesInRange'
  BY <1>3, <1>4, <1>5, BlueprintFacts DEF IndexesInRange, Size, Links, Linked
<1>7. Running'
  BY <1>2, PasteAssumption DEF Running
<1>8. g_last' \in UndoRecords
  BY DEF StartJob, NoRecord, UndoRecords
<1> QED
  BY <1>2, <1>6, <1>7, <1>8 DEF StartJob, TypeOK

LEMMA BeginPasteTypes ==
  ASSUME TypeOK, NEW b \in Blueprints, NEW o \in Options, BeginPaste(b, o)
  PROVE  TypeOK'
  BY StartJobTypes DEF BeginPaste, TypeOK

\* A turn of the placing loop only comes while pieces are left to place.
LEMMA PlacingFacts ==
  ASSUME TypeOK, PlacingTurn
  PROVE  /\ Running
         /\ g_job.cursor + 1 \in 1..Size
         /\ Current \in 1..Size
         /\ g_job.phase = "Placing"
<1>1. Running
  BY DEF PlacingTurn, TypeOK, Idle
<1>2. g_job.cursor \in 0..Size /\ g_job.order \in [1..Size -> 1..Size]
  BY <1>1, JobFacts DEF JobOf, Size
<1> QED
  BY <1>1, <1>2, JobFacts DEF PlacingTurn, Current

\* A turn of the link loop only comes while pieces are left to link.
LEMMA LinkingFacts ==
  ASSUME TypeOK, LinkingTurn
  PROVE  /\ Running
         /\ g_job.link_cursor \in Nat
         /\ Linked \in 1..Size
         /\ Links \in Seq(Int)
         /\ Len(Links) \in Nat
         /\ g_job.link_sub \in 0..Len(Links)
         /\ g_job.phase = "Linking" /\ g_job.cursor = Size
<1>1. Running
  BY DEF LinkingTurn, TypeOK, Idle
<1>2. g_job.link_cursor \in 0..Size /\ g_job.link_sub \in Nat
  BY <1>1, JobFacts DEF JobOf, Size
<1>3. Linked \in 1..Size
  BY <1>2, <1>1, JobFacts DEF LinkingTurn, Linked
<1>4. Links \in Seq(Int)
  BY <1>3, <1>1, JobFacts DEF Links, Piece
<1> QED
  BY <1>1, <1>2, <1>3, <1>4 DEF LinkingTurn, TypeOK, IndexesInRange

\* A step that leaves the vectors of the job alone keeps the types of the job.
LEMMA KeptJobTypes ==
  ASSUME TypeOK, Running, NEW job,
         job \in JobOf(g_job.bp), g_job' = job, job.order = g_job.order
  PROVE  /\ IsJob(g_job')
         /\ Running'
         /\ g_job'.bp = g_job.bp
         /\ BottomUp(g_job'.bp, g_job'.order)
         /\ Size' = Size
<1>1. IsJob(g_job')
  BY JobFacts, JobType
<1>2. Running'
  BY <1>1, PasteAssumption DEF Running
<1>3. g_job'.bp = g_job.bp
  BY DEF JobOf
<1> QED
  BY <1>1, <1>2, <1>3 DEF TypeOK, IndexesInRange, Size

LEMMA PlaceFailsTypes ==
  ASSUME TypeOK, PlaceFails
  PROVE  TypeOK' /\ Running'
<1>1. PlacingTurn /\ g_job' = FailedTurn(g_job) /\ left' = left - 1
  BY DEF PlaceFails
<1>2. FailedTurn(g_job) \in JobOf(g_job.bp)
  <2>1. g_job.cursor + 1 \in 0..Len(g_job.bp)
    BY <1>1, PlacingFacts, JobFacts DEF Size
  <2>2. g_job \in JobOf(g_job.bp)
    BY <1>1, PlacingFacts, JobFacts
  <2>3. g_job.failed + 1 \in Nat
    BY <2>2 DEF JobOf
  <2> QED
    BY <2>1, <2>2, <2>3 DEF FailedTurn, JobOf
<1>3. FailedTurn(g_job).order = g_job.order
  BY <1>1, PlacingFacts, JobFacts DEF FailedTurn, JobOf
<1>4. /\ IsJob(g_job') /\ Running' /\ g_job'.bp = g_job.bp /\ Size' = Size
      /\ BottomUp(g_job'.bp, g_job'.order)
  BY <1>1, <1>2, <1>3, KeptJobTypes, PlacingFacts
<1>5. /\ g_job'.phase = "Placing"
      /\ g_job'.link_cursor = g_job.link_cursor
      /\ g_job'.link_sub = g_job.link_sub
  BY <1>1, PlacingFacts, JobFacts DEF FailedTurn, JobOf
<1>6. IndexesInRange'
  BY <1>1, <1>4, <1>5, PlacingFacts DEF TypeOK, IndexesInRange, Links, Linked
<1>7. left' \in Nat
  BY <1>1 DEF TypeOK, PlacingTurn, Idle
<1> QED
  BY <1>4, <1>6, <1>7 DEF PlaceFails, TypeOK

LEMMA PlaceStructureTypes ==
  ASSUME TypeOK, NEW a \in Actors, PlaceStructure(a)
  PROVE  TypeOK' /\ Running'
<1> DEFINE i == Current
           landed == [g_job.spawned EXCEPT ![i] = a]
           floor == IF g_job.opts.invulnerable THEN NoActor ELSE FloorOf(i, landed)
           s(cls) == [cls |-> cls,
                      at |-> WorldLocation(g_job.bp[i], g_job.opts),
                      owned |-> ~g_job.opts.invulnerable,
                      paste |-> pastes, piece |-> i]
           mounts == IF floor \in Live \cup {a} THEN {<<a, floor>>} ELSE {}
           job == [g_job EXCEPT
                    !.cursor = @ + 1,
                    !.spawned = landed,
                    !.floors_restored = @ + (IF floor # NoActor THEN 1 ELSE 0)]
<1>1. /\ PlacingTurn /\ a \in Free /\ left' = left - 1
      /\ g_job' = job
      /\ UNCHANGED <<saved, g_last, disk, pastes>>
  BY DEF PlaceStructure
<1>12. PICK cls \in Resolved(g_job.bp[i]) :
         world' = [world EXCEPT !.actors[a] = s(cls), !.mounted = @ \cup mounts]
  BY DEF PlaceStructure
<1>2. Running /\ i \in 1..Size /\ g_job.cursor + 1 \in 1..Size
  BY <1>1, PlacingFacts
<1>3. landed \in [DOMAIN g_job.bp -> Actors \cup {NoActor}]
  BY <1>2, JobFacts DEF JobOf
<1>4. job \in JobOf(g_job.bp) /\ job.order = g_job.order
  <2>1. g_job.cursor + 1 \in 0..Len(g_job.bp)
    BY <1>2, JobFacts DEF Size
  <2>2. g_job.floors_restored + (IF floor # NoActor THEN 1 ELSE 0) \in Nat
    BY <1>2, JobFacts DEF JobOf
  <2> QED
    BY <2>1, <2>2, <1>2, <1>3, JobFacts DEF JobOf
<1>5. /\ IsJob(g_job') /\ Running' /\ g_job'.bp = g_job.bp /\ Size' = Size
      /\ BottomUp(g_job'.bp, g_job'.order)
  BY <1>1, <1>2, <1>4, KeptJobTypes
<1>6. /\ g_job'.phase = "Placing"
      /\ g_job'.link_cursor = g_job.link_cursor
      /\ g_job'.link_sub = g_job.link_sub
  BY <1>1, PlacingFacts, JobFacts DEF JobOf
<1>7. IndexesInRange'
  BY <1>1, <1>5, <1>6, PlacingFacts DEF TypeOK, IndexesInRange, Links, Linked
<1>8. s(cls) \in Structure
  <2>4. cls \in Classes
    BY PasteAssumption DEF Resolved
  <2>1. g_job.bp[i] \in Piece /\ g_job.opts \in Option
    BY <1>2, JobFacts
  <2>2. WorldLocation(g_job.bp[i], g_job.opts) \in Location
    BY <2>1, LocationType
  <2>3. pastes \in Nat /\ i \in Nat
    BY <1>2, JobFacts DEF TypeOK
  <2> QED
    BY <2>2, <2>3, <2>4, <1>2, JobFacts DEF Structure, Option
<1>9. mounts \subseteq Actors \X Actors
  BY DEF Live
<1>10. world' \in World
  BY <1>12, <1>8, <1>9 DEF TypeOK, World
<1>11. left' \in Nat
  BY <1>1 DEF TypeOK, PlacingTurn, Idle
<1> QED
  BY <1>1, <1>5, <1>7, <1>10, <1>11 DEF TypeOK

LEMMA StartLinkingTypes ==
  ASSUME TypeOK, StartLinking
  PROVE  TypeOK' /\ Running'
<1> DEFINE job == [g_job EXCEPT !.phase = "Linking"]
<1>1. Running /\ g_job' = job /\ g_job.phase = "Placing" /\ g_job.cursor >= Size
  BY DEF StartLinking, TypeOK
<1>2. g_job \in JobOf(g_job.bp)
  BY <1>1, JobFacts
<1>3. job \in JobOf(g_job.bp) /\ job.order = g_job.order
  BY <1>2 DEF JobOf
<1>4. /\ IsJob(g_job') /\ Running' /\ g_job'.bp = g_job.bp /\ Size' = Size
      /\ BottomUp(g_job'.bp, g_job'.order)
  BY <1>1, <1>3, KeptJobTypes
<1>5. /\ g_job'.phase = "Linking"
      /\ g_job'.cursor = g_job.cursor /\ g_job.cursor \in 0..Size
      /\ g_job'.link_cursor = g_job.link_cursor
      /\ g_job'.link_sub = g_job.link_sub
  BY <1>1, <1>2 DEF JobOf, Size
<1>6. IndexesInRange'
  BY <1>1, <1>4, <1>5, JobFacts DEF TypeOK, IndexesInRange, Links, Linked
<1> QED
  BY <1>4, <1>6 DEF StartLinking, TypeOK

LEMMA NextPieceTypes ==
  ASSUME TypeOK, NextPiece
  PROVE  TypeOK' /\ Running'
<1>1. LinkingTurn /\ g_job' = NextLinked(g_job) /\ left' = left - 1
  BY DEF NextPiece
<1>2. g_job \in JobOf(g_job.bp) /\ Running
  BY <1>1, LinkingFacts, JobFacts
<1>3. g_job.link_cursor + 1 \in 0..Len(g_job.bp)
  BY <1>1, LinkingFacts, JobFacts DEF Size, LinkingTurn
<1>4. /\ NextLinked(g_job) \in JobOf(g_job.bp)
      /\ NextLinked(g_job).order = g_job.order
  BY <1>2, <1>3 DEF NextLinked, JobOf
<1>5. /\ IsJob(g_job') /\ Running' /\ g_job'.bp = g_job.bp /\ Size' = Size
      /\ BottomUp(g_job'.bp, g_job'.order)
  BY <1>1, <1>2, <1>4, KeptJobTypes
<1>6. /\ g_job'.phase = "Linking" /\ g_job'.cursor = Size
      /\ g_job'.link_cursor = g_job.link_cursor + 1 /\ g_job'.link_sub = 0
  BY <1>1, <1>2, LinkingFacts DEF NextLinked, JobOf
<1>7. g_job'.link_cursor < Size => Len(Links') \in Nat
  <2>1. SUFFICES ASSUME g_job.link_cursor + 1 < Size
                 PROVE  Len(g_job.bp[g_job.link_cursor + 2].links) \in Nat
    BY <1>1, <1>5, <1>6, LinkingFacts DEF Links, Linked
  <2>2. g_job.link_cursor + 2 \in 1..Size
    BY <2>1, <1>1, LinkingFacts, JobFacts
  <2> QED
    BY <2>2, <1>2, JobFacts DEF Piece
<1>8. IndexesInRange'
  BY <1>5, <1>6, <1>7 DEF IndexesInRange
<1>9. left' \in Nat
  BY <1>1 DEF TypeOK, LinkingTurn, Idle
<1> QED
  BY <1>5, <1>8, <1>9 DEF NextPiece, TypeOK

\* SkipEdge and LinkEdge move on to the next edge of the piece.
LEMMA NextEdgeTypes ==
  ASSUME TypeOK, LinkingTurn, ~PieceDone,
         NEW n \in Nat,
         g_job' = [g_job EXCEPT !.link_sub = @ + 1, !.links_made = n]
  PROVE  IsJob(g_job') /\ Running' /\ IndexesInRange'
<1> DEFINE job == [g_job EXCEPT !.link_sub = @ + 1, !.links_made = n]
<1>1. g_job \in JobOf(g_job.bp) /\ Running
  BY LinkingFacts, JobFacts
<1>2. g_job.link_sub + 1 \in 0..Len(Links) /\ g_job.link_sub + 1 \in Nat
  BY LinkingFacts DEF PieceDone
<1>3. job \in JobOf(g_job.bp) /\ job.order = g_job.order
  BY <1>1, <1>2 DEF JobOf
<1>4. /\ IsJob(g_job') /\ Running' /\ g_job'.bp = g_job.bp /\ Size' = Size
      /\ BottomUp(g_job'.bp, g_job'.order)
  BY <1>1, <1>3, KeptJobTypes
<1>5. /\ g_job'.phase = "Linking" /\ g_job'.cursor = Size
      /\ g_job'.link_cursor = g_job.link_cursor
      /\ g_job'.link_sub = g_job.link_sub + 1
  BY <1>1, LinkingFacts DEF JobOf
<1>6. Links' = Links
  BY <1>4, <1>5 DEF Links, Linked
<1>7. IndexesInRange'
  BY <1>2, <1>4, <1>5, <1>6 DEF IndexesInRange, LinkingTurn
<1> QED
  BY <1>4, <1>7

LEMMA SkipEdgeTypes ==
  ASSUME TypeOK, SkipEdge
  PROVE  TypeOK' /\ Running'
<1>1. LinkingTurn /\ ~PieceDone
  BY DEF SkipEdge, PastEdge
<1>2. g_job \in JobOf(g_job.bp)
  BY <1>1, LinkingFacts, JobFacts
<1>3. /\ g_job.links_made \in Nat
      /\ g_job' = [g_job EXCEPT !.link_sub = @ + 1, !.links_made = g_job.links_made]
  BY <1>2 DEF SkipEdge, PastEdge, JobOf
<1>4. IsJob(g_job') /\ Running' /\ IndexesInRange'
  BY <1>1, <1>3, NextEdgeTypes
<1>5. left' \in Nat
  BY <1>1 DEF SkipEdge, PastEdge, TypeOK, LinkingTurn, Idle
<1> QED
  BY <1>4, <1>5 DEF SkipEdge, PastEdge, TypeOK

LEMMA LinkEdgeTypes ==
  ASSUME TypeOK, LinkEdge
  PROVE  TypeOK' /\ Running'
<1>1. LinkingTurn /\ ~PieceDone
  BY DEF LinkEdge
<1>2. g_job \in JobOf(g_job.bp)
  BY <1>1, LinkingFacts, JobFacts
<1>3. /\ g_job.links_made + 1 \in Nat
      /\ g_job' = [g_job EXCEPT !.link_sub = @ + 1, !.links_made = g_job.links_made + 1]
  BY <1>2 DEF LinkEdge, JobOf
<1>4. IsJob(g_job') /\ Running' /\ IndexesInRange'
  BY <1>1, <1>3, NextEdgeTypes
<1>5. Joined(g_job.spawned[Linked], g_job.spawned[EdgeTarget]) \subseteq Actors \X Actors
  BY DEF Joined, Live
<1>6. world' \in World
  BY <1>5 DEF LinkEdge, TypeOK, World
<1>7. left' \in Nat
  BY <1>1 DEF LinkEdge, TypeOK, LinkingTurn, Idle
<1> QED
  BY <1>4, <1>6, <1>7 DEF LinkEdge, TypeOK

LEMMA FinishJobTypes ==
  ASSUME TypeOK, FinishJob
  PROVE  TypeOK'
<1>1. Running
  BY DEF FinishJob, TypeOK
<1>2. Record(g_job) \in UndoRecords
  BY <1>1, RecordType
<1>3. NoRecord \in UndoRecords
  BY DEF NoRecord, UndoRecords
<1>4. disk' \in [kind: {"none", "torn", "ok"}, record: UndoRecords]
  BY <1>2, <1>3 DEF FinishJob, TypeOK, PersistUndo, File, TornFile
<1> QED
  BY <1>2, <1>4 DEF FinishJob, TypeOK, Running, Idle

\* The steps that drop the job, and those that do not touch it.
LEMMA OtherTypes ==
  ASSUME TypeOK,
         \/ CancelPaste \/ UndoLastPaste \/ UndoNothing \/ TickBegin \/ TickNoWorld
         \/ TickEnd \/ StaleCrash \/ SaveWorld \/ Reload \/ Crash \/ CrashWhileSaving
         \/ \E a \in Actors : Destroy(a)
         \/ \E a \in Actors, s \in Builds : BuildStructure(a, s)
  PROVE  TypeOK'
<1>1. NoRecord \in UndoRecords
  BY DEF NoRecord, UndoRecords
<1>2. NoFile \in [kind: {"none", "torn", "ok"}, record: UndoRecords]
  BY <1>1 DEF NoFile
<1>3. TornFile \in [kind: {"none", "torn", "ok"}, record: UndoRecords]
  BY <1>1 DEF TornFile
<1>4. ASSUME world' \in World, saved' \in World, g_job' = NoJob, left' = Idle,
             g_last' \in UndoRecords,
             disk' \in [kind: {"none", "torn", "ok"}, record: UndoRecords],
             pastes' = pastes
      PROVE  TypeOK'
  BY <1>4 DEF TypeOK, Running
<1>5. ASSUME world' \in World, saved' \in World, UNCHANGED <<g_job, g_last, disk, pastes>>,
             left' \in Nat \cup {Idle}, left' # Idle => Running
      PROVE  TypeOK'
  BY <1>5 DEF TypeOK, Running, IndexesInRange, Size, Links, Linked
<1>6. CASE CancelPaste
  BY <1>6, <1>4 DEF CancelPaste, TypeOK
<1>7. CASE UndoLastPaste
  BY <1>7, <1>4, <1>1, <1>2, WithoutType DEF UndoLastPaste, UndoAllowed, Running, TypeOK
<1>18. CASE UndoNothing
  BY <1>18, <1>4 DEF UndoNothing, UndoRecord, Running, TypeOK
<1>8. CASE TickBegin
  <2>1. Budget(g_job.opts) \in Nat
    BY <1>8, JobFacts DEF TickBegin, Budget, Option
  <2> QED
    BY <1>8, <1>5, <2>1 DEF TickBegin, TypeOK
<1>9. CASE TickNoWorld
  BY <1>9, <1>4 DEF TickNoWorld, TypeOK
<1>10. CASE TickEnd
  BY <1>10, <1>5 DEF TickEnd, TypeOK
<1>11. CASE StaleCrash
  BY <1>11, <1>4, <1>1 DEF StaleCrash, Restarted, TypeOK
<1>12. CASE SaveWorld
  BY <1>12, <1>5 DEF SaveWorld, TypeOK
<1>13. CASE Reload
  BY <1>13, <1>4, <1>1 DEF Reload, TypeOK
<1>14. CASE Crash
  BY <1>14, <1>4, <1>1 DEF Crash, Restarted, TypeOK
<1>15. CASE CrashWhileSaving
  BY <1>15, <1>4, <1>1, <1>3 DEF CrashWhileSaving, Restarted, TypeOK
<1>16. ASSUME NEW a \in Actors, Destroy(a) PROVE TypeOK'
  <2>1. world' \in World
    BY <1>16, WithoutType DEF Destroy, TypeOK
  <2> QED
    BY <1>16, <2>1, <1>5 DEF Destroy, TypeOK
<1>17. ASSUME NEW a \in Actors, NEW s \in Builds, BuildStructure(a, s) PROVE TypeOK'
  <2>1. [cls |-> s.cls, at |-> s.at, owned |-> TRUE, paste |-> 0, piece |-> 0] \in Structure
    BY PasteAssumption DEF Structure
  <2>2. world' \in World
    BY <1>17, <2>1 DEF BuildStructure, TypeOK, World
  <2> QED
    BY <1>17, <2>2, <1>5 DEF BuildStructure, TypeOK
<1> QED
  BY <1>6, <1>7, <1>8, <1>9, <1>10, <1>11, <1>12, <1>13, <1>14, <1>15, <1>16, <1>17, <1>18

\* Every step keeps the types.
LEMMA NextTypes == TypeOK /\ [Next]_vars => TypeOK'
<1> SUFFICES ASSUME TypeOK, [Next]_vars
             PROVE  TypeOK'
  OBVIOUS
<1>1. CASE Next
  BY <1>1, BeginPasteTypes, PlaceFailsTypes, PlaceStructureTypes, StartLinkingTypes,
     NextPieceTypes, SkipEdgeTypes, LinkEdgeTypes, FinishJobTypes, OtherTypes
  DEF Next, Tick, TickStep, ProcessEnds
<1>2. CASE UNCHANGED vars
  BY <1>2 DEF vars, TypeOK, Running, IndexesInRange, Size, Links, Linked
<1> QED
  BY <1>1, <1>2

\* Types hold in every behaviour, and the order, the cursor and the two link
\* cursors of the job stay in range of what TickPaste subscripts with them, for
\* any blueprint, also one whose class indexes are out of range, any budget and
\* any order of spawns that fail, crashes, reloads and structures coming and
\* going. Nothing is said of the class index, which nothing checks.
THEOREM TypeCorrect == Spec => []TypeOK
<1>1. Init => TypeOK
  BY InitialTypes
<1>2. TypeOK /\ [Next]_vars => TypeOK'
  BY NextTypes
<1> QED
  BY <1>1, <1>2, PTL DEF Spec

----------------------------------------------------------------------------
(* Counts, links and floors of the running job *)

\* The fields of the running job, and the piece each turn is about.
LEMMA JobFields ==
  ASSUME TypeOK, Running
  PROVE  /\ Size \in Nat
         /\ g_job.order \in [1..Size -> 1..Size]
         /\ g_job.spawned \in [1..Size -> Actors \cup {NoActor}]
         /\ g_job.cursor \in 0..Size
         /\ g_job.link_cursor \in 0..Size
         /\ g_job.link_sub \in Nat
         /\ g_job.failed \in Nat /\ g_job.links_made \in Nat /\ g_job.floors_restored \in Nat
         /\ g_job.phase \in {"Placing", "Linking"}
  BY JobFacts DEF JobOf, Size

\* The order is a permutation from the bottom up.
LEMMA OrderFacts ==
  ASSUME TypeOK, Running, NEW i \in 1..Size, NEW j \in 1..Size
  PROVE  /\ i # j => g_job.order[i] # g_job.order[j]
         /\ i < j => g_job.bp[g_job.order[i]].at.z <= g_job.bp[g_job.order[j]].at.z
<1>1. BottomUp(g_job.bp, g_job.order)
  BY DEF TypeOK, IndexesInRange
<1>2. DOMAIN g_job.bp = 1..Size
  BY JobFacts
<1> QED BY <1>1, <1>2 DEF BottomUp

----------------------------------------------------------------------------
(* What each step does to the job *)

\* The job of a step that changes some of its counters: the vectors stay.
SameJob == /\ g_job'.bp = g_job.bp
           /\ g_job'.opts = g_job.opts
           /\ g_job'.order = g_job.order

Linking == NextPiece \/ SkipEdge \/ LinkEdge

LEMMA FailedStep ==
  ASSUME TypeOK, PlaceFails
  PROVE  /\ Running /\ SameJob
         /\ g_job.phase = "Placing" /\ g_job'.phase = "Placing"
         /\ g_job.cursor < Size
         /\ g_job'.spawned = g_job.spawned
         /\ g_job'.cursor = g_job.cursor + 1
         /\ g_job'.failed = g_job.failed + 1
         /\ g_job'.link_cursor = 0 /\ g_job'.link_sub = 0
         /\ g_job'.floors_restored = g_job.floors_restored
         /\ g_job'.links_made = g_job.links_made
         /\ UNCHANGED <<world, saved, g_last, disk, pastes>>
<1>1. PlacingTurn /\ g_job' = FailedTurn(g_job)
  BY DEF PlaceFails
<1>2. Running /\ g_job \in JobOf(g_job.bp)
  BY <1>1, PlacingFacts, JobFacts
<1>3. g_job.link_cursor = 0 /\ g_job.link_sub = 0
  BY <1>1, <1>2 DEF PlacingTurn, TypeOK, IndexesInRange
<1> QED BY <1>1, <1>2, <1>3 DEF FailedTurn, JobOf, SameJob, PlacingTurn, PlaceFails

LEMMA PlacedStep ==
  ASSUME TypeOK, NEW a \in Actors, PlaceStructure(a)
  PROVE  /\ Running /\ SameJob
         /\ g_job.phase = "Placing" /\ g_job'.phase = "Placing"
         /\ g_job.cursor < Size
         /\ Current \in 1..Size
         /\ a \in Free
         /\ g_job'.spawned = [g_job.spawned EXCEPT ![Current] = a]
         /\ g_job'.cursor = g_job.cursor + 1
         /\ g_job'.failed = g_job.failed
         /\ g_job'.link_cursor = 0 /\ g_job'.link_sub = 0
         /\ g_job'.links_made = g_job.links_made
         /\ UNCHANGED <<saved, g_last, disk, pastes>>
<1>1. PlacingTurn /\ a \in Free
  BY DEF PlaceStructure
<1>2. Running /\ g_job \in JobOf(g_job.bp) /\ Current \in 1..Size
  BY <1>1, PlacingFacts, JobFacts
<1>3. g_job.link_cursor = 0 /\ g_job.link_sub = 0
  BY <1>1, <1>2 DEF PlacingTurn, TypeOK, IndexesInRange
<1> QED BY <1>1, <1>2, <1>3 DEF JobOf, SameJob, PlacingTurn, PlaceStructure

\* The actor that was placed, and the floor it was given.
LEMMA PlacedWorld ==
  ASSUME TypeOK, NEW a \in Actors, PlaceStructure(a)
  PROVE  /\ \E cls \in Resolved(g_job.bp[Current]) :
              world'.actors = [world.actors EXCEPT ![a] =
                [cls |-> cls,
                 at |-> WorldLocation(g_job.bp[Current], g_job.opts),
                 owned |-> ~g_job.opts.invulnerable, paste |-> pastes, piece |-> Current]]
         /\ world'.linked = world.linked
         /\ world.mounted \subseteq world'.mounted
         /\ LET f == FloorOf(Current, [g_job.spawned EXCEPT ![Current] = a])
            IN  ~g_job.opts.invulnerable /\ f \in Live => <<a, f>> \in world'.mounted
         /\ g_job'.floors_restored = g_job.floors_restored +
              (IF ~g_job.opts.invulnerable
                    /\ FloorOf(Current, [g_job.spawned EXCEPT ![Current] = a]) # NoActor
               THEN 1 ELSE 0)
<1>1. world \in World /\ Running /\ g_job \in JobOf(g_job.bp)
  BY PlacedStep, JobFacts DEF TypeOK
<1>2. g_job.floors_restored \in Nat
  BY <1>1 DEF JobOf
<1>3. PICK cls \in Resolved(g_job.bp[Current]) :
        LET landed == [g_job.spawned EXCEPT ![Current] = a]
            floor == IF g_job.opts.invulnerable THEN NoActor ELSE FloorOf(Current, landed)
        IN  world' = [world EXCEPT
              !.actors[a] = [cls |-> cls,
                             at |-> WorldLocation(g_job.bp[Current], g_job.opts),
                             owned |-> ~g_job.opts.invulnerable,
                             paste |-> pastes, piece |-> Current],
              !.mounted = @ \cup (IF floor \in Live \cup {a} THEN {<<a, floor>>} ELSE {})]
  BY DEF PlaceStructure
<1>4. g_job'.floors_restored = g_job.floors_restored +
        (IF ~g_job.opts.invulnerable
              /\ FloorOf(Current, [g_job.spawned EXCEPT ![Current] = a]) # NoActor
         THEN 1 ELSE 0)
  BY <1>1, <1>2 DEF PlaceStructure, JobOf
<1> QED BY <1>1, <1>3, <1>4 DEF World

LEMMA LinkingStep ==
  ASSUME TypeOK, Linking
  PROVE  /\ LinkingTurn /\ Running /\ SameJob
         /\ g_job'.phase = "Linking"
         /\ g_job'.spawned = g_job.spawned
         /\ g_job'.cursor = g_job.cursor
         /\ g_job'.failed = g_job.failed
         /\ g_job'.floors_restored = g_job.floors_restored
         /\ world'.actors = world.actors
         /\ world'.mounted = world.mounted
         /\ world.linked \subseteq world'.linked
         /\ UNCHANGED <<saved, g_last, disk, pastes>>
<1>1. LinkingTurn
  BY DEF Linking, NextPiece, SkipEdge, LinkEdge
<1>2. Running /\ g_job \in JobOf(g_job.bp) /\ g_job.phase = "Linking" /\ world \in World
  BY <1>1, LinkingFacts, JobFacts DEF TypeOK
<1>3. CASE NextPiece
  BY <1>1, <1>2, <1>3 DEF NextPiece, NextLinked, JobOf, SameJob
<1>4. CASE SkipEdge
  BY <1>1, <1>2, <1>4 DEF SkipEdge, PastEdge, JobOf, SameJob
<1>5. CASE LinkEdge
  BY <1>1, <1>2, <1>5 DEF LinkEdge, JobOf, SameJob, World
<1> QED BY <1>3, <1>4, <1>5 DEF Linking

LEMMA StartLinkingStep ==
  ASSUME TypeOK, StartLinking
  PROVE  /\ Running /\ SameJob
         /\ g_job.phase = "Placing" /\ g_job'.phase = "Linking"
         /\ g_job.cursor = Size
         /\ ~g_job.opts.invulnerable
         /\ g_job'.spawned = g_job.spawned
         /\ g_job'.cursor = g_job.cursor
         /\ g_job'.failed = g_job.failed
         /\ g_job'.link_cursor = 0 /\ g_job'.link_sub = 0
         /\ g_job'.floors_restored = g_job.floors_restored
         /\ g_job'.links_made = g_job.links_made
         /\ UNCHANGED <<world, saved, g_last, disk, pastes>>
<1>1. Running /\ g_job \in JobOf(g_job.bp)
  BY JobFacts DEF StartLinking, TypeOK
<1>2. g_job.cursor = Size
  BY <1>1, JobFields DEF StartLinking
<1>3. g_job.link_cursor = 0 /\ g_job.link_sub = 0
  BY <1>1 DEF StartLinking, TypeOK, IndexesInRange
<1> QED BY <1>1, <1>2, <1>3 DEF StartLinking, JobOf, SameJob

\* A job that is started is fresh.
LEMMA StartStep ==
  ASSUME NEW b \in Blueprints, NEW o \in Options, StartJob(b, o)
  PROVE  /\ Running'
         /\ g_job'.bp = b /\ g_job'.opts = o
         /\ g_job'.spawned = [i \in DOMAIN b |-> NoActor]
         /\ g_job'.phase = "Placing"
         /\ g_job'.cursor = 0 /\ g_job'.link_cursor = 0 /\ g_job'.link_sub = 0
         /\ g_job'.failed = 0 /\ g_job'.links_made = 0 /\ g_job'.floors_restored = 0
         /\ g_last' = NoRecord
         /\ pastes' = pastes + 1
<1>1. PICK order \in PlacementOrders(b) : g_job' = NewJob(b, o, order)
  BY DEF StartJob
<1>2. IsJob(g_job')
  BY <1>1, NewJobType, JobType
<1>3. Running'
  BY <1>2, PasteAssumption DEF Running
<1> QED BY <1>1, <1>3 DEF StartJob, NewJob

LEMMA BeginStep ==
  ASSUME TypeOK, NEW b \in Blueprints, NEW o \in Options, BeginPaste(b, o)
  PROVE  /\ ~Running /\ StartJob(b, o)
         /\ UNCHANGED <<world, saved, disk>>
  BY DEF BeginPaste

\* The steps that leave the job alone, and those after which none runs.
Quiet == \/ TickBegin \/ TickEnd \/ SaveWorld \/ UNCHANGED vars
         \/ \E a \in Actors : Destroy(a)
         \/ \E a \in Actors, s \in Builds : BuildStructure(a, s)

Dropping == \/ CancelPaste \/ TickNoWorld \/ Reload \/ ProcessEnds \/ FinishJob
            \/ UndoLastPaste \/ UndoNothing

LEMMA QuietStep ==
  ASSUME TypeOK, Quiet
  PROVE  UNCHANGED <<g_job, g_last, disk, pastes>>
  BY DEF Quiet, TickBegin, TickEnd, SaveWorld, vars, Destroy, BuildStructure

LEMMA DroppingStep ==
  ASSUME TypeOK, Dropping
  PROVE  ~Running' /\ pastes' = pastes
  BY DEF Dropping, CancelPaste, TickNoWorld, Reload, ProcessEnds, Crash, CrashWhileSaving,
     StaleCrash, Restarted, FinishJob, UndoLastPaste, UndoNothing, UndoAllowed, Running

LEMMA Steps ==
  ASSUME [Next]_vars
  PROVE  \/ \E b \in Blueprints, o \in Options : BeginPaste(b, o)
         \/ PlaceFails
         \/ \E a \in Actors : PlaceStructure(a)
         \/ StartLinking
         \/ Linking
         \/ Quiet
         \/ Dropping
  BY DEF Next, Tick, TickStep, Linking, Quiet, Dropping

----------------------------------------------------------------------------
(* Counts *)

LEMMA PlacedFacts ==
  ASSUME TypeOK, Running
  PROVE  Placed \subseteq 1..Size /\ IsFiniteSet(Placed) /\ Cardinality(Placed) \in Nat
<1>1. Placed \subseteq 1..Size /\ IsFiniteSet(1..Size)
  <2>1. 1 \in Int /\ Size \in Int
    BY JobFields
  <2>2. IsFiniteSet(1..Size)
    BY <2>1, FS_Interval
  <2> QED BY <2>2 DEF Placed
<1> QED BY <1>1, FS_Subset, FS_CardinalityType

\* A piece that is placed was not placed before.
LEMMA PlacedGrows ==
  ASSUME TypeOK, Accounted, NEW a \in Actors, PlaceStructure(a)
  PROVE  /\ Placed' = Placed \cup {Current}
         /\ Current \notin Placed
         /\ Size' = Size
<1>1. /\ g_job'.spawned = [g_job.spawned EXCEPT ![Current] = a] /\ g_job'.bp = g_job.bp
      /\ Running /\ Current \in 1..Size /\ g_job.cursor < Size
  BY PlacedStep DEF SameJob
<1>2. Size' = Size
  BY <1>1 DEF Size
<1>3. a # NoActor
  BY PasteAssumption
<1>4. Placed' = Placed \cup {Current}
  BY <1>1, <1>2, <1>3, JobFields DEF Placed
<1>5. Placed \subseteq {g_job.order[k] : k \in 1..g_job.cursor}
  BY <1>1 DEF Accounted
<1>6. \A k \in 1..g_job.cursor : g_job.order[k] # Current
  <2> TAKE k \in 1..g_job.cursor
  <2>1. k \in 1..Size /\ g_job.cursor + 1 \in 1..Size /\ k # g_job.cursor + 1
    BY <1>1, JobFields
  <2> QED BY <2>1, <1>1, OrderFacts DEF Current
<1> QED BY <1>2, <1>4, <1>5, <1>6

\* Nothing of a fresh job has been tried.
LEMMA FreshCounts ==
  ASSUME NEW b \in Blueprints, NEW o \in Options, StartJob(b, o)
  PROVE  Accounted' /\ Placed' = {}
<1>1. Size' = Len(b) /\ g_job'.spawned = [i \in 1..Len(b) |-> NoActor]
  BY StartStep, BlueprintFacts DEF Size
<1>2. Placed' = {}
  BY <1>1 DEF Placed
<1>3. Cardinality(Placed') = 0
  BY <1>2, FS_EmptySet
<1>4. g_job'.cursor = 0 /\ g_job'.failed = 0
  BY StartStep
<1> QED BY <1>2, <1>3, <1>4 DEF Accounted

LEMMA AccountedStep == TypeOK /\ Accounted /\ [Next]_vars => Accounted'
<1> SUFFICES ASSUME TypeOK, Accounted, [Next]_vars PROVE Accounted'
  OBVIOUS
<1>1. ASSUME NEW b \in Blueprints, NEW o \in Options, BeginPaste(b, o) PROVE Accounted'
  BY <1>1, BeginStep, FreshCounts
<1>2. CASE PlaceFails
  <2>1. Placed' = Placed /\ Size' = Size
    BY <1>2, FailedStep DEF Placed, Size, SameJob
  <2>2. Running /\ g_job.cursor \in Nat /\ g_job.failed \in Nat /\ Cardinality(Placed) \in Nat
    BY <1>2, FailedStep, JobFields, PlacedFacts
  <2>3. {g_job.order[k] : k \in 1..g_job.cursor} \subseteq
          {g_job'.order[k] : k \in 1..g_job'.cursor}
    BY <1>2, <2>2, FailedStep DEF SameJob
  <2> QED BY <1>2, <2>1, <2>2, <2>3, FailedStep DEF Accounted
<1>3. ASSUME NEW a \in Actors, PlaceStructure(a) PROVE Accounted'
  <2>1. Placed' = Placed \cup {Current} /\ Current \notin Placed
    BY <1>3, PlacedGrows
  <2>2. Running /\ g_job.cursor \in Nat /\ g_job.failed \in Nat /\ Cardinality(Placed) \in Nat
        /\ IsFiniteSet(Placed)
    <3>1. Running
      BY <1>3, PlacedStep
    <3> QED BY <3>1, JobFields, PlacedFacts
  <2>3. Cardinality(Placed \cup {Current}) = Cardinality(Placed) + 1
    BY <2>1, <2>2, FS_AddElement
  <2>4. /\ g_job'.cursor = g_job.cursor + 1 /\ g_job'.order = g_job.order
        /\ g_job'.failed = g_job.failed
    BY <1>3, PlacedStep DEF SameJob
  <2>5. Current \in {g_job'.order[k] : k \in 1..g_job'.cursor}
    BY <2>2, <2>4 DEF Current
  <2>6. {g_job.order[k] : k \in 1..g_job.cursor} \subseteq
          {g_job'.order[k] : k \in 1..g_job'.cursor}
    BY <2>2, <2>4
  <2>7. /\ Placed \subseteq {g_job.order[k] : k \in 1..g_job.cursor}
        /\ Cardinality(Placed) + g_job.failed = g_job.cursor
    BY <2>2 DEF Accounted
  <2>8. Cardinality(Placed') + g_job'.failed = g_job'.cursor
    BY <2>1, <2>2, <2>3, <2>4, <2>7
  <2> QED BY <2>1, <2>5, <2>6, <2>7, <2>8 DEF Accounted
<1>4. CASE StartLinking
  <2>1. Placed' = Placed
    BY <1>4, StartLinkingStep DEF Placed, Size, SameJob
  <2> QED BY <1>4, <2>1, StartLinkingStep DEF Accounted, SameJob
<1>5. CASE Linking
  <2>1. Placed' = Placed
    BY <1>5, LinkingStep DEF Placed, Size, SameJob
  <2> QED BY <1>5, <2>1, LinkingStep DEF Accounted, SameJob
<1>6. CASE Quiet
  BY <1>6, QuietStep DEF Accounted, Running, Placed, Size
<1>7. CASE Dropping
  BY <1>7, DroppingStep DEF Accounted
<1> QED BY <1>1, <1>2, <1>3, <1>4, <1>5, <1>6, <1>7, Steps

\* Placed and failed pieces make up the turns taken, in every paste: none is
\* counted twice, none forgotten (Paste.cpp:298, 315, 405).
THEOREM EveryPieceAccounted == Spec => []Accounted
<1>1. Init => Accounted
  BY DEF Init, Accounted, Running
<1> QED BY <1>1, AccountedStep, TypeCorrect, PTL DEF Spec

----------------------------------------------------------------------------
(* Links and floors *)

\* Pastes are numbered from 1, so no structure a player built is of one.
Counted == Running => pastes > 0

LEMMA CountedStep == TypeOK /\ Counted /\ [Next]_vars => Counted'
<1> SUFFICES ASSUME TypeOK, Counted, [Next]_vars PROVE Counted'
  OBVIOUS
<1>0. pastes \in Nat
  BY DEF TypeOK
<1>1. ASSUME NEW b \in Blueprints, NEW o \in Options, BeginPaste(b, o) PROVE Counted'
  <2>1. pastes' = pastes + 1
    BY <1>1, BeginStep, StartStep
  <2> QED BY <1>0, <2>1 DEF Counted
<1>2. CASE PlaceFails
  BY <1>2, FailedStep DEF Counted
<1>3. ASSUME NEW a \in Actors, PlaceStructure(a) PROVE Counted'
  BY <1>3, PlacedStep DEF Counted
<1>4. CASE StartLinking
  BY <1>4, StartLinkingStep DEF Counted
<1>5. CASE Linking
  BY <1>5, LinkingStep DEF Counted
<1>6. CASE Quiet
  BY <1>6, QuietStep DEF Counted, Running
<1>7. CASE Dropping
  BY <1>7, DroppingStep DEF Counted
<1> QED BY <1>1, <1>2, <1>3, <1>4, <1>5, <1>6, <1>7, Steps

\* What a quiet step makes of the world: structures go, with what they are
\* joined to, or one is built at a free address.
LEMMA QuietWorld ==
  ASSUME TypeOK, Quiet
  PROVE  \/ world' = world
         \/ \E a \in Actors : world' = Without(world, {a})
         \/ \E a \in Free, s \in Builds :
              world' = [world EXCEPT !.actors[a] =
                [cls |-> s.cls, at |-> s.at, owned |-> TRUE, paste |-> 0, piece |-> 0]]
  BY DEF Quiet, TickBegin, TickEnd, SaveWorld, vars, Destroy, BuildStructure

\* A piece that stands after a quiet step stood before, and what two such
\* pieces were joined by still joins them.
LEMMA QuietStanding ==
  ASSUME TypeOK, Counted, Running, Quiet,
         NEW i \in 1..Size, NEW j \in 1..Size, Standing(i)', Standing(j)'
  PROVE  /\ Standing(i) /\ Standing(j)
         /\ <<g_job.spawned[i], g_job.spawned[j]>> \in world.linked =>
              <<g_job.spawned[i], g_job.spawned[j]>> \in world'.linked
         /\ <<g_job.spawned[i], g_job.spawned[j]>> \in world.mounted =>
              <<g_job.spawned[i], g_job.spawned[j]>> \in world'.mounted
<1>1. /\ g_job' = g_job /\ pastes' = pastes /\ pastes \in Nat /\ pastes > 0
      /\ world \in World /\ world.actors \in [Actors -> Structure \cup {NoStructure}]
  BY QuietStep DEF TypeOK, Counted, World
<1> DEFINE x == g_job.spawned[i]
           y == g_job.spawned[j]
<1>2. /\ x \in Actors /\ world'.actors[x] # NoStructure
      /\ world'.actors[x].paste = pastes /\ world'.actors[x].piece = i
      /\ y \in Actors /\ world'.actors[y] # NoStructure
      /\ world'.actors[y].paste = pastes /\ world'.actors[y].piece = j
  BY <1>1 DEF Standing, Live
<1>3. SUFFICES /\ world'.actors[x] = world.actors[x] /\ world'.actors[y] = world.actors[y]
               /\ <<x, y>> \in world.linked => <<x, y>> \in world'.linked
               /\ <<x, y>> \in world.mounted => <<x, y>> \in world'.mounted
  BY <1>1, <1>2 DEF Standing, Live
<1>4. CASE world' = world
  BY <1>4
<1>5. ASSUME NEW a \in Actors, world' = Without(world, {a})
      PROVE  /\ world'.actors[x] = world.actors[x] /\ world'.actors[y] = world.actors[y]
             /\ <<x, y>> \in world.linked => <<x, y>> \in world'.linked
             /\ <<x, y>> \in world.mounted => <<x, y>> \in world'.mounted
  <2>1. \A z \in Actors : world'.actors[z] = IF z = a THEN NoStructure ELSE world.actors[z]
    BY <1>5 DEF Without
  <2>2. x # a /\ y # a
    BY <1>2, <2>1
  <2>3. /\ world'.linked = {e \in world.linked : e[1] # a /\ e[2] # a}
        /\ world'.mounted = {e \in world.mounted : e[1] # a /\ e[2] # a}
    BY <1>5 DEF Without
  <2>4. <<x, y>>[1] # a /\ <<x, y>>[2] # a
    BY <2>2
  <2> QED BY <1>2, <2>1, <2>2, <2>3, <2>4
<1>6. ASSUME NEW a \in Free, NEW s \in Builds,
             world' = [world EXCEPT !.actors[a] =
               [cls |-> s.cls, at |-> s.at, owned |-> TRUE, paste |-> 0, piece |-> 0]]
      PROVE  /\ world'.actors[x] = world.actors[x] /\ world'.actors[y] = world.actors[y]
             /\ <<x, y>> \in world.linked => <<x, y>> \in world'.linked
             /\ <<x, y>> \in world.mounted => <<x, y>> \in world'.mounted
  <2>1. a \in Actors
    BY DEF Free
  <2>2. /\ world'.actors = [world.actors EXCEPT ![a] =
             [cls |-> s.cls, at |-> s.at, owned |-> TRUE, paste |-> 0, piece |-> 0]]
        /\ world'.linked = world.linked /\ world'.mounted = world.mounted
    BY <1>1, <1>6 DEF World
  <2>3. world'.actors[a].paste = 0
    BY <2>1, <2>2, <1>1
  <2>4. x # a /\ y # a
    BY <1>1, <1>2, <2>3
  <2> QED BY <1>1, <1>2, <2>1, <2>2, <2>4
<1> QED BY <1>4, <1>5, <1>6, QuietWorld

\* An edge is a piece and the place of one of its links.
LEMMA EdgeFacts ==
  ASSUME NEW b \in Blueprints, NEW e \in Edges(b)
  PROVE  /\ e = <<e[1], e[2]>>
         /\ e[1] \in 1..Len(b)
         /\ e[2] \in 1..Len(b[e[1]].links)
         /\ b[e[1]].links[e[2]] \in Int
<1>1. PICK i \in DOMAIN b : e \in {<<i, k>> : k \in DOMAIN b[i].links}
  BY DEF Edges
<1>2. i \in 1..Len(b) /\ b[i].links \in Seq(Int)
  BY <1>1, BlueprintFacts DEF Piece
<1> QED BY <1>1, <1>2

\* At the start of the link loop no edge has been taken.
LEMMA NoneTaken ==
  ASSUME g_job'.bp \in Blueprints, g_job'.link_cursor = 0, g_job'.link_sub = 0
  PROVE  Taken' = {} /\ LinkedSoFar'
<1>1. ASSUME NEW e \in Edges(g_job'.bp) PROVE ~(e[1] <= 0) /\ ~(e[2] <= 0)
  <2>1. e[1] \in 1..Len(g_job'.bp) /\ e[2] \in 1..Len(g_job'.bp[e[1]].links)
    BY <1>1, EdgeFacts
  <2> QED BY <2>1
<1>2. Taken' = {}
  BY <1>1 DEF Taken
<1> QED BY <1>2 DEF LinkedSoFar

LEMMA FreshLinks ==
  ASSUME NEW b \in Blueprints, NEW o \in Options, StartJob(b, o)
  PROVE  Taken' = {} /\ LinkedSoFar'
  BY StartStep, NoneTaken

\* The edges taken after one turn of the link loop: those before it, the last
\* one if it was a turn for an edge, or none more.
LEMMA LinkingTakes ==
  ASSUME TypeOK, Linking, NEW e \in Taken'
  PROVE  /\ e \in Edges(g_job.bp)
         /\ \/ e \in Taken
            \/ NextPiece /\ e[1] = Linked /\ g_job.spawned[Linked] = NoActor
            \/ (SkipEdge \/ LinkEdge) /\ e[1] = Linked /\ e[2] = g_job.link_sub + 1
<1>1. /\ Running /\ LinkingTurn /\ g_job'.bp = g_job.bp /\ g_job \in JobOf(g_job.bp)
      /\ g_job.bp \in Blueprints
  BY LinkingStep, JobFacts DEF SameJob
<1>2. e \in Edges(g_job.bp)
  BY <1>1 DEF Taken
<1>3. /\ e[1] \in Int /\ e[2] \in Int /\ e[2] <= Len(g_job.bp[e[1]].links)
      /\ Len(g_job.bp[e[1]].links) \in Nat
  <2>1. /\ e[1] \in 1..Len(g_job.bp) /\ e[2] \in 1..Len(g_job.bp[e[1]].links)
        /\ g_job.bp[e[1]] \in Piece
    BY <1>1, <1>2, EdgeFacts, BlueprintFacts
  <2>2. g_job.bp[e[1]].links \in Seq(Int)
    BY <2>1 DEF Piece
  <2>3. Len(g_job.bp[e[1]].links) \in Nat /\ Len(g_job.bp) \in Nat
    BY <1>1, <2>2, BlueprintFacts
  <2> QED BY <2>1, <2>3
<1>4. g_job.link_cursor \in Nat /\ g_job.link_sub \in Nat
  BY <1>1, JobFields
<1>5. \/ e[1] <= g_job'.link_cursor
      \/ e[1] = g_job'.link_cursor + 1 /\ e[2] <= g_job'.link_sub
  BY DEF Taken, Linked
<1>6. CASE NextPiece
  <2>1. g_job'.link_cursor = g_job.link_cursor + 1 /\ g_job'.link_sub = 0
    BY <1>1, <1>6 DEF NextPiece, NextLinked, JobOf
  <2>2. e[2] >= 1
    BY <1>1, <1>2, EdgeFacts
  <2>3. e[1] <= g_job.link_cursor + 1
    BY <1>3, <1>4, <1>5, <2>1, <2>2
  <2>4. CASE e[1] <= g_job.link_cursor
    BY <1>2, <2>4 DEF Taken
  <2>5. CASE e[1] = Linked
    <3>1. g_job.spawned[Linked] = NoActor \/ g_job.link_sub >= Len(Links)
      BY <1>6 DEF NextPiece, PieceDone
    <3>2. ASSUME g_job.link_sub >= Len(Links) PROVE e \in Taken
      BY <1>2, <1>3, <1>4, <2>5, <3>2 DEF Taken, Links
    <3> QED BY <1>2, <1>6, <2>5, <3>1, <3>2
  <2> QED BY <1>3, <1>4, <2>3, <2>4, <2>5 DEF Linked
<1>7. CASE SkipEdge \/ LinkEdge
  <2>1. g_job'.link_cursor = g_job.link_cursor /\ g_job'.link_sub = g_job.link_sub + 1
    BY <1>1, <1>7 DEF SkipEdge, PastEdge, LinkEdge, JobOf
  <2> QED BY <1>2, <1>3, <1>4, <1>5, <1>7, <2>1 DEF Taken, Linked
<1> QED BY <1>2, <1>6, <1>7 DEF Linking

\* Nothing stands where a spawn failed.
LEMMA StandingFacts ==
  ASSUME TypeOK, Running, NEW i \in 1..Size, Standing(i)
  PROVE  i \in Placed /\ g_job.spawned[i] \in Live /\ g_job.spawned[i] # NoActor
  BY PasteAssumption DEF Standing, Placed, Live

LEMMA LinkedStep == TypeOK /\ Counted /\ LinkedSoFar /\ [Next]_vars => LinkedSoFar'
<1> SUFFICES ASSUME TypeOK, Counted, LinkedSoFar, [Next]_vars PROVE LinkedSoFar'
  OBVIOUS
<1>1. ASSUME NEW b \in Blueprints, NEW o \in Options, BeginPaste(b, o) PROVE LinkedSoFar'
  BY <1>1, BeginStep, FreshLinks
<1>2. CASE PlaceFails
  BY <1>2, FailedStep, JobFacts, NoneTaken DEF SameJob
<1>3. ASSUME NEW a \in Actors, PlaceStructure(a) PROVE LinkedSoFar'
  BY <1>3, PlacedStep, JobFacts, NoneTaken DEF SameJob
<1>4. CASE StartLinking
  BY <1>4, StartLinkingStep, JobFacts, NoneTaken DEF SameJob
<1>5. CASE Linking
  <2>1. /\ Running /\ LinkingTurn /\ g_job'.bp = g_job.bp /\ g_job'.spawned = g_job.spawned
        /\ world'.actors = world.actors /\ pastes' = pastes
        /\ world.linked \subseteq world'.linked
        /\ Size' = Size
    BY <1>5, LinkingStep DEF SameJob, Size
  <2>2. \A i : Standing(i)' <=> Standing(i)
    BY <2>1 DEF Standing, Live
  <2>3. SUFFICES ASSUME NEW e \in Taken', NEW t \in 1..Size, t = g_job.bp[e[1]].links[e[2]],
                        Standing(e[1]), Standing(t)
                 PROVE  <<g_job.spawned[e[1]], g_job.spawned[t]>> \in world'.linked
    BY <2>1, <2>2 DEF LinkedSoFar
  <2>4. CASE e \in Taken
    BY <2>1, <2>3, <2>4 DEF LinkedSoFar
  <2>5. CASE NextPiece /\ e[1] = Linked /\ g_job.spawned[Linked] = NoActor
    BY <2>3, <2>5, PasteAssumption DEF Standing, Live
  <2>6. CASE (SkipEdge \/ LinkEdge) /\ e[1] = Linked /\ e[2] = g_job.link_sub + 1
    <3>1. t = EdgeTarget /\ Joinable(t)
      BY <2>1, <2>3, <2>6, StandingFacts DEF EdgeTarget, Links, Joinable
    <3>2. LinkEdge
      BY <2>6, <3>1 DEF SkipEdge, PastEdge
    <3>3. <<g_job.spawned[Linked], g_job.spawned[t]>> \in
            Joined(g_job.spawned[Linked], g_job.spawned[EdgeTarget])
      BY <2>3, <2>6, <3>1 DEF Joined, Standing
    <3>4. world'.linked =
            world.linked \cup Joined(g_job.spawned[Linked], g_job.spawned[EdgeTarget])
      BY <3>2 DEF LinkEdge, TypeOK, World
    <3> QED BY <2>6, <3>3, <3>4
  <2> QED BY <1>5, <2>3, <2>4, <2>5, <2>6, LinkingTakes
<1>6. CASE Quiet
  <2>1. UNCHANGED <<g_job, pastes>>
    BY <1>6, QuietStep
  <2>2. Taken' = Taken /\ Size' = Size /\ (Running' <=> Running)
    BY <2>1 DEF Taken, Size, Running, Linked
  <2>3. SUFFICES ASSUME Running, NEW e \in Taken, NEW t \in 1..Size,
                        t = g_job.bp[e[1]].links[e[2]], Standing(e[1])', Standing(t)'
                 PROVE  <<g_job.spawned[e[1]], g_job.spawned[t]>> \in world'.linked
    BY <2>1, <2>2 DEF LinkedSoFar
  <2>4. e[1] \in 1..Size
    BY <2>3, JobFacts, EdgeFacts DEF Taken, Size
  <2>5. /\ Standing(e[1]) /\ Standing(t)
        /\ <<g_job.spawned[e[1]], g_job.spawned[t]>> \in world.linked =>
             <<g_job.spawned[e[1]], g_job.spawned[t]>> \in world'.linked
    BY <1>6, <2>3, <2>4, QuietStanding
  <2> QED BY <2>3, <2>5 DEF LinkedSoFar
<1>7. CASE Dropping
  BY <1>7, DroppingStep DEF LinkedSoFar
<1> QED BY <1>1, <1>2, <1>3, <1>4, <1>5, <1>6, <1>7, Steps

\* Whatever players, decay and reused addresses do while a paste links its
\* pieces, two neighbours the link loop has been past are linked as long as both
\* stand (Paste.cpp:414-435).
THEOREM LinksStand == Spec => []LinkedSoFar
<1>1. Init => Counted /\ LinkedSoFar
  BY DEF Init, Counted, LinkedSoFar, Running
<1> QED BY <1>1, CountedStep, LinkedStep, TypeCorrect, PTL DEF Spec

\* Floors lie below what is mounted on them, in every blueprint.
AllFloorsBelow == \A b \in Blueprints : FloorsBelow(b)

\* The floor of the piece that is placed is another, and no piece that has been
\* placed is mounted on the one that comes now.
LEMMA FloorComesFirst ==
  ASSUME FloorsBelow(g_job.bp), TypeOK, Accounted, NEW a \in Actors, PlaceStructure(a),
         NEW i \in MountedPieces'
  PROVE  /\ g_job.bp[i].floor \in Placed
         /\ g_job.bp[i].floor # Current
         /\ i = Current \/ i \in MountedPieces
<1>1. /\ Running /\ g_job'.bp = g_job.bp /\ g_job.bp \in Blueprints
      /\ DOMAIN g_job.bp = 1..Size /\ Current \in 1..Size /\ g_job.cursor < Size
  BY PlacedStep, JobFacts DEF SameJob
<1>2. Placed' = Placed \cup {Current} /\ Placed \subseteq 1..Size
  BY <1>1, PlacedGrows, PlacedFacts
<1> DEFINE f == g_job.bp[i].floor
<1>3. i \in Placed \cup {Current} /\ f \in Placed \cup {Current}
  BY <1>1, <1>2 DEF MountedPieces
<1>4. g_job.bp[f].at.z < g_job.bp[i].at.z
  BY <1>1, <1>2, <1>3 DEF FloorsBelow
<1>5. g_job.bp[f].at.z \in Int /\ g_job.bp[i].at.z \in Int
  BY <1>1, <1>2, <1>3, JobFacts DEF Piece, Location
<1>6. f # i
  BY <1>4, <1>5
<1>7. ASSUME i \in Placed PROVE f # Current
  <2>1. PICK k \in 1..g_job.cursor : i = g_job.order[k]
    BY <1>1, <1>7 DEF Accounted
  <2>2. k \in 1..Size /\ g_job.cursor + 1 \in 1..Size /\ k < g_job.cursor + 1
    BY <1>1, JobFields
  <2>3. g_job.bp[i].at.z <= g_job.bp[Current].at.z
    BY <1>1, <2>1, <2>2, OrderFacts DEF Current
  <2> QED BY <1>4, <1>5, <2>3
<1> QED BY <1>1, <1>3, <1>6, <1>7 DEF MountedPieces

LEMMA FreshMounts ==
  ASSUME NEW b \in Blueprints, NEW o \in Options, StartJob(b, o)
  PROVE  MountedPieces' = {} /\ MountedOnItsFloor'
<1>1. MountedPieces' = {}
  BY FreshCounts DEF MountedPieces
<1> QED BY <1>1 DEF MountedOnItsFloor

LEMMA MountedStep ==
  AllFloorsBelow /\ TypeOK /\ Accounted /\ Counted /\ MountedOnItsFloor /\ [Next]_vars
    => MountedOnItsFloor'
<1> SUFFICES ASSUME AllFloorsBelow, TypeOK, Accounted, Counted, MountedOnItsFloor, [Next]_vars
             PROVE  MountedOnItsFloor'
  OBVIOUS
<1>1. ASSUME NEW b \in Blueprints, NEW o \in Options, BeginPaste(b, o) PROVE MountedOnItsFloor'
  BY <1>1, BeginStep, FreshMounts
<1>2. ASSUME Running, UNCHANGED <<world, pastes>>, SameJob, g_job'.spawned = g_job.spawned
      PROVE  MountedOnItsFloor'
  BY <1>2 DEF MountedOnItsFloor, MountedPieces, Placed, Size, Standing, Live, SameJob
<1>3. CASE PlaceFails
  BY <1>2, <1>3, FailedStep
<1>4. ASSUME NEW a \in Actors, PlaceStructure(a) PROVE MountedOnItsFloor'
  <2>1. /\ Running /\ g_job'.bp = g_job.bp /\ g_job'.opts = g_job.opts /\ pastes' = pastes
        /\ Current \in 1..Size /\ a \in Free
        /\ g_job'.spawned = [g_job.spawned EXCEPT ![Current] = a]
    BY <1>4, PlacedStep DEF SameJob
  <2>2. /\ world.mounted \subseteq world'.mounted
        /\ \A x \in Actors : x # a => world'.actors[x] = world.actors[x]
        /\ world'.actors[a].piece = Current
    <3>1. world.actors \in [Actors -> Structure \cup {NoStructure}]
      BY DEF TypeOK, World
    <3>2. /\ world.mounted \subseteq world'.mounted
          /\ \E s : s.piece = Current /\ world'.actors = [world.actors EXCEPT ![a] = s]
      BY <1>4, PlacedWorld
    <3> QED BY <3>1, <3>2
  <2>3. g_job.spawned \in [1..Size -> Actors \cup {NoActor}] /\ Placed \subseteq 1..Size
    BY <2>1, JobFields, PlacedFacts
  <2>4. ASSUME NEW j \in 1..Size, j # Current, Standing(j)' PROVE Standing(j)
    BY <2>1, <2>2, <2>3, <2>4 DEF Standing, Live
  <2>5. SUFFICES ASSUME ~g_job.opts.invulnerable, NEW i \in MountedPieces', NEW f,
                        f = g_job.bp[i].floor, Standing(i)', Standing(f)'
                 PROVE  <<g_job'.spawned[i], g_job'.spawned[f]>> \in world'.mounted
    BY <2>1 DEF MountedOnItsFloor
  <2>6. f \in Placed /\ f # Current /\ (i = Current \/ i \in MountedPieces)
    <3>1. FloorsBelow(g_job.bp)
      BY <2>1, JobFacts DEF AllFloorsBelow
    <3> QED BY <1>4, <2>5, <3>1, FloorComesFirst
  <2>7. f \in 1..Size /\ Standing(f) /\ g_job'.spawned[f] = g_job.spawned[f]
    BY <2>1, <2>3, <2>4, <2>5, <2>6
  <2>8. CASE i = Current
    <3>1. FloorOf(Current, [g_job.spawned EXCEPT ![Current] = a]) = g_job.spawned[f]
      BY <2>1, <2>3, <2>5, <2>6, <2>7, <2>8 DEF FloorOf
    <3>2. g_job.spawned[f] \in Live /\ g_job'.spawned[i] = a
      BY <2>1, <2>3, <2>7, <2>8 DEF Standing
    <3> QED BY <1>4, <2>5, <2>7, <3>1, <3>2, PlacedWorld
  <2>9. CASE i # Current
    <3>1. i \in MountedPieces /\ i \in 1..Size
      BY <2>3, <2>6, <2>9 DEF MountedPieces
    <3>2. Standing(i) /\ g_job'.spawned[i] = g_job.spawned[i]
      BY <2>1, <2>3, <2>4, <2>5, <2>9, <3>1
    <3> QED BY <2>1, <2>2, <2>5, <2>7, <3>1, <3>2 DEF MountedOnItsFloor
  <2> QED BY <2>8, <2>9
<1>5. CASE StartLinking
  BY <1>2, <1>5, StartLinkingStep
<1>6. CASE Linking
  BY <1>6, LinkingStep DEF MountedOnItsFloor, MountedPieces, Placed, Size, Standing, Live, SameJob
<1>7. CASE Quiet
  <2>1. UNCHANGED <<g_job, pastes>>
    BY <1>7, QuietStep
  <2>2. MountedPieces' = MountedPieces /\ (Running' <=> Running)
    BY <2>1 DEF MountedPieces, Placed, Size, Running
  <2>3. SUFFICES ASSUME Running, ~g_job.opts.invulnerable, NEW i \in MountedPieces, NEW f,
                        f = g_job.bp[i].floor, Standing(i)', Standing(f)'
                 PROVE  <<g_job.spawned[i], g_job.spawned[f]>> \in world'.mounted
    BY <2>1, <2>2 DEF MountedOnItsFloor
  <2>4. i \in 1..Size /\ f \in 1..Size
    BY <2>3, PlacedFacts DEF MountedPieces
  <2>5. /\ Standing(i) /\ Standing(f)
        /\ <<g_job.spawned[i], g_job.spawned[f]>> \in world.mounted =>
             <<g_job.spawned[i], g_job.spawned[f]>> \in world'.mounted
    BY <1>7, <2>3, <2>4, QuietStanding
  <2> QED BY <2>3, <2>5 DEF MountedOnItsFloor
<1>8. CASE Dropping
  BY <1>8, DroppingStep DEF MountedOnItsFloor
<1> QED BY <1>1, <1>3, <1>4, <1>5, <1>6, <1>7, <1>8, Steps

\* Where floors lie below what they carry, bottom-up placement has every floor
\* stand before its mounted piece comes, and mounts each on its own
\* (Paste.cpp:218-224, 330-341).
THEOREM MountsStand == AllFloorsBelow => (Spec => []MountedOnItsFloor)
<1> SUFFICES ASSUME AllFloorsBelow PROVE Spec => []MountedOnItsFloor
  OBVIOUS
<1>1. Init => Counted /\ MountedOnItsFloor
  BY DEF Init, Counted, MountedOnItsFloor, Running
<1>2. TypeOK /\ Accounted /\ Counted /\ MountedOnItsFloor /\ [Next]_vars => MountedOnItsFloor'
  BY MountedStep
<1> QED BY <1>1, <1>2, CountedStep, EveryPieceAccounted, TypeCorrect, PTL DEF Spec

----------------------------------------------------------------------------
(* The reply *)

\* Adding one to a finite set.
LEMMA OneMore ==
  ASSUME NEW S, IsFiniteSet(S), NEW x, x \notin S
  PROVE  IsFiniteSet(S \cup {x}) /\ Cardinality(S \cup {x}) = Cardinality(S) + 1
  BY FS_AddElement

LEMMA FiniteColumn ==
  ASSUME NEW i, NEW n \in Nat
  PROVE  IsFiniteSet({i} \X (1..n))
<1>1. IsFiniteSet({i})
  BY FS_Singleton
<1>2. IsFiniteSet(1..n)
  BY FS_Interval
<1> QED BY <1>1, <1>2, FS_Product

\* A blueprint has finitely many links.
LEMMA FiniteEdges ==
  ASSUME NEW b \in Blueprints
  PROVE  IsFiniteSet(Edges(b))
<1> DEFINE Of(i) == {i} \X (1..Len(b[i].links))
           all == {Of(i) : i \in 1..Len(b)}
           f == [i \in 1..Len(b) |-> Of(i)]
<1>1. \A i \in 1..Len(b) : Len(b[i].links) \in Nat /\ DOMAIN b[i].links = 1..Len(b[i].links)
  BY BlueprintFacts DEF Piece
<1>2. f \in Surjection(1..Len(b), all)
  BY DEF Surjection
<1>3. IsFiniteSet(1..Len(b))
  BY BlueprintFacts, FS_Interval
<1>4. IsFiniteSet(all)
  BY <1>2, <1>3, FS_Surjection
<1>5. \A T \in all : IsFiniteSet(T)
  <2> SUFFICES ASSUME NEW i \in 1..Len(b) PROVE IsFiniteSet(Of(i))
    OBVIOUS
  <2>1. Len(b[i].links) \in Nat
    BY <1>1
  <2> QED BY <2>1, FiniteColumn
<1>6. IsFiniteSet(UNION all)
  BY <1>4, <1>5, FS_UNION
<1>7. \A i \in 1..Len(b) : {<<i, k>> : k \in DOMAIN b[i].links} = Of(i)
  BY <1>1
<1>8. Edges(b) = UNION all
  BY <1>7, BlueprintFacts DEF Edges
<1> QED BY <1>6, <1>8

\* The links counted are those of the joinable edges taken so far.
LinkTally ==
  Running =>
    /\ g_job.phase = "Linking" => ~g_job.opts.invulnerable
    /\ g_job.phase = "Placing" => g_job.links_made = 0
    /\ g_job.phase = "Linking" => g_job.links_made = Cardinality(JoinableEdges \cap Taken)

\* The mounts counted are those of the pieces placed so far.
FloorTally ==
  Running /\ FloorsBelow(g_job.bp) =>
    g_job.floors_restored = IF g_job.opts.invulnerable THEN 0 ELSE Cardinality(MountedPieces)

\* Edges taken stay taken, and a turn for an edge takes the next one.
LEMMA TakenGrows ==
  ASSUME TypeOK, Linking
  PROVE  /\ Taken \subseteq Taken'
         /\ <<Linked, g_job.link_sub + 1>> \notin Taken
         /\ SkipEdge \/ LinkEdge =>
              /\ <<Linked, g_job.link_sub + 1>> \in Taken'
              /\ g_job.link_sub + 1 \in DOMAIN Links
<1>1. /\ Running /\ LinkingTurn /\ g_job'.bp = g_job.bp /\ g_job \in JobOf(g_job.bp)
      /\ g_job.bp \in Blueprints
  BY LinkingStep, JobFacts DEF SameJob
<1>2. /\ g_job.link_cursor \in Nat /\ g_job.link_sub \in Nat /\ Linked \in 1..Size
      /\ Links \in Seq(Int) /\ Len(Links) \in Nat
  BY <1>1, JobFields, LinkingFacts
<1>3. <<Linked, g_job.link_sub + 1>> \notin Taken
  BY <1>2 DEF Taken, Linked
<1>4. CASE NextPiece
  <2>1. g_job'.link_cursor = g_job.link_cursor + 1
    BY <1>1, <1>4 DEF NextPiece, NextLinked, JobOf
  <2>2. Taken \subseteq Taken'
    <3> SUFFICES ASSUME NEW e \in Taken PROVE e \in Taken'
      OBVIOUS
    <3>1. e \in Edges(g_job'.bp) /\ e[1] \in Int
      BY <1>1, EdgeFacts DEF Taken
    <3> QED BY <1>2, <2>1, <3>1 DEF Taken, Linked
  <2>3. ~SkipEdge /\ ~LinkEdge
    BY <1>4 DEF NextPiece, SkipEdge, LinkEdge
  <2> QED BY <1>3, <2>2, <2>3
<1>5. CASE SkipEdge \/ LinkEdge
  <2>1. g_job'.link_cursor = g_job.link_cursor /\ g_job'.link_sub = g_job.link_sub + 1
    BY <1>1, <1>5 DEF SkipEdge, PastEdge, LinkEdge, JobOf
  <2>2. Taken \subseteq Taken'
    <3> SUFFICES ASSUME NEW e \in Taken PROVE e \in Taken'
      OBVIOUS
    <3>1. e \in Edges(g_job'.bp) /\ e[2] \in Int
      BY <1>1, EdgeFacts DEF Taken
    <3> QED BY <1>2, <2>1, <3>1 DEF Taken, Linked
  <2>3. g_job.link_sub + 1 \in DOMAIN Links
    BY <1>2, <1>5 DEF SkipEdge, PastEdge, LinkEdge, PieceDone
  <2>4. <<Linked, g_job.link_sub + 1>> \in Edges(g_job.bp)
    BY <1>1, <1>2, <2>3, JobFacts DEF Edges, Links
  <2>5. <<Linked, g_job.link_sub + 1>> \in Taken'
    BY <1>1, <1>2, <2>1, <2>4 DEF Taken, Linked
  <2> QED BY <1>3, <2>2, <2>3, <2>5
<1> QED BY <1>4, <1>5 DEF Linking

\* A turn of the link loop joins the edge it takes when its neighbour was
\* placed, and nothing else.
LEMMA JoinsGrow ==
  ASSUME TypeOK, Linking
  PROVE  LET J == JoinableEdges \cap Taken
             last == <<Linked, g_job.link_sub + 1>>
         IN  /\ JoinableEdges' = JoinableEdges
             /\ NextPiece \/ SkipEdge => JoinableEdges' \cap Taken' = J
             /\ LinkEdge => /\ last \in JoinableEdges \ J
                            /\ JoinableEdges' \cap Taken' = J \cup {last}
<1>1. /\ Running /\ g_job'.bp = g_job.bp /\ g_job'.spawned = g_job.spawned
      /\ g_job.bp \in Blueprints
  BY LinkingStep, JobFacts DEF SameJob
<1>2. JoinableEdges' = JoinableEdges
  BY <1>1 DEF JoinableEdges, Placed, Size
<1> DEFINE last == <<Linked, g_job.link_sub + 1>>
           J == JoinableEdges \cap Taken
<1>3. last[1] = Linked /\ last[2] = g_job.link_sub + 1
  OBVIOUS
<1>4. CASE NextPiece
  <2>1. ASSUME NEW e \in Taken', e \in JoinableEdges PROVE e \in Taken
    <3>1. g_job.spawned[e[1]] # NoActor
      BY <2>1 DEF JoinableEdges, Placed
    <3>2. ~SkipEdge /\ ~LinkEdge
      BY <1>4 DEF NextPiece, SkipEdge, LinkEdge
    <3> QED BY <2>1, <3>1, <3>2, LinkingTakes
  <2>2. JoinableEdges' \cap Taken' = J
    BY <1>2, <2>1, TakenGrows
  <2>3. ~LinkEdge
    BY <1>4 DEF NextPiece, LinkEdge
  <2> QED BY <1>2, <2>2, <2>3
<1>5. ASSUME SkipEdge \/ LinkEdge, NEW e \in Taken' PROVE e \in Taken \/ e = last
  <2>1. e \in Edges(g_job.bp) /\ (e \in Taken \/ (e[1] = Linked /\ e[2] = g_job.link_sub + 1))
    <3>1. ~NextPiece
      BY <1>5 DEF NextPiece, SkipEdge, LinkEdge
    <3> QED BY <1>5, <3>1, LinkingTakes
  <2>2. e = <<e[1], e[2]>>
    BY <1>1, <2>1, EdgeFacts
  <2> QED BY <2>1, <2>2
<1>6. CASE SkipEdge
  <2>1. last \notin JoinableEdges
    BY <1>3, <1>6 DEF SkipEdge, PastEdge, Joinable, EdgeTarget, Links, JoinableEdges, Placed
  <2>2. JoinableEdges' \cap Taken' = J
    BY <1>2, <1>5, <1>6, <2>1, TakenGrows
  <2>3. ~LinkEdge
    BY <1>6 DEF SkipEdge, LinkEdge
  <2> QED BY <1>2, <2>2, <2>3
<1>7. CASE LinkEdge
  <2>1. last \in Taken' /\ last \notin Taken
    BY <1>7, TakenGrows
  <2>2. Linked \in 1..Size
    BY <1>7, LinkingFacts DEF LinkEdge
  <2>3. last \in Edges(g_job.bp)
    BY <1>1, <2>1 DEF Taken
  <2>4. last \in JoinableEdges
    BY <1>3, <1>7, <2>2, <2>3 DEF LinkEdge, PieceDone, Joinable, EdgeTarget, Links, JoinableEdges, Placed
  <2>5. JoinableEdges' \cap Taken' = J \cup {last}
    BY <1>2, <1>5, <1>7, <2>1, <2>4, TakenGrows
  <2>6. ~NextPiece /\ ~SkipEdge
    BY <1>7 DEF NextPiece, SkipEdge, LinkEdge
  <2> QED BY <1>2, <2>1, <2>4, <2>5, <2>6
<1> QED BY <1>4, <1>6, <1>7 DEF Linking

LEMMA FreshTallies ==
  ASSUME NEW b \in Blueprints, NEW o \in Options, StartJob(b, o)
  PROVE  LinkTally' /\ FloorTally'
<1>1. LinkTally'
  BY StartStep DEF LinkTally
<1>2. Cardinality(MountedPieces') = 0
  BY FreshMounts, FS_EmptySet
<1>3. g_job'.floors_restored = 0
  BY StartStep
<1> QED BY <1>1, <1>2, <1>3 DEF FloorTally

LEMMA LinkTallyStep == TypeOK /\ LinkTally /\ [Next]_vars => LinkTally'
<1> SUFFICES ASSUME TypeOK, LinkTally, [Next]_vars PROVE LinkTally'
  OBVIOUS
<1>1. ASSUME NEW b \in Blueprints, NEW o \in Options, BeginPaste(b, o) PROVE LinkTally'
  BY <1>1, BeginStep, FreshTallies
<1>2. CASE PlaceFails
  BY <1>2, FailedStep DEF LinkTally
<1>3. ASSUME NEW a \in Actors, PlaceStructure(a) PROVE LinkTally'
  BY <1>3, PlacedStep DEF LinkTally
<1>4. CASE StartLinking
  <2>1. /\ Running /\ ~g_job.opts.invulnerable /\ g_job'.opts = g_job.opts
        /\ g_job.phase = "Placing" /\ g_job'.phase = "Linking"
        /\ g_job'.links_made = g_job.links_made /\ g_job'.bp \in Blueprints
        /\ g_job'.link_cursor = 0 /\ g_job'.link_sub = 0
    BY <1>4, StartLinkingStep, JobFacts DEF SameJob
  <2>2. Cardinality(JoinableEdges' \cap Taken') = 0
    BY <2>1, NoneTaken, FS_EmptySet
  <2> QED BY <2>1, <2>2 DEF LinkTally
<1>5. CASE Linking
  <2>1. /\ Running /\ g_job'.bp = g_job.bp /\ g_job'.opts = g_job.opts
        /\ g_job'.spawned = g_job.spawned /\ g_job'.phase = "Linking"
        /\ g_job.phase = "Linking"
        /\ g_job \in JobOf(g_job.bp) /\ g_job.bp \in Blueprints
    BY <1>5, LinkingStep, JobFacts DEF SameJob, LinkingTurn
  <2> DEFINE last == <<Linked, g_job.link_sub + 1>>
             J == JoinableEdges \cap Taken
  <2>2. g_job.links_made = Cardinality(J)
    BY <2>1 DEF LinkTally
  <2>3. CASE NextPiece \/ SkipEdge
    <3>1. g_job'.links_made = g_job.links_made
      BY <2>1, <2>3 DEF NextPiece, SkipEdge, PastEdge, NextLinked, JobOf
    <3>2. JoinableEdges' \cap Taken' = J
      BY <1>5, <2>3, JoinsGrow
    <3> QED BY <2>1, <2>2, <3>1, <3>2 DEF LinkTally
  <2>4. CASE LinkEdge
    <3>1. g_job'.links_made = g_job.links_made + 1
      BY <2>1, <2>4 DEF LinkEdge, JobOf
    <3>2. last \notin J /\ JoinableEdges' \cap Taken' = J \cup {last}
      BY <1>5, <2>4, JoinsGrow
    <3>3. IsFiniteSet(J)
      <4>1. J \in SUBSET Edges(g_job.bp)
        BY DEF JoinableEdges
      <4> QED BY <2>1, <4>1, FiniteEdges, FS_Subset
    <3>4. Cardinality(J \cup {last}) = Cardinality(J) + 1
      BY <3>2, <3>3, OneMore
    <3> QED BY <2>1, <2>2, <3>1, <3>2, <3>4 DEF LinkTally
  <2> QED BY <1>5, <2>3, <2>4 DEF Linking
<1>6. CASE Quiet
  BY <1>6, QuietStep
  DEF LinkTally, Running, JoinableEdges, Taken, Placed, Size, Linked
<1>7. CASE Dropping
  BY <1>7, DroppingStep DEF LinkTally
<1> QED BY <1>1, <1>2, <1>3, <1>4, <1>5, <1>6, <1>7, Steps

\* A piece that is placed on a floor that is there adds one mounted piece.
LEMMA MountsGrow ==
  ASSUME FloorsBelow(g_job.bp), TypeOK, Accounted, NEW a \in Actors, PlaceStructure(a)
  PROVE  LET f == FloorOf(Current, [g_job.spawned EXCEPT ![Current] = a])
         IN  /\ Current \notin MountedPieces
             /\ MountedPieces' = IF f # NoActor THEN MountedPieces \cup {Current} ELSE MountedPieces
<1>1. /\ Running /\ g_job'.bp = g_job.bp /\ DOMAIN g_job.bp = 1..Size /\ Current \in 1..Size
      /\ a # NoActor
  BY PlacedStep, JobFacts, PasteAssumption DEF SameJob
<1>2. /\ Placed' = Placed \cup {Current} /\ Current \notin Placed /\ Placed \subseteq 1..Size
      /\ g_job.spawned \in [1..Size -> Actors \cup {NoActor}]
  BY <1>1, PlacedGrows, PlacedFacts, JobFields
<1> DEFINE floor == g_job.bp[Current].floor
<1>3. floor # Current
  <2>1. g_job.bp[Current].at.z \in Int
    BY <1>1, JobFacts DEF Piece, Location
  <2> QED BY <1>1, <2>1 DEF FloorsBelow
<1>4. FloorOf(Current, [g_job.spawned EXCEPT ![Current] = a]) # NoActor <=> floor \in Placed
  BY <1>1, <1>2, <1>3 DEF FloorOf, Placed
<1>5. MountedPieces \subseteq MountedPieces'
  BY <1>1, <1>2 DEF MountedPieces
<1>6. floor \in Placed => Current \in MountedPieces'
  BY <1>1, <1>2 DEF MountedPieces
<1>7. \A i \in MountedPieces' : i \in MountedPieces \/ (i = Current /\ floor \in Placed)
  BY FloorComesFirst
<1>8. Current \notin MountedPieces
  BY <1>2 DEF MountedPieces
<1> QED BY <1>4, <1>5, <1>6, <1>7, <1>8

LEMMA FloorTallyStep == TypeOK /\ Accounted /\ FloorTally /\ [Next]_vars => FloorTally'
<1> SUFFICES ASSUME TypeOK, Accounted, FloorTally, [Next]_vars PROVE FloorTally'
  OBVIOUS
<1>1. ASSUME NEW b \in Blueprints, NEW o \in Options, BeginPaste(b, o) PROVE FloorTally'
  BY <1>1, BeginStep, FreshTallies
<1>2. ASSUME Running, SameJob, g_job'.spawned = g_job.spawned,
             g_job'.floors_restored = g_job.floors_restored
      PROVE  FloorTally'
  <2>1. MountedPieces' = MountedPieces
    BY <1>2 DEF MountedPieces, Placed, Size, SameJob
  <2> QED BY <1>2, <2>1 DEF FloorTally, FloorsBelow, SameJob
<1>3. CASE PlaceFails
  BY <1>2, <1>3, FailedStep
<1>4. ASSUME NEW a \in Actors, PlaceStructure(a) PROVE FloorTally'
  <2>1. Running /\ g_job'.bp = g_job.bp /\ g_job'.opts = g_job.opts
    BY <1>4, PlacedStep DEF SameJob
  <2>2. SUFFICES ASSUME FloorsBelow(g_job.bp)
                 PROVE  g_job'.floors_restored =
                          IF g_job.opts.invulnerable THEN 0 ELSE Cardinality(MountedPieces')
    BY <2>1 DEF FloorTally
  <2> DEFINE f == FloorOf(Current, [g_job.spawned EXCEPT ![Current] = a])
  <2>3. g_job'.floors_restored = g_job.floors_restored +
          (IF ~g_job.opts.invulnerable /\ f # NoActor THEN 1 ELSE 0)
    BY <1>4, PlacedWorld
  <2>4. g_job.floors_restored = IF g_job.opts.invulnerable THEN 0 ELSE Cardinality(MountedPieces)
    BY <2>1, <2>2 DEF FloorTally
  <2>5. IsFiniteSet(MountedPieces)
    <3>1. IsFiniteSet(Placed) /\ MountedPieces \in SUBSET Placed
      BY <2>1, PlacedFacts DEF MountedPieces
    <3> QED BY <3>1, FS_Subset
  <2>6. /\ Current \notin MountedPieces
        /\ MountedPieces' = IF f # NoActor THEN MountedPieces \cup {Current} ELSE MountedPieces
    BY <1>4, <2>2, MountsGrow
  <2>7. Cardinality(MountedPieces \cup {Current}) = Cardinality(MountedPieces) + 1
    BY <2>5, <2>6, OneMore
  <2>8. Cardinality(MountedPieces) \in Nat
    BY <2>5, FS_CardinalityType
  <2> QED BY <2>3, <2>4, <2>6, <2>7, <2>8
<1>5. CASE StartLinking
  BY <1>2, <1>5, StartLinkingStep
<1>6. CASE Linking
  BY <1>2, <1>6, LinkingStep
<1>7. CASE Quiet
  BY <1>7, QuietStep DEF FloorTally, Running, MountedPieces, Placed, Size
<1>8. CASE Dropping
  BY <1>8, DroppingStep DEF FloorTally
<1> QED BY <1>1, <1>3, <1>4, <1>5, <1>6, <1>7, <1>8, Steps

\* When the last piece is done with, the tallies are what the reply says.
LEMMA TalliesReply == TypeOK /\ Accounted /\ LinkTally /\ FloorTally => ReplyIsTrue
<1> SUFFICES ASSUME TypeOK, Accounted, LinkTally, FloorTally, left # Idle, AllPlaced \/ AllLinked
             PROVE  /\ Cardinality(Placed) + g_job.failed = Size
                    /\ g_job.links_made = IF g_job.opts.invulnerable THEN 0
                                           ELSE Cardinality(JoinableEdges)
                    /\ FloorsBelow(g_job.bp) =>
                         g_job.floors_restored = IF g_job.opts.invulnerable THEN 0
                                                 ELSE Cardinality(MountedPieces)
  BY DEF ReplyIsTrue
<1>1. Running /\ g_job.bp \in Blueprints
  BY JobFacts DEF TypeOK
<1>2. g_job.cursor = Size
  BY <1>1, JobFields DEF AllPlaced, AllLinked, TypeOK, IndexesInRange
<1>3. CASE AllPlaced
  BY <1>1, <1>2, <1>3 DEF AllPlaced, Accounted, LinkTally, FloorTally
<1>4. CASE AllLinked
  <2>1. g_job.link_cursor = Size /\ Size = Len(g_job.bp)
    BY <1>1, <1>4, JobFields DEF AllLinked, Size
  <2>2. JoinableEdges \cap Taken = JoinableEdges
    <3> SUFFICES ASSUME NEW e \in JoinableEdges PROVE e \in Taken
      OBVIOUS
    <3>1. e \in Edges(g_job.bp) /\ e[1] \in 1..Size
      BY <1>1, <2>1, EdgeFacts DEF JoinableEdges
    <3> QED BY <2>1, <3>1 DEF Taken
  <2> QED BY <1>1, <1>2, <1>4, <2>2 DEF AllLinked, Accounted, LinkTally, FloorTally
<1> QED BY <1>3, <1>4

\* What the admin reads at the end of a paste is what was done, whichever
\* spawns failed and whatever was destroyed on the way (Paste.cpp:268-273).
THEOREM RepliesTrue == Spec => []ReplyIsTrue
<1>1. Init => LinkTally /\ FloorTally
  BY DEF Init, LinkTally, FloorTally, Running
<1> QED BY <1>1, LinkTallyStep, FloorTallyStep, TalliesReply, EveryPieceAccounted, TypeCorrect,
           PTL DEF Spec

----------------------------------------------------------------------------
(* The record of a paste, in memory and in undo.gz *)

\* A set of naturals with a bound has a greatest.
LEMMA GreatestNatural ==
  ASSUME NEW S, NEW n \in Nat, S \subseteq 0..n, S # {}
  PROVE  \E m \in S : \A k \in S : k <= m
<1> DEFINE less == {ss \in Nat \X Nat : ss[1] < ss[2]}
           T == {k \in 0..n : n - k \in S}
<1>1. IsWellFoundedOn(less, Nat)
  BY NatLessThanWellFounded DEF OpToRel
<1>2. T \subseteq Nat /\ T # {}
  <2>1. PICK k \in S : TRUE
    OBVIOUS
  <2>2. n - k \in 0..n /\ n - (n - k) = k
    BY <2>1
  <2>3. n - k \in T
    BY <2>1, <2>2
  <2>4. T \subseteq Nat
    OBVIOUS
  <2> HIDE DEF T
  <2> QED BY <2>3, <2>4
<1> HIDE DEF less, T
<1>3. \E x \in T : \A y \in T : ~(<<y, x>> \in less)
  BY <1>1, <1>2, WFMin
<1>4. PICK x \in T : \A y \in T : ~(<<y, x>> \in less)
  BY <1>3
<1> USE DEF less, T
<1>5. n - x \in S
  BY <1>4
<1>6. ASSUME NEW k \in S PROVE k <= n - x
  <2>1. n - k \in T
    BY <1>6
  <2>2. ~(n - k < x)
    BY <1>2, <1>4, <2>1
  <2> QED BY <1>4, <1>6, <2>2
<1> QED BY <1>5, <1>6

----------------------------------------------------------------------------
(* Memory and file *)

\* What each step makes of the record in memory and of the one on disk.
LEMMA RecordsStep ==
  ASSUME TypeOK, [Next]_vars
  PROVE  \/ UNCHANGED <<g_last, disk>>
         \/ g_last' = NoRecord /\ disk' \in {disk, NoFile, TornFile}
         \/ UndoNothing
         \/ FinishJob
<1>1. ASSUME NEW b \in Blueprints, NEW o \in Options, BeginPaste(b, o)
      PROVE  g_last' = NoRecord /\ disk' = disk
  BY <1>1, BeginStep, StartStep
<1>2. PlaceFails => UNCHANGED <<g_last, disk>>
  BY FailedStep
<1>3. ASSUME NEW a \in Actors, PlaceStructure(a) PROVE UNCHANGED <<g_last, disk>>
  BY <1>3, PlacedStep
<1>4. StartLinking => UNCHANGED <<g_last, disk>>
  BY StartLinkingStep
<1>5. Linking => UNCHANGED <<g_last, disk>>
  BY LinkingStep
<1>6. Quiet => UNCHANGED <<g_last, disk>>
  BY QuietStep
<1>7. CASE Dropping
  BY <1>7 DEF Dropping, CancelPaste, TickNoWorld, Reload, ProcessEnds, Crash, CrashWhileSaving,
     StaleCrash, Restarted, UndoLastPaste
<1> QED BY <1>1, <1>2, <1>3, <1>4, <1>5, <1>6, <1>7, Steps

\* A record that is read from disk comes from a whole file.
FileWhole == disk.record.items # {} => disk = File(disk.record)

LEMMA FileWholeStep == TypeOK /\ FileWhole /\ [Next]_vars => FileWhole'
<1> SUFFICES ASSUME TypeOK, FileWhole, [Next]_vars PROVE FileWhole'
  OBVIOUS
<1>1. CASE disk' \in {disk, NoFile, TornFile}
  BY <1>1 DEF FileWhole, NoFile, TornFile, NoRecord
<1>2. CASE FinishJob
  <2>1. disk' \in {File(Record(g_job)), TornFile, disk}
    BY <1>2 DEF FinishJob, PersistUndo
  <2>2. File(Record(g_job)) = File(File(Record(g_job)).record)
    BY DEF File
  <2> QED BY <1>1, <2>1, <2>2 DEF FileWhole
<1>3. CASE UndoNothing
  BY <1>1, <1>3 DEF UndoNothing
<1> QED BY <1>1, <1>2, <1>3, RecordsStep

LEMMA UndoSurvivesStep ==
  ASSUME "disk" \notin Events
  PROVE  TypeOK /\ FileWhole /\ UndoSurvivesReload /\ [Next]_vars => UndoSurvivesReload'
<1> SUFFICES ASSUME TypeOK, FileWhole, UndoSurvivesReload, [Next]_vars PROVE UndoSurvivesReload'
  OBVIOUS
<1>4. CASE UndoNothing
  BY <1>4 DEF UndoNothing, UndoRecord, FileWhole, UndoSurvivesReload
<1>1. CASE UNCHANGED <<g_last, disk>>
  BY <1>1 DEF UndoSurvivesReload
<1>2. CASE g_last' = NoRecord
  BY <1>2 DEF UndoSurvivesReload, NoRecord
<1>3. CASE FinishJob
  BY <1>3 DEF FinishJob, PersistUndo, UndoSurvivesReload
<1> QED BY <1>1, <1>2, <1>3, <1>4, RecordsStep

\* While undo.gz can be written and removed, a reload loses nothing: the file
\* holds what memory holds (Paste.cpp:445-446), from the end of a paste until
\* it is undone or another begins.
THEOREM ReloadKeepsUndo == "disk" \notin Events => (Spec => []UndoSurvivesReload)
<1> SUFFICES ASSUME "disk" \notin Events PROVE Spec => []UndoSurvivesReload
  OBVIOUS
<1>1. Init => FileWhole /\ UndoSurvivesReload
  BY DEF Init, FileWhole, UndoSurvivesReload, NoFile, NoRecord
<1>2. TypeOK /\ FileWhole /\ UndoSurvivesReload /\ [Next]_vars
        => (FileWhole /\ UndoSurvivesReload)'
  BY FileWholeStep, UndoSurvivesStep
<1> QED BY <1>1, <1>2, TypeCorrect, PTL DEF Spec

----------------------------------------------------------------------------
(* What stands, and what the records say of it *)

\* The structures that stand now, and those that will after a crash.
Known == {world.actors[a] : a \in Actors} \cup {saved.actors[a] : a \in Actors}

PastedClasses == UNION {ClassesOf(b) : b \in Blueprints}

\* The records in memory and on disk.
Kept == {g_last, disk.record}

\* Records name classes of blueprints.
RecordsPasted == \A r \in Kept : \A it \in r.items : it.cls \in PastedClasses

\* The structures known after a step are those known before, but for one that
\* was placed or built.
LEMMA KnownStep ==
  ASSUME TypeOK, Counted, [Next]_vars
  PROVE  \/ Known' \subseteq Known \cup {NoStructure}
         \/ \E a \in Actors : /\ PlaceStructure(a)
                              /\ Known' \subseteq Known \cup {world'.actors[a]}
         \/ \E a \in Actors, s \in Builds :
              /\ BuildStructure(a, s)
              /\ UNCHANGED <<g_job, g_last, disk, pastes>>
              /\ Known' \subseteq Known \cup
                   {[cls |-> s.cls, at |-> s.at, owned |-> TRUE, paste |-> 0, piece |-> 0]}
<1>0. /\ world.actors \in [Actors -> Structure \cup {NoStructure}]
      /\ saved.actors \in [Actors -> Structure \cup {NoStructure}]
      /\ world = [actors |-> world.actors, linked |-> world.linked, mounted |-> world.mounted]
  BY DEF TypeOK, World
<1>1. ASSUME world' \in {world, saved}, saved' \in {world, saved} PROVE Known' \subseteq Known
  BY <1>1 DEF Known
<1>2. ASSUME world'.actors = world.actors, saved' = saved PROVE Known' \subseteq Known
  BY <1>2 DEF Known
<1>3. ASSUME NEW gone, world' = Without(world, gone), saved' = saved
      PROVE  Known' \subseteq Known \cup {NoStructure}
  <2>1. \A a \in Actors : world'.actors[a] \in {world.actors[a], NoStructure}
    BY <1>3 DEF Without
  <2> QED BY <1>3, <2>1 DEF Known
<1>4. ASSUME NEW b \in Blueprints, NEW o \in Options, BeginPaste(b, o)
      PROVE  Known' \subseteq Known
  BY <1>1, <1>4, BeginStep
<1>5. PlaceFails => Known' \subseteq Known
  BY <1>1, FailedStep
<1>6. ASSUME NEW a \in Actors, PlaceStructure(a)
      PROVE  Known' \subseteq Known \cup {world'.actors[a]}
  <2>1. PICK s : world'.actors = [world.actors EXCEPT ![a] = s]
    BY <1>6, PlacedWorld
  <2>2. saved' = saved
    BY <1>6, PlacedStep
  <2>3. \A x \in Actors : world'.actors[x] \in {world.actors[x], world'.actors[a]}
    BY <1>0, <2>1
  <2> QED BY <2>2, <2>3 DEF Known
<1>7. StartLinking => Known' \subseteq Known
  BY <1>1, StartLinkingStep
<1>8. Linking => Known' \subseteq Known
  BY <1>2, LinkingStep
<1>9. CASE Quiet
  <2>1. CASE TickBegin \/ TickEnd \/ SaveWorld \/ UNCHANGED vars
    BY <1>1, <2>1 DEF TickBegin, TickEnd, SaveWorld, vars
  <2>2. ASSUME NEW a \in Actors, Destroy(a) PROVE Known' \subseteq Known \cup {NoStructure}
    BY <1>3, <2>2 DEF Destroy
  <2>3. ASSUME NEW a \in Actors, NEW s \in Builds, BuildStructure(a, s)
        PROVE  Known' \subseteq Known \cup
                 {[cls |-> s.cls, at |-> s.at, owned |-> TRUE, paste |-> 0, piece |-> 0]}
    <3> DEFINE new == [cls |-> s.cls, at |-> s.at, owned |-> TRUE, paste |-> 0, piece |-> 0]
    <3> HIDE DEF new
    <3>1. world' = [world EXCEPT !.actors[a] = new] /\ saved' = saved
      BY <2>3 DEF BuildStructure, new
    <3>2. world'.actors = [world.actors EXCEPT ![a] = new]
      BY <1>0, <3>1
    <3>3. \A x \in Actors : world'.actors[x] \in {world.actors[x], new}
      BY <1>0, <3>2
    <3>4. Known' \subseteq Known \cup {new}
      BY <3>1, <3>3 DEF Known
    <3> QED BY <3>4 DEF new
  <2> QED BY <1>9, <2>1, <2>2, <2>3, QuietStep DEF Quiet
<1>10. CASE Dropping
  <2>1. CASE UndoLastPaste
    BY <1>3, <2>1 DEF UndoLastPaste
  <2>2. CASE ~UndoLastPaste
    BY <1>1, <1>10, <2>2 DEF Dropping, CancelPaste, TickNoWorld, Reload, ProcessEnds, Crash,
       CrashWhileSaving, StaleCrash, Restarted, FinishJob, UndoNothing
  <2> QED BY <2>1, <2>2
<1> QED BY <1>4, <1>5, <1>6, <1>7, <1>8, <1>9, <1>10, Steps

\* The structure a turn of the placing loop puts there. It is of its piece's
\* class, if the piece names one.
LEMMA PlacedActor ==
  ASSUME TypeOK, NEW a \in Actors, PlaceStructure(a)
  PROVE  /\ world'.actors[a].paste = pastes /\ world'.actors[a].piece = Current
         /\ world'.actors[a].at = WorldLocation(g_job.bp[Current], g_job.opts)
         /\ g_job.bp[Current].cls # NoClass => world'.actors[a].cls = g_job.bp[Current].cls
<1> DEFINE s(cls) == [cls |-> cls,
                      at |-> WorldLocation(g_job.bp[Current], g_job.opts),
                      owned |-> ~g_job.opts.invulnerable,
                      paste |-> pastes, piece |-> Current]
<1>1. PICK cls \in Resolved(g_job.bp[Current]) : world'.actors = [world.actors EXCEPT ![a] = s(cls)]
  BY PlacedWorld
<1>2. a \in DOMAIN world.actors
  BY DEF TypeOK, World
<1>3. PICK t : t = s(cls)
  OBVIOUS
<1>4. world'.actors[a] = t
  BY <1>1, <1>2, <1>3
<1>5. g_job.bp[Current].cls # NoClass => cls = g_job.bp[Current].cls
  BY DEF Resolved
<1> QED BY <1>3, <1>4, <1>5

\* The classes of what FinishJob records are the blueprint's.
LEMMA RecordedClasses ==
  ASSUME TypeOK, Running, NEW it \in Record(g_job).items
  PROVE  it.cls \in PastedClasses
<1>1. PICK i \in DOMAIN g_job.bp : it.cls = g_job.bp[i].cls
  BY DEF Record
<1>2. g_job.bp \in Blueprints
  BY JobFacts
<1> QED BY <1>1, <1>2 DEF PastedClasses, ClassesOf

LEMMA RecordsPastedStep == TypeOK /\ RecordsPasted /\ [Next]_vars => RecordsPasted'
<1> SUFFICES ASSUME TypeOK, RecordsPasted, [Next]_vars PROVE RecordsPasted'
  OBVIOUS
<1>0. \A it \in NoRecord.items : it.cls \in PastedClasses
  BY DEF NoRecord
<1>1. CASE UNCHANGED <<g_last, disk>>
  BY <1>1 DEF RecordsPasted, Kept
<1>2. CASE g_last' = NoRecord /\ disk' \in {disk, NoFile, TornFile}
  BY <1>0, <1>2 DEF RecordsPasted, Kept, NoFile, TornFile
<1>3. CASE FinishJob
  <2>1. Running
    BY <1>3 DEF FinishJob, TypeOK
  <2>2. \A it \in Record(g_job).items : it.cls \in PastedClasses
    BY <2>1, RecordedClasses
  <2>3. g_last' = Record(g_job) /\ disk' \in {File(Record(g_job)), TornFile, disk}
    BY <1>3 DEF FinishJob, PersistUndo
  <2>4. disk'.record \in {Record(g_job), NoRecord, disk.record}
    BY <2>3 DEF File, TornFile
  <2> QED BY <1>0, <2>2, <2>3, <2>4 DEF RecordsPasted, Kept
<1>4. CASE UndoNothing
  BY <1>4 DEF UndoNothing, UndoRecord, RecordsPasted, Kept
<1> QED BY <1>1, <1>2, <1>3, <1>4, RecordsStep

----------------------------------------------------------------------------
(* Players *)

\* Two coordinates ten units apart are never rounded to one bucket.
LEMMA TenUnitsApart ==
  ASSUME NEW c \in Int, NEW d \in Int, c + 10 <= d
  PROVE  Bucket(c) # Bucket(d)
<1>1. ASSUME NEW k \in Int
      PROVE  /\ (k + 5) \div 10 \in Int /\ 10 * ((k + 5) \div 10) <= k + 5
             /\ k + 5 < 10 * ((k + 5) \div 10) + 10
             /\ (5 - k) \div 10 \in Int /\ 10 * ((5 - k) \div 10) <= 5 - k
             /\ 5 - k < 10 * ((5 - k) \div 10) + 10
  BY <1>1
<1>2. PICK p, q \in Int : p = (c + 5) \div 10 /\ q = (d + 5) \div 10
  BY <1>1
<1>3. PICK r, s \in Int : r = (5 - c) \div 10 /\ s = (5 - d) \div 10
  BY <1>1
<1>4. /\ 10 * p <= c + 5 /\ c + 5 < 10 * p + 10 /\ 10 * q <= d + 5 /\ d + 5 < 10 * q + 10
      /\ 10 * r <= 5 - c /\ 5 - c < 10 * r + 10 /\ 10 * s <= 5 - d /\ 5 - d < 10 * s + 10
  BY <1>1, <1>2, <1>3
<1>5. Bucket(c) = (IF c >= 0 THEN p ELSE -r) /\ Bucket(d) = (IF d >= 0 THEN q ELSE -s)
  BY <1>2, <1>3 DEF Bucket
<1>6. (IF c >= 0 THEN p ELSE -r) # (IF d >= 0 THEN q ELSE -s)
  BY <1>4
<1> QED BY <1>5, <1>6

\* Coordinates in one bucket are near, and so are places under one key.
LEMMA OneBucketIsNear ==
  ASSUME NEW c \in Int, NEW d \in Int, Bucket(c) = Bucket(d)
  PROVE  Near(c, d)
<1> SUFFICES ASSUME ~Near(c, d) PROVE Bucket(c) # Bucket(d)
  OBVIOUS
<1>1. c + 10 <= d \/ d + 10 <= c
  BY DEF Near
<1> QED BY <1>1, TenUnitsApart

LEMMA OneKeyIsNear ==
  ASSUME NEW u \in Location, NEW v \in Location, Key(u) = Key(v)
  PROVE  NearPlaces(u, v)
<1>1. Bucket(u.x) = Bucket(v.x) /\ Bucket(u.y) = Bucket(v.y) /\ Bucket(u.z) = Bucket(v.z)
  BY DEF Key
<1>2. /\ u.x \in Int /\ u.y \in Int /\ u.z \in Int
      /\ v.x \in Int /\ v.y \in Int /\ v.z \in Int
  BY DEF Location
<1> QED BY <1>1, <1>2, OneBucketIsNear DEF NearPlaces

\* What undo destroys has an item of its class in its bucket.
LEMMA UndoTakesNearOnly ==
  ASSUME TypeOK, UndoLastPaste, NEW a \in Live, world'.actors[a] = NoStructure
  PROVE  \E it \in UndoRecord.items : /\ it.cls = world.actors[a].cls
                                      /\ NearPlaces(it.at, world.actors[a].at)
<1>1. PICK gone : /\ world' = Without(world, gone)
                  /\ \A x \in gone : Matches(world.actors[x], UndoRecord.items)
  BY DEF UndoLastPaste
<1>2. a \in Actors /\ world.actors[a] # NoStructure
  BY DEF Live
<1>3. a \in gone
  BY <1>1, <1>2 DEF Without
<1>4. PICK it \in UndoRecord.items : /\ it.cls = world.actors[a].cls
                                     /\ Key(it.at) = Key(world.actors[a].at)
  BY <1>1, <1>3 DEF Matches, Wanted, Named
<1>5. world.actors[a] \in Structure /\ world.actors[a].at \in Location
  BY <1>2 DEF TypeOK, World, Structure
<1>6. UndoRecord \in UndoRecords
  BY DEF TypeOK, UndoRecord
<1>7. it.at \in Location
  BY <1>6 DEF UndoRecords, Item
<1> QED BY <1>4, <1>5, <1>7, OneKeyIsNear

\* What undo may take from players, and no more: a structure of the class of a
\* piece of the paste, less than ten units along each axis from where this piece
\* was recorded. That holds for every record, through memory or through undo.gz,
\* after pastes that were given up, reloads and crashes, also of structures of
\* the pasted classes, which is where a player's rebuild can be taken for the
\* piece (Paste.cpp:452-505).
THEOREM PlayersAreSpared == Spec => UndoSparesPlayers
<1>1. TypeOK /\ [Next]_vars =>
        [UndoLastPaste =>
           \A a \in Live :
             world'.actors[a] = NoStructure /\ world.actors[a].paste = 0 =>
               \E it \in UndoRecord.items : /\ it.cls = world.actors[a].cls
                                            /\ NearPlaces(it.at, world.actors[a].at)]_vars
  BY UndoTakesNearOnly
<1> QED BY <1>1, TypeCorrect, PTL DEF Spec, UndoSparesPlayers

----------------------------------------------------------------------------
(* Finding the pieces again *)

\* Nothing is sunk: the record leaves the sink out (Paste.cpp:308).
Sinkless == \A o \in Options : o.sink = 0

\* Every class index of a blueprint is in range of its classes.
Indexed == \A b \in Blueprints : \A i \in DOMAIN b : b[i].cls # NoClass

\* Pieces that land in one bucket are of one class (Paste.cpp:452-454).
BucketsApart ==
  \A b \in Blueprints, o \in Options : \A i, j \in DOMAIN b :
    Key(RecordedLocation(b[i], o)) = Key(RecordedLocation(b[j], o)) => b[i].cls = b[j].cls

\* A structure is of no paste to come; one of the running paste is where and
\* what its piece is to be; and one of a recorded paste is found by the record.
LatestSoFar(s) == s # NoStructure => s.paste <= pastes

AsItsPiece(s) ==
  Running /\ s # NoStructure /\ s.paste = pastes =>
    /\ s.piece \in Placed
    /\ s.cls = g_job.bp[s.piece].cls
    /\ s.at = WorldLocation(g_job.bp[s.piece], g_job.opts)

FoundBy(s, r) ==
  s # NoStructure /\ r.items # {} /\ s.paste = r.paste => Matches(s, r.items)

\* A record is of a paste that has ended.
OfThePast(r) == r.items # {} => /\ r.paste \in 1..pastes
                                /\ Running => r.paste < pastes

LocateInv ==
  /\ \A s \in Known : LatestSoFar(s) /\ AsItsPiece(s)
  /\ \A s \in Known, r \in Kept : FoundBy(s, r)
  /\ \A r \in Kept : OfThePast(r)

\* Unsunk, a piece lands where it is recorded.
LEMMA LandsAsRecorded ==
  ASSUME NEW p \in Piece, NEW o \in Option, o.sink = 0
  PROVE  WorldLocation(p, o) = RecordedLocation(p, o)
<1> DEFINE v == RecordedLocation(p, o)
<1>1. v \in Location
  BY LocationType
<1>2. WorldLocation(p, o) = [v EXCEPT !.z = v.z - o.sink]
  BY DEF WorldLocation, RecordedLocation
<1> HIDE DEF v
<1>3. [v EXCEPT !.z = v.z - o.sink] = v
  BY <1>1 DEF Location
<1> QED BY <1>2, <1>3 DEF v

\* The record FinishJob writes finds what is where a placed piece was put: the
\* last item of the bucket is of the class of every piece in it.
LEMMA RecordFinds ==
  ASSUME TypeOK, Running, Indexed, Sinkless, BucketsApart, NEW i \in Placed, NEW s,
         s.cls = g_job.bp[i].cls, s.at = WorldLocation(g_job.bp[i], g_job.opts)
  PROVE  Matches(s, Record(g_job).items)
<1> DEFINE place(j) == RecordedLocation(g_job.bp[j], g_job.opts)
           item(j) == [piece |-> j, cls |-> g_job.bp[j].cls, at |-> place(j)]
           near == {j \in Placed : Key(place(j)) = Key(s.at)}
<1>1. /\ g_job.bp \in Blueprints /\ g_job.opts \in Options /\ g_job.opts \in Option
      /\ DOMAIN g_job.bp = 1..Size /\ Size \in Nat /\ i \in 1..Size
      /\ \A j \in 1..Size : g_job.bp[j] \in Piece
      /\ Placed \subseteq 1..Size
  BY JobFacts, PlacedFacts DEF JobOf
<1>2. Record(g_job).items = {item(j) : j \in Placed}
  BY <1>1 DEF Record, Placed
<1>3. s.at = place(i)
  BY <1>1, LandsAsRecorded DEF Sinkless
<1>4. near \subseteq 0..Size /\ i \in near
  <2>1. near \subseteq Placed
    OBVIOUS
  <2>2. Placed \subseteq 0..Size
    BY <1>1
  <2>3. Key(place(i)) = Key(s.at)
    BY <1>3
  <2>4. i \in near
    BY <2>3
  <2> QED BY <2>1, <2>2, <2>4
<1>5. PICK m \in near : \A k \in near : k <= m
  <2> HIDE DEF near
  <2> QED BY <1>1, <1>4, GreatestNatural
<1>6. m \in 1..Size /\ m \in Placed /\ Key(place(m)) = Key(s.at)
  BY <1>1, <1>5
<1>7. g_job.bp[m].cls = s.cls
  BY <1>1, <1>3, <1>6 DEF BucketsApart
<1>8. item(m) \in Record(g_job).items
  BY <1>2, <1>6
<1>9. \A j \in Placed : Key(place(j)) = Key(s.at) => j <= m
  BY <1>5
<1> HIDE DEF near
<1>10. \A it \in Record(g_job).items : Key(it.at) = Key(s.at) => it.piece <= m
  BY <1>2, <1>9
<1>12. item(m).cls # NoClass
  BY <1>1, <1>6 DEF Indexed
<1>11. item(m).cls \in Wanted(Record(g_job).items, Key(s.at))
  BY <1>6, <1>8, <1>10, <1>12 DEF Wanted, Named
<1> QED BY <1>7, <1>11 DEF Matches

\* What a step makes of the job, of the number of pastes and of the records.
LEMMA JobStep ==
  ASSUME TypeOK, Accounted, [Next]_vars
  PROVE  \/ /\ ~Running /\ Running' /\ pastes' = pastes + 1 /\ Kept' \subseteq Kept \cup {NoRecord}
         \/ /\ ~Running' /\ pastes' = pastes
            /\ Running => \A r \in Kept' : r \in Kept \cup {NoRecord} \/ r = Record(g_job)
            /\ ~Running => Kept' \subseteq Kept \cup {NoRecord}
         \/ /\ Running /\ pastes' = pastes /\ Kept' = Kept
            /\ g_job'.bp = g_job.bp /\ g_job'.opts = g_job.opts
            /\ Placed \subseteq Placed'
<1>1. ASSUME NEW b \in Blueprints, NEW o \in Options, BeginPaste(b, o)
      PROVE  /\ ~Running /\ Running' /\ pastes' = pastes + 1
             /\ Kept' \subseteq Kept \cup {NoRecord}
  BY <1>1, BeginStep, StartStep DEF Kept
<1>2. ASSUME g_job'.spawned = g_job.spawned, SameJob PROVE Placed' = Placed
  BY <1>2 DEF Placed, Size, SameJob
<1>3. ASSUME PlaceFails \/ StartLinking \/ Linking
      PROVE  /\ Running /\ pastes' = pastes /\ Kept' = Kept
             /\ g_job'.bp = g_job.bp /\ g_job'.opts = g_job.opts /\ Placed' = Placed
  <2>1. /\ Running /\ SameJob /\ g_job'.spawned = g_job.spawned
        /\ UNCHANGED <<g_last, disk, pastes>>
    BY <1>3, FailedStep, StartLinkingStep, LinkingStep
  <2> QED BY <1>2, <2>1 DEF Kept, SameJob
<1>4. ASSUME NEW a \in Actors, PlaceStructure(a)
      PROVE  /\ Running /\ pastes' = pastes /\ Kept' = Kept
             /\ g_job'.bp = g_job.bp /\ g_job'.opts = g_job.opts /\ Placed \subseteq Placed'
  <2>1. Running /\ SameJob /\ UNCHANGED <<g_last, disk, pastes>>
    BY <1>4, PlacedStep
  <2>2. Placed \subseteq Placed'
    BY <1>4, PlacedGrows
  <2> QED BY <2>1, <2>2 DEF Kept, SameJob
<1>5. ASSUME Quiet
      PROVE  UNCHANGED <<g_job, g_last, disk, pastes>>
  BY <1>5, QuietStep
<1>6. CASE Quiet
  BY <1>5, <1>6 DEF Kept, Running, Placed, Size
<1>7. CASE Dropping
  <2>1. ~Running' /\ pastes' = pastes
    BY <1>7, DroppingStep
  <2>2. CASE FinishJob
    <3>1. Running
      BY <2>2 DEF FinishJob, TypeOK
    <3>2. g_last' = Record(g_job) /\ disk' \in {File(Record(g_job)), TornFile, disk}
      BY <2>2 DEF FinishJob, PersistUndo
    <3>3. disk'.record \in {Record(g_job), NoRecord, disk.record}
      BY <3>2 DEF File, TornFile
    <3> QED BY <2>1, <3>1, <3>2, <3>3 DEF Kept
  <2>3. CASE UNCHANGED <<g_last, disk>>
    BY <2>1, <2>3 DEF Kept
  <2>4. CASE g_last' = NoRecord /\ disk' \in {disk, NoFile, TornFile}
    BY <2>1, <2>4 DEF Kept, NoFile, TornFile
  <2>5. CASE UndoNothing
    BY <2>1, <2>5 DEF UndoNothing, UndoRecord, Kept
  <2> QED BY <2>2, <2>3, <2>4, <2>5, RecordsStep
<1> QED BY <1>1, <1>3, <1>4, <1>6, <1>7, Steps

\* A structure that was there keeps its place in the job, while the job lasts.
LEMMA StaysItsPiece ==
  ASSUME TypeOK, Accounted, [Next]_vars,
         NEW s, s # NoStructure => s \in Structure,
         LatestSoFar(s), AsItsPiece(s)
  PROVE  LatestSoFar(s)' /\ AsItsPiece(s)'
<1>1. pastes \in Nat /\ (s # NoStructure => s.paste \in Nat)
  BY DEF TypeOK, Structure
<1>2. ASSUME Running', pastes' = pastes + 1
      PROVE  LatestSoFar(s)' /\ AsItsPiece(s)'
  BY <1>1, <1>2 DEF LatestSoFar, AsItsPiece
<1>3. ASSUME ~Running', pastes' = pastes
      PROVE  LatestSoFar(s)' /\ AsItsPiece(s)'
  BY <1>3 DEF LatestSoFar, AsItsPiece
<1>4. ASSUME Running, pastes' = pastes, g_job'.bp = g_job.bp, g_job'.opts = g_job.opts,
             Placed \subseteq Placed'
      PROVE  LatestSoFar(s)' /\ AsItsPiece(s)'
  BY <1>4 DEF LatestSoFar, AsItsPiece
<1> QED BY <1>2, <1>3, <1>4, JobStep

LEMMA LocateStep ==
  ASSUME Indexed, Sinkless, BucketsApart
  PROVE  TypeOK /\ Counted /\ Accounted /\ LocateInv /\ [Next]_vars => LocateInv'
<1> SUFFICES ASSUME TypeOK, Counted, Accounted, LocateInv, [Next]_vars PROVE LocateInv'
  OBVIOUS
<1>0. /\ pastes \in Nat
      /\ \A s \in Known : s # NoStructure => s \in Structure /\ s.paste \in Nat
      /\ \A r \in Kept : r.paste \in Nat
      /\ NoRecord.items = {}
  <2>1. \A s \in Known : s # NoStructure => s \in Structure
    BY DEF TypeOK, World, Known
  <2>2. \A r \in Kept : r \in UndoRecords
    BY DEF TypeOK, Kept
  <2> QED BY <2>1, <2>2 DEF TypeOK, Structure, UndoRecords, NoRecord
<1>1. \A s \in Known \cup {NoStructure} : LatestSoFar(s)' /\ AsItsPiece(s)'
  <2>1. \A s \in Known : LatestSoFar(s)' /\ AsItsPiece(s)'
    BY <1>0, StaysItsPiece DEF LocateInv
  <2>2. LatestSoFar(NoStructure)' /\ AsItsPiece(NoStructure)'
    BY DEF LatestSoFar, AsItsPiece
  <2> QED BY <2>1, <2>2
<1>2. \A r \in Kept' : OfThePast(r)'
  <2>1. ASSUME NEW r \in Kept \cup {NoRecord}, Running' => Running \/ pastes' = pastes + 1,
               pastes' \in {pastes, pastes + 1}
        PROVE  OfThePast(r)'
    BY <1>0, <2>1 DEF LocateInv, OfThePast
  <2>2. ASSUME NEW r, r = Record(g_job), Running, ~Running', pastes' = pastes
        PROVE  OfThePast(r)'
    BY <1>0, <2>2 DEF OfThePast, Record, Counted
  <2> QED BY <2>1, <2>2, JobStep
<1>3. \A s \in Known \cup {NoStructure}, r \in Kept' : FoundBy(s, r)
  <2>1. \A s \in Known \cup {NoStructure}, r \in Kept \cup {NoRecord} : FoundBy(s, r)
    BY <1>0 DEF LocateInv, FoundBy
  <2>2. ASSUME Running, NEW s \in Known, s # NoStructure, s.paste = Record(g_job).paste
        PROVE  Matches(s, Record(g_job).items)
    <3>1. s.paste = pastes
      BY <2>2 DEF Record
    <3>2. /\ s.piece \in Placed
          /\ s.cls = g_job.bp[s.piece].cls
          /\ s.at = WorldLocation(g_job.bp[s.piece], g_job.opts)
      BY <2>2, <3>1 DEF LocateInv, AsItsPiece
    <3> QED BY <2>2, <3>2, RecordFinds
  <2>3. Running => \A s \in Known \cup {NoStructure} : FoundBy(s, Record(g_job))
    BY <2>2 DEF FoundBy
  <2> QED BY <2>1, <2>3, JobStep
<1>4. CASE Known' \subseteq Known \cup {NoStructure}
  BY <1>1, <1>2, <1>3, <1>4 DEF LocateInv, FoundBy
<1>5. ASSUME NEW n, Known' \subseteq Known \cup {n}, LatestSoFar(n)', AsItsPiece(n)',
             \A r \in Kept' : FoundBy(n, r)
      PROVE  LocateInv'
  BY <1>1, <1>2, <1>3, <1>5 DEF LocateInv, FoundBy
<1>6. ASSUME NEW a \in Actors, PlaceStructure(a), Known' \subseteq Known \cup {world'.actors[a]}
      PROVE  LocateInv'
  <2>1. PICK n : n = world'.actors[a]
    OBVIOUS
  <2>2. g_job.bp[Current].cls # NoClass
    BY <1>6, PlacedStep, JobFacts DEF Indexed
  <2>3. /\ n.cls = g_job.bp[n.piece].cls
        /\ n.at = WorldLocation(g_job.bp[n.piece], g_job.opts)
        /\ n.paste = pastes /\ n.piece = Current
    BY <1>6, <2>1, <2>2, PlacedActor
  <2>4. /\ Running /\ pastes' = pastes /\ Kept' = Kept
        /\ g_job'.bp = g_job.bp /\ g_job'.opts = g_job.opts
    BY <1>6, PlacedStep DEF SameJob, Kept
  <2>5. Current \in Placed'
    BY <1>6, PlacedGrows
  <2>6. LatestSoFar(n)' /\ AsItsPiece(n)'
    BY <1>0, <2>3, <2>4, <2>5 DEF LatestSoFar, AsItsPiece
  <2>7. \A r \in Kept' : FoundBy(n, r)
    BY <1>0, <2>3, <2>4 DEF LocateInv, OfThePast, FoundBy
  <2> QED BY <1>5, <1>6, <2>1, <2>6, <2>7
<1>7. ASSUME NEW a \in Actors, NEW b \in Builds,
             UNCHANGED <<g_job, g_last, disk, pastes>>,
             Known' \subseteq Known \cup
               {[cls |-> b.cls, at |-> b.at, owned |-> TRUE, paste |-> 0, piece |-> 0]}
      PROVE  LocateInv'
  <2>1. PICK n : n = [cls |-> b.cls, at |-> b.at, owned |-> TRUE, paste |-> 0, piece |-> 0]
    OBVIOUS
  <2>2. n.paste = 0
    BY <2>1
  <2>3. pastes' = pastes /\ Kept' = Kept /\ (Running' <=> Running)
    BY <1>7 DEF Kept, Running
  <2>4. LatestSoFar(n)' /\ AsItsPiece(n)'
    BY <1>0, <2>2, <2>3 DEF LatestSoFar, AsItsPiece, Counted
  <2>5. \A r \in Kept' : FoundBy(n, r)
    BY <1>0, <2>2, <2>3 DEF LocateInv, OfThePast, FoundBy
  <2> QED BY <1>5, <1>7, <2>1, <2>4, <2>5
<1> QED BY <1>4, <1>6, <1>7, KnownStep

LEMMA LocatesAtFirst == Init => LocateInv
  BY DEF Init, LocateInv, Known, Kept, EmptyWorld, NoRecord, NoFile, Running,
     LatestSoFar, AsItsPiece, FoundBy, OfThePast

LEMMA LocatesNow == LocateInv => RecordLocates
  BY DEF LocateInv, RecordLocates, Known, Kept, FoundBy, Live

\* What relates structures to the records holds of every behaviour.
LEMMA LocateInvariant ==
  Indexed /\ Sinkless /\ BucketsApart => (Spec => []LocateInv)
<1> SUFFICES ASSUME Indexed, Sinkless, BucketsApart PROVE Spec => []LocateInv
  OBVIOUS
<1>1. Init => Counted /\ LocateInv
  BY LocatesAtFirst DEF Init, Counted, Running
<1>2. TypeOK /\ Counted /\ Accounted /\ LocateInv /\ [Next]_vars => (Counted /\ LocateInv)'
  BY CountedStep, LocateStep
<1> QED BY <1>1, <1>2, TypeCorrect, EveryPieceAccounted, PTL DEF Spec

\* Where every class index is in range, nothing is sunk, and pieces that share a
\* bucket are of one class, every piece of a recorded paste that still stands is
\* one the record finds again: at any origin and in any quarter turn, whatever was
\* placed, destroyed, saved and restored meanwhile, and whether memory or undo.gz
\* holds the record (Paste.cpp:247-261, 452-465).
THEOREM RecordsLocate ==
  Indexed /\ Sinkless /\ BucketsApart => (Spec => []RecordLocates)
<1> SUFFICES ASSUME Indexed, Sinkless, BucketsApart PROVE Spec => []RecordLocates
  OBVIOUS
<1> QED BY LocateInvariant, LocatesNow, PTL

\* The octree hands back everything that stands.
AllAwake == "stasis" \notin Events

\* What stands of the paste is found, and what is found is destroyed.
LEMMA UndoTakesFound ==
  ASSUME AllAwake, RecordLocates
  PROVE  UndoLastPaste => \A a \in Live : world.actors[a].paste = UndoRecord.paste =>
                            world'.actors[a] = NoStructure
<1> SUFFICES ASSUME UndoLastPaste, NEW a \in Live, world.actors[a].paste = UndoRecord.paste
             PROVE  world'.actors[a] = NoStructure
  OBVIOUS
<1>1. world' = Without(world, {x \in Live : Matches(world.actors[x], UndoRecord.items)})
  BY DEF UndoLastPaste, Sightings, AllAwake
<1>2. UndoRecord \in {g_last, disk.record} /\ UndoRecord.items # {}
  BY DEF UndoLastPaste, UndoAllowed, UndoRecord, Named
<1>3. Matches(world.actors[a], UndoRecord.items)
  BY <1>2 DEF RecordLocates
<1> QED BY <1>1, <1>3 DEF Without, Live

\* On the conditions of RecordsLocate, and if nothing is in stasis, an undo
\* leaves no piece of its paste behind: any origin, any quarter turn, any pieces
\* that could not be placed or were destroyed and rebuilt upon, and any record
\* that failed writes and crashes left in memory or on disk (TESTING.md:85,
\* Paste.cpp:440-509).
THEOREM UndoLeavesNothing ==
  Indexed /\ Sinkless /\ BucketsApart /\ AllAwake => (Spec => UndoTakesAll)
<1> SUFFICES ASSUME Indexed, Sinkless, BucketsApart, AllAwake PROVE Spec => UndoTakesAll
  OBVIOUS
<1>1. RecordLocates /\ [Next]_vars =>
        [UndoLastPaste => \A a \in Live : world.actors[a].paste = UndoRecord.paste =>
                            world'.actors[a] = NoStructure]_vars
  BY UndoTakesFound
<1> QED BY <1>1, RecordsLocate, PTL DEF Spec, UndoTakesAll

\* "Pieces are hundreds of units apart" (Paste.cpp:452-453): pieces of different
\* classes are ten or more apart along an axis.
SpacedApart ==
  \A b \in Blueprints : \A i, j \in DOMAIN b :
    b[i].cls # b[j].cls => ~NearPlaces(b[i].at, b[j].at)

\* Places in one bucket were near before they were turned and moved.
LEMMA SameKeyIsNear ==
  ASSUME NEW u \in Location, NEW v \in Location, NEW q \in 0..3, NEW o \in Location,
         Key(Translate(RotateAroundZ(u, q), o)) = Key(Translate(RotateAroundZ(v, q), o))
  PROVE  NearPlaces(u, v)
<1>1. /\ u.x \in Int /\ u.y \in Int /\ u.z \in Int /\ v.x \in Int /\ v.y \in Int /\ v.z \in Int
      /\ o.x \in Int /\ o.y \in Int /\ o.z \in Int
  BY DEF Location
<1>2. \A c, d \in Int : Bucket(c) = Bucket(d) => Near(c, d)
  BY OneBucketIsNear
<1> DEFINE x(w) == w.x * Cos(q) - w.y * Sin(q)
           y(w) == w.x * Sin(q) + w.y * Cos(q)
<1>3. /\ Bucket(o.x + x(u)) = Bucket(o.x + x(v))
      /\ Bucket(o.y + y(u)) = Bucket(o.y + y(v))
      /\ Bucket(o.z + u.z) = Bucket(o.z + v.z)
  BY DEF Key, Translate, RotateAroundZ
<1>4. /\ q = 0 => x(u) = u.x /\ y(u) = u.y /\ x(v) = v.x /\ y(v) = v.y
      /\ q = 1 => x(u) = -u.y /\ y(u) = u.x /\ x(v) = -v.y /\ y(v) = v.x
      /\ q = 2 => x(u) = -u.x /\ y(u) = -u.y /\ x(v) = -v.x /\ y(v) = -v.y
      /\ q = 3 => x(u) = u.y /\ y(u) = -u.x /\ x(v) = v.y /\ y(v) = -v.x
  BY <1>1 DEF Cos, Sin
<1>5. x(u) \in Int /\ y(u) \in Int /\ x(v) \in Int /\ y(v) \in Int
  BY <1>1, <1>4
<1> HIDE DEF x, y
<1>6. /\ Near(o.x + x(u), o.x + x(v)) /\ Near(o.y + y(u), o.y + y(v))
      /\ Near(o.z + u.z, o.z + v.z)
  BY <1>1, <1>2, <1>3, <1>5
<1> QED BY <1>1, <1>4, <1>5, <1>6 DEF Near, NearPlaces

\* "10-unit buckets cannot collide" (Paste.cpp:452-454), at any origin and in any
\* quarter turn, where pieces of different classes are ten units apart along an
\* axis of their blueprint: hundreds are not needed, and pieces of one class may
\* be as close as they like.
THEOREM SpacingKeepsBucketsApart == SpacedApart => BucketsApart
<1> SUFFICES ASSUME SpacedApart, NEW b \in Blueprints, NEW o \in Options,
                    NEW i \in DOMAIN b, NEW j \in DOMAIN b,
                    Key(RecordedLocation(b[i], o)) = Key(RecordedLocation(b[j], o))
             PROVE  b[i].cls = b[j].cls
  BY DEF BucketsApart
<1>1. b[i].at \in Location /\ b[j].at \in Location /\ o.origin \in Location /\ o.yaw \in 0..3
  BY BlueprintFacts, PasteAssumption DEF Piece, Option
<1>2. NearPlaces(b[i].at, b[j].at)
  BY <1>1, SameKeyIsNear DEF RecordedLocation
<1> QED BY <1>2 DEF SpacedApart

----------------------------------------------------------------------------
(* Where the code keeps its word after all *)

\* What a paste has placed stands as it was placed.
PiecesStand == Running => \A i \in Placed : Standing(i)

Undestroyed == "destroy" \notin Events

\* What a start makes of it: nothing is placed yet.
LEMMA FreshPieces ==
  ASSUME NEW b \in Blueprints, NEW o \in Options, StartJob(b, o)
  PROVE  PiecesStand'
<1>1. g_job'.bp = b /\ g_job'.spawned = [i \in DOMAIN b |-> NoActor]
  BY StartStep
<1>2. \A i \in 1..Len(b) : [k \in DOMAIN b |-> NoActor][i] = NoActor
  BY BlueprintFacts
<1>3. Placed' = {}
  BY <1>1, <1>2 DEF Placed, Size
<1> QED BY <1>3 DEF PiecesStand

LEMMA PiecesStandStep ==
  Undestroyed => (TypeOK /\ Accounted /\ PiecesStand /\ [Next]_vars => PiecesStand')
<1> SUFFICES ASSUME Undestroyed, TypeOK, Accounted, PiecesStand, [Next]_vars PROVE PiecesStand'
  OBVIOUS
<1>1. ASSUME NEW b \in Blueprints, NEW o \in Options, BeginPaste(b, o) PROVE PiecesStand'
  BY <1>1, BeginStep, FreshPieces
<1>2. ASSUME Running, SameJob, g_job'.spawned = g_job.spawned, world'.actors = world.actors,
             pastes' = pastes
      PROVE  PiecesStand'
  BY <1>2 DEF PiecesStand, SameJob, Placed, Size, Standing, Live
<1>3. CASE PlaceFails
  BY <1>2, <1>3, FailedStep DEF PlaceFails
<1>4. ASSUME NEW a \in Actors, PlaceStructure(a) PROVE PiecesStand'
  <2>1. /\ Placed' = Placed \cup {Current} /\ Current \notin Placed
        /\ Running /\ a \in Free /\ pastes' = pastes
        /\ g_job'.spawned = [g_job.spawned EXCEPT ![Current] = a]
        /\ Current \in 1..Size
    BY <1>4, PlacedGrows, PlacedStep
  <2>7. PICK cls \in Resolved(g_job.bp[Current]) :
          world'.actors = [world.actors EXCEPT ![a] =
            [cls |-> cls, at |-> WorldLocation(g_job.bp[Current], g_job.opts),
             owned |-> ~g_job.opts.invulnerable, paste |-> pastes, piece |-> Current]]
    BY <1>4, PlacedWorld
  <2>2. PICK s : s = [cls |-> cls,
                      at |-> WorldLocation(g_job.bp[Current], g_job.opts),
                      owned |-> ~g_job.opts.invulnerable,
                      paste |-> pastes, piece |-> Current]
    OBVIOUS
  <2>3. s \in Structure /\ s.paste = pastes /\ s.piece = Current
    <3>1. g_job.bp[Current] \in Piece /\ g_job.opts \in Option /\ Current \in Nat
      BY <2>1, JobFacts
    <3>2. WorldLocation(g_job.bp[Current], g_job.opts) \in Location
      BY <3>1, LocationType
    <3>3. cls \in Classes
      BY PasteAssumption DEF Resolved
    <3> QED BY <2>2, <3>1, <3>2, <3>3 DEF Structure, Option, TypeOK
  <2>4. /\ world'.actors = [world.actors EXCEPT ![a] = s]
        /\ world.actors \in [Actors -> Structure \cup {NoStructure}]
    BY <2>2, <2>7 DEF TypeOK, World
  <2>5. ASSUME NEW i \in Placed PROVE Standing(i)'
    <3>1. i # Current /\ g_job'.spawned[i] = g_job.spawned[i]
      BY <2>1, <2>5, JobFields
    <3>2. Standing(i) /\ g_job.spawned[i] # a /\ g_job.spawned[i] \in Actors
      BY <2>1, <2>5 DEF PiecesStand, Standing, Free, Live
    <3> QED BY <2>1, <2>4, <3>1, <3>2 DEF Standing, Live
  <2>6. ASSUME NEW i, i = Current PROVE Standing(i)'
    <3>1. g_job'.spawned[i] = a
      BY <2>1, <2>6, JobFields
    <3> QED BY <2>1, <2>3, <2>4, <2>6, <3>1, PasteAssumption DEF Standing, Live
  <2> QED BY <2>1, <2>5, <2>6 DEF PiecesStand
<1>5. CASE StartLinking
  BY <1>2, <1>5, StartLinkingStep
<1>6. CASE Linking
  BY <1>2, <1>6, LinkingStep
<1>7. CASE Quiet
  <2>1. UNCHANGED <<g_job, pastes>>
    BY <1>7, QuietStep
  <2>2. world' = world \/ \E a \in Actors, b \in Builds : BuildStructure(a, b)
    BY <1>7 DEF Quiet, TickBegin, TickEnd, SaveWorld, vars, Destroy, Undestroyed
  <2>3. ASSUME NEW a \in Actors, NEW b \in Builds, BuildStructure(a, b), NEW x \in Live
        PROVE  world'.actors[x] = world.actors[x]
    <3>1. PICK s : s = [cls |-> b.cls, at |-> b.at, owned |-> TRUE, paste |-> 0, piece |-> 0]
      OBVIOUS
    <3>2. /\ world' = [world EXCEPT !.actors[a] = s] /\ x # a /\ x \in Actors
          /\ world \in World
      BY <2>3, <3>1 DEF BuildStructure, Free, Live, TypeOK
    <3> QED BY <3>2 DEF World
  <2>4. \A x \in Live : world'.actors[x] = world.actors[x]
    BY <2>2, <2>3
  <2> QED BY <2>1, <2>4 DEF PiecesStand, Running, Placed, Size, Standing, Live
<1>8. CASE Dropping
  BY <1>8, DroppingStep DEF PiecesStand
<1> QED BY <1>1, <1>3, <1>4, <1>5, <1>6, <1>7, <1>8, Steps

\* What the link loop takes to exist does.
LEMMA NeighboursStand == TypeOK /\ PiecesStand => NeighboursExist
<1> SUFFICES ASSUME TypeOK, PiecesStand, LinkingTurn, ~PieceDone, Joinable(EdgeTarget)
             PROVE  Standing(Linked) /\ Standing(EdgeTarget)
  BY DEF NeighboursExist
<1>1. Running /\ Linked \in 1..Size
  BY LinkingFacts
<1>2. Linked \in Placed /\ EdgeTarget \in Placed
  BY <1>1 DEF PieceDone, Joinable, Placed
<1> QED BY <1>1, <1>2 DEF PiecesStand

\* Nothing but the destruction of a piece between two ticks makes the link loop
\* call through a dangling pointer: without it both neighbours of every link are
\* the actors the paste placed, whatever fails, is built, cancelled, reloaded or
\* restored (Paste.cpp:20-22, 433). The stale_link run has the destruction.
THEOREM NeighboursStay == Undestroyed => (Spec => []NeighboursExist)
<1> SUFFICES ASSUME Undestroyed PROVE Spec => []NeighboursExist
  OBVIOUS
<1>1. Init => PiecesStand
  BY DEF Init, PiecesStand, Running
<1>2. TypeOK /\ Accounted /\ PiecesStand /\ [Next]_vars => PiecesStand'
  BY PiecesStandStep
<1> QED BY <1>1, <1>2, NeighboursStand, TypeCorrect, EveryPieceAccounted, PTL DEF Spec

\* While its pieces stand, a paste has no stale pointer to follow, and no class
\* index takes it out of resolved.
LEMMA NothingStale == Indexed /\ TypeOK /\ PiecesStand => ~StaleCrash
<1> SUFFICES ASSUME Indexed, TypeOK, PiecesStand, StaleCrash PROVE FALSE
  OBVIOUS
<1>1. \A i \in Placed : Running => ~Dangling(g_job.spawned[i])
  BY DEF PiecesStand, Standing, Dangling
<1>2. CASE /\ LinkingTurn
           /\ ~PieceDone
           /\ Joinable(EdgeTarget)
           /\ \/ Dangling(g_job.spawned[Linked])
              \/ Dangling(g_job.spawned[EdgeTarget])
  <2>1. Running /\ Linked \in 1..Size
    BY <1>2, LinkingFacts
  <2>2. Linked \in Placed /\ EdgeTarget \in Placed
    BY <1>2, <2>1 DEF PieceDone, Joinable, Placed
  <2> QED BY <1>1, <1>2, <2>1, <2>2
<1>3. CASE PlacingTurn /\ Dangling(FloorOf(Current, g_job.spawned))
  <2>1. Running /\ Current \in 1..Size
    BY <1>3, PlacingFacts
  <2>2. PICK f : f = g_job.bp[Current].floor
    OBVIOUS
  <2>3. f \in DOMAIN g_job.spawned /\ Dangling(g_job.spawned[f]) /\ g_job.spawned[f] # NoActor
    BY <1>3, <2>2 DEF FloorOf, Dangling
  <2>4. f \in Placed
    BY <2>1, <2>3, JobFields DEF Placed
  <2> QED BY <1>1, <2>1, <2>3, <2>4
<1>4. CASE PlacingTurn /\ g_job.bp[Current].cls = NoClass
  <2>1. Running /\ Current \in 1..Size
    BY <1>4, PlacingFacts
  <2> QED BY <1>4, <2>1, JobFacts DEF Indexed
<1> QED BY <1>2, <1>3, <1>4 DEF StaleCrash

\* Nothing ends a paste before its time, and its record is written.
Uninterrupted ==
  /\ Undestroyed
  /\ Indexed
  /\ Events \cap {"cancel", "reload", "crash", "no_world", "disk"} = {}

\* Between pastes, a record is of the latest.
LatestKept == ~Running => \A r \in Kept : r.items # {} => r.paste = pastes

LEMMA LatestStep ==
  Uninterrupted => (TypeOK /\ PiecesStand /\ LatestKept /\ [Next]_vars => LatestKept')
<1> SUFFICES ASSUME Uninterrupted, TypeOK, PiecesStand, LatestKept, [Next]_vars PROVE LatestKept'
  OBVIOUS
<1>1. ASSUME NEW b \in Blueprints, NEW o \in Options, BeginPaste(b, o) PROVE LatestKept'
  BY <1>1, BeginStep, StartStep DEF LatestKept
<1>2. CASE PlaceFails
  BY <1>2, PlaceFailsTypes DEF LatestKept
<1>3. ASSUME NEW a \in Actors, PlaceStructure(a) PROVE LatestKept'
  BY <1>3, PlaceStructureTypes DEF LatestKept
<1>4. CASE StartLinking
  BY <1>4, StartLinkingTypes DEF LatestKept
<1>5. CASE Linking
  BY <1>5, NextPieceTypes, SkipEdgeTypes, LinkEdgeTypes DEF LatestKept, Linking
<1>6. CASE Quiet
  BY <1>6, QuietStep DEF LatestKept, Running, Kept
<1>7. CASE Dropping
  <2>1. FinishJob \/ UndoLastPaste \/ UndoNothing
    BY <1>7, NothingStale DEF Dropping, Uninterrupted, CancelPaste, TickNoWorld, Reload,
       ProcessEnds, Crash, CrashWhileSaving
  <2>2. CASE FinishJob
    <3>1. g_last' = Record(g_job) /\ disk' = File(Record(g_job)) /\ pastes' = pastes
      BY <2>2 DEF FinishJob, PersistUndo, Uninterrupted
    <3>2. \A r \in Kept' : r.paste = pastes
      BY <3>1 DEF Kept, File, Record
    <3> QED BY <3>1, <3>2 DEF LatestKept
  <2>3. CASE UndoLastPaste
    <3>1. g_last' = NoRecord /\ disk' = NoFile
      BY <2>3 DEF UndoLastPaste, Uninterrupted
    <3>2. \A r \in Kept' : r.items = {}
      BY <3>1 DEF Kept, NoFile, NoRecord
    <3> QED BY <3>2 DEF LatestKept
  <2>4. CASE UndoNothing
    BY <2>4 DEF UndoNothing, UndoRecord, LatestKept, Running, Kept
  <2> QED BY <2>1, <2>2, <2>3, <2>4
<1> QED BY <1>1, <1>2, <1>3, <1>4, <1>5, <1>6, <1>7, Steps

\* If every paste that is begun is ended and recorded, undo takes the latest:
\* players may build, spawns fail and the world be saved, but nothing destroys,
\* cancels, reloads, crashes, loses the world or the file, and no class index is
\* out of range (Paste.h:52, Paste.cpp:440-449).
\* The undo_after_cancel run has a cancel.
THEOREM UndoOfTheLatest == Uninterrupted => (Spec => []UndoTakesLatest)
<1> SUFFICES ASSUME Uninterrupted PROVE Spec => []UndoTakesLatest
  OBVIOUS
<1>1. Init => PiecesStand /\ LatestKept
  BY DEF Init, PiecesStand, LatestKept, Running, Kept, NoRecord, NoFile
<1>2. TypeOK /\ Accounted /\ PiecesStand /\ LatestKept /\ [Next]_vars => (PiecesStand /\ LatestKept)'
  BY PiecesStandStep, LatestStep DEF Uninterrupted
<1>3. LatestKept => UndoTakesLatest
  BY DEF LatestKept, UndoTakesLatest, UndoAllowed, UndoRecord, Kept, Named
<1> QED BY <1>1, <1>2, <1>3, TypeCorrect, EveryPieceAccounted, PTL DEF Spec

----------------------------------------------------------------------------
(* The order of placement *)

\* The placement order goes through all pieces.
LEMMA OrderCovers ==
  ASSUME TypeOK, Running, NEW i \in 1..Size
  PROVE  \E k \in 1..Size : g_job.order[k] = i
<1>1. Size \in Nat /\ g_job.order \in [1..Size -> 1..Size]
  BY JobFields
<1>2. \A k, l \in 1..Size : g_job.order[k] = g_job.order[l] => k = l
  BY OrderFacts
<1>3. g_job.order \in Injection(1..Size, 1..Size)
  BY <1>1, <1>2 DEF Injection, IsInjective
<1>4. IsFiniteSet(1..Size)
  BY <1>1, FS_Interval
<1>5. g_job.order \in Surjection(1..Size, 1..Size)
  BY <1>3, <1>4, FS_Injection
<1> QED BY <1>5 DEF Surjection

\* What the placing loop takes next has not been tried, and nothing lower is
\* left to try.
LEMMA NextIsLowest ==
  ASSUME TypeOK, Running, g_job.cursor < Size
  PROVE  /\ Current \in 1..Size \ PromisedTried
         /\ \A j \in 1..Size \ PromisedTried : g_job.bp[Current].at.z <= g_job.bp[j].at.z
<1>1. /\ Size \in Nat /\ g_job.order \in [1..Size -> 1..Size] /\ g_job.cursor \in 0..Size
      /\ g_job.cursor + 1 \in 1..Size
  BY JobFields
<1>2. Current \in 1..Size
  BY <1>1 DEF Current
<1>3. Current \notin PromisedTried
  <2>1. SUFFICES ASSUME NEW k \in 1..g_job.cursor, g_job.order[k] = Current PROVE FALSE
    BY DEF PromisedTried
  <2>2. k \in 1..Size /\ k # g_job.cursor + 1
    BY <1>1
  <2>3. g_job.order[k] # g_job.order[g_job.cursor + 1]
    BY <1>1, <2>2, OrderFacts
  <2> QED BY <2>1, <2>3 DEF Current
<1>4. ASSUME NEW j \in 1..Size \ PromisedTried
      PROVE  g_job.bp[Current].at.z <= g_job.bp[j].at.z
  <2>1. PICK k \in 1..Size : g_job.order[k] = j
    BY OrderCovers
  <2>2. k > g_job.cursor
    <3>1. k \notin 1..g_job.cursor
      BY <1>4, <2>1 DEF PromisedTried
    <3> QED BY <1>1, <3>1
  <2>3. CASE k = g_job.cursor + 1
    <3>1. j = Current /\ g_job.bp[j].at.z \in Int
      BY <1>4, <2>1, <2>3, JobFacts DEF Current, Piece, Location
    <3> QED BY <3>1
  <2>4. CASE g_job.cursor + 1 < k
    BY <1>1, <2>1, <2>4, OrderFacts DEF Current
  <2> QED BY <1>1, <2>2, <2>3, <2>4
<1> QED BY <1>2, <1>3, <1>4

\* One more turn of the placing loop is one more piece tried.
LEMMA OneMoreTried ==
  ASSUME TypeOK, Running, Running', SameJob, g_job.cursor < Size,
         g_job'.cursor = g_job.cursor + 1
  PROVE  PromisedTried' = PromisedTried \cup {Current}
<1>1. g_job.cursor \in 0..Size /\ Size \in Nat
  BY JobFields
<1>2. 1..(g_job.cursor + 1) = (1..g_job.cursor) \cup {g_job.cursor + 1}
  BY <1>1
<1> QED BY <1>2 DEF PromisedTried, Current, SameJob

\* Past the last piece, all have been tried.
LEMMA AllTried ==
  ASSUME TypeOK, Running, g_job.cursor >= Size
  PROVE  PromisedTried = 1..Size
<1>1. /\ Size \in Nat /\ g_job.order \in [1..Size -> 1..Size] /\ g_job.cursor = Size
  BY JobFields
<1>2. \A i \in 1..Size : \E k \in 1..Size : g_job.order[k] = i
  BY OrderCovers
<1> QED BY <1>1, <1>2 DEF PromisedTried

\* While pieces are placed, no edge has been taken.
LEMMA PlacingTakesNone ==
  ASSUME TypeOK, Running, g_job.phase = "Placing"
  PROVE  Taken = {}
<1>1. g_job.bp \in Blueprints /\ g_job.link_cursor = 0 /\ g_job.link_sub = 0
  BY JobFacts DEF TypeOK, IndexesInRange
<1>2. ASSUME NEW e \in Edges(g_job.bp) PROVE ~(e[1] <= 0) /\ ~(e[2] <= 0)
  <2>1. e[1] \in 1..Len(g_job.bp) /\ e[2] \in 1..Len(g_job.bp[e[1]].links)
    BY <1>1, EdgeFacts
  <2> QED BY <2>1
<1> QED BY <1>1, <1>2 DEF Taken

\* Past the last piece, all edges have been taken.
LEMMA AllTaken ==
  ASSUME TypeOK, Running, g_job.link_cursor >= Size
  PROVE  Taken = Edges(g_job.bp)
<1>1. g_job.bp \in Blueprints /\ g_job.link_cursor \in 0..Size /\ Size = Len(g_job.bp)
  BY JobFacts, JobFields DEF Size
<1>2. ASSUME NEW e \in Edges(g_job.bp) PROVE e[1] <= g_job.link_cursor
  <2>1. e[1] \in 1..Len(g_job.bp)
    BY <1>1, EdgeFacts
  <2> QED BY <1>1, <2>1, JobFields
<1> QED BY <1>2 DEF Taken

----------------------------------------------------------------------------
(* The mapping *)

\* The promised state while a paste runs.
LEMMA PromisedRunning ==
  ASSUME TypeOK, Running
  PROVE  /\ PromisedPlan = g_job.bp /\ PromisedPlan # NoJob
         /\ PromisedShowcase = g_job.opts.invulnerable
         /\ PromisedPlaced = Placed
         /\ PromisedJoined = JoinableEdges \cap Taken
         /\ P!Pieces = 1..Size
         /\ P!Sound = JoinableEdges
<1>1. /\ g_job.bp \in Blueprints /\ g_job.opts.invulnerable \in BOOLEAN
      /\ DOMAIN g_job.bp = 1..Size
  BY JobFacts DEF Option
<1>2. PromisedPlan = g_job.bp /\ PromisedPlan # NoJob
  BY <1>1, PromiseAssumption DEF PromisedPlan
<1>3. P!Pieces = 1..Size
  BY <1>1, <1>2 DEF P!Pieces
<1>4. PromisedPlaced = Placed
  BY DEF PromisedPlaced
<1>5. P!Sound = JoinableEdges
  BY <1>1, <1>2, <1>3, <1>4 DEF P!Sound, JoinableEdges, Edges
<1>6. PromisedJoined = JoinableEdges \cap Taken
  BY DEF PromisedJoined
<1> QED BY <1>1, <1>2, <1>3, <1>4, <1>5, <1>6 DEF PromisedShowcase

LEMMA PromisedIdle ==
  ~Running => /\ PromisedPlan = NoJob /\ PromisedShowcase = FALSE
              /\ PromisedTried = {} /\ PromisedPlaced = {} /\ PromisedJoined = {}
  BY DEF PromisedPlan, PromisedShowcase, PromisedTried, PromisedPlaced, PromisedJoined

LEMMA PromisedIdleNext ==
  ~Running' => /\ PromisedPlan' = NoJob /\ PromisedShowcase' = FALSE
               /\ PromisedTried' = {} /\ PromisedPlaced' = {} /\ PromisedJoined' = {}
  BY DEF PromisedPlan, PromisedShowcase, PromisedTried, PromisedPlaced, PromisedJoined

\* What is remembered does not change when memory is lost and the file is not.
LEMMA MemoryMayGo ==
  ASSUME UndoSurvivesReload, g_last' \in {g_last, NoRecord}, disk' = disk
  PROVE  PromisedRecord' = PromisedRecord
<1>1. UndoRecord' = UndoRecord
  BY DEF UndoSurvivesReload, UndoRecord, NoRecord, File
<1> QED BY <1>1 DEF PromisedRecord

\* Nothing is remembered once memory and file are empty.
LEMMA NothingLeft ==
  ASSUME g_last' = NoRecord, disk' \in {NoFile, TornFile}
  PROVE  PromisedRecord' = P!Nothing
<1>1. UndoRecord' = NoRecord
  BY DEF UndoRecord, NoRecord, NoFile, TornFile
<1> QED BY <1>1 DEF PromisedRecord, P!Nothing, NoRecord

----------------------------------------------------------------------------
(* The steps *)

\* A paste begins, and nothing of it has been tried.
LEMMA BeginsAsPromised ==
  ASSUME UndoSurvivesReload, ~Running,
         NEW b \in Blueprints, NEW o \in Options, StartJob(b, o), disk' = disk
  PROVE  P!Begin(b, o.invulnerable) /\ o.invulnerable \in BOOLEAN
<1>1. /\ Running' /\ g_job'.bp = b /\ g_job'.opts = o
      /\ g_job'.cursor = 0 /\ g_last' = NoRecord /\ pastes' = pastes + 1
  BY StartStep
<1>2. o.invulnerable \in BOOLEAN
  BY PasteAssumption DEF Option
<1>3. PromisedPlan' = b /\ PromisedShowcase' = o.invulnerable
  BY <1>1, <1>2 DEF PromisedPlan, PromisedShowcase
<1>4. PromisedTried' = {}
  BY <1>1 DEF PromisedTried
<1>5. PromisedPlaced' = {} /\ PromisedJoined' = {}
  BY FreshCounts, FreshLinks DEF PromisedPlaced, PromisedJoined
<1>6. PromisedRecord' = PromisedRecord
  BY <1>1, MemoryMayGo
<1> QED BY <1>1, <1>2, <1>3, <1>4, <1>5, <1>6, PromisedIdle DEF P!Begin

\* What a step inside a job leaves alone.
LEMMA SameJobPromised ==
  ASSUME Running, Running', SameJob, UNCHANGED <<g_last, disk, pastes>>
  PROVE  /\ PromisedPlan' = PromisedPlan /\ PromisedShowcase' = PromisedShowcase
         /\ pastes' = pastes /\ PromisedRecord' = PromisedRecord
  BY DEF PromisedPlan, PromisedShowcase, SameJob, PromisedRecord, UndoRecord

\* A turn of the placing loop, whichever way it goes, tries the next piece.
LEMMA TriesAsPromised ==
  ASSUME TypeOK, TypeOK', Accounted,
         PlaceFails \/ \E a \in Actors : PlaceStructure(a)
  PROVE  P!Try(Current) /\ Current \in P!Pieces
<1>1. /\ Running /\ SameJob /\ UNCHANGED <<g_last, disk, pastes>>
      /\ g_job.phase = "Placing" /\ g_job'.phase = "Placing" /\ g_job.cursor < Size
      /\ g_job'.cursor = g_job.cursor + 1
  BY FailedStep, PlacedStep
<1>2. Running'
  BY PlaceFailsTypes, PlaceStructureTypes
<1>3. Placed' \in {Placed, Placed \cup {Current}}
  <2>1. CASE PlaceFails
    BY <1>1, <2>1, FailedStep DEF Placed, Size, SameJob
  <2>2. ASSUME NEW a \in Actors, PlaceStructure(a) PROVE Placed' = Placed \cup {Current}
    BY <2>2, PlacedGrows
  <2> QED BY <2>1, <2>2
<1>4. PromisedPlaced' \in {PromisedPlaced, PromisedPlaced \cup {Current}}
  BY <1>1, <1>2, <1>3 DEF PromisedPlaced
<1>5. PromisedJoined' = {} /\ PromisedJoined = {}
  <2>1. Taken = {}
    BY <1>1, PlacingTakesNone
  <2>2. g_job'.bp \in Blueprints /\ g_job'.link_cursor = 0 /\ g_job'.link_sub = 0
    BY <1>1, <1>2, JobFacts, FailedStep, PlacedStep DEF SameJob
  <2>3. Taken' = {}
    BY <2>2, NoneTaken
  <2> QED BY <2>1, <2>3 DEF PromisedJoined
<1>6. PromisedTried' = PromisedTried \cup {Current}
  BY <1>1, <1>2, OneMoreTried
<1>7. /\ Current \in 1..Size \ PromisedTried
      /\ \A j \in 1..Size \ PromisedTried : g_job.bp[Current].at.z <= g_job.bp[j].at.z
  BY <1>1, NextIsLowest
<1>8. PromisedPlan = g_job.bp /\ PromisedPlan # NoJob /\ P!Pieces = 1..Size
  BY <1>1, PromisedRunning
<1>9. /\ PromisedPlan' = PromisedPlan /\ PromisedShowcase' = PromisedShowcase
      /\ pastes' = pastes /\ PromisedRecord' = PromisedRecord
  BY <1>1, <1>2, SameJobPromised
<1> QED BY <1>4, <1>5, <1>6, <1>7, <1>8, <1>9 DEF P!Try

\* A turn of the link loop joins one edge, or none.
LEMMA JoinsAsPromised ==
  ASSUME TypeOK, LinkTally, Linking
  PROVE  (\E e \in P!Sound : P!Join(e)) \/ UNCHANGED P!promiseVars
<1>1. /\ Running /\ SameJob /\ UNCHANGED <<g_last, disk, pastes>>
      /\ LinkingTurn /\ g_job'.spawned = g_job.spawned /\ g_job'.cursor = g_job.cursor
  BY LinkingStep
<1>2. Running'
  BY NextPieceTypes, SkipEdgeTypes, LinkEdgeTypes DEF Linking
<1>3. g_job.phase = "Linking" /\ g_job.cursor = Size /\ ~g_job.opts.invulnerable
  BY <1>1, LinkingFacts DEF LinkTally
<1>4. PromisedPlaced' = PromisedPlaced /\ PromisedTried' = PromisedTried
  BY <1>1, <1>2 DEF PromisedPlaced, PromisedTried, Placed, Size, SameJob
<1>5. /\ PromisedPlan' = PromisedPlan /\ PromisedShowcase' = PromisedShowcase
      /\ pastes' = pastes /\ PromisedRecord' = PromisedRecord
  BY <1>1, <1>2, SameJobPromised
<1>6. /\ PromisedPlan # NoJob /\ PromisedShowcase = FALSE
      /\ PromisedJoined = JoinableEdges \cap Taken
      /\ P!Pieces = 1..Size /\ P!Sound = JoinableEdges
  BY <1>1, <1>3, PromisedRunning
<1>7. PromisedJoined' = JoinableEdges' \cap Taken'
  BY <1>2 DEF PromisedJoined
<1>8. PromisedTried = P!Pieces
  <2>1. g_job.cursor >= Size
    BY <1>1, <1>3, JobFields
  <2> QED BY <1>1, <1>6, <2>1, AllTried
<1>9. CASE NextPiece \/ SkipEdge
  <2>1. PromisedJoined' = PromisedJoined
    BY <1>6, <1>7, <1>9, JoinsGrow
  <2> QED BY <1>4, <1>5, <2>1 DEF P!promiseVars
<1>10. CASE LinkEdge
  <2>1. PICK e : e = <<Linked, g_job.link_sub + 1>>
    OBVIOUS
  <2>2. e \in P!Sound \ PromisedJoined /\ PromisedJoined' = PromisedJoined \cup {e}
    BY <1>6, <1>7, <1>10, <2>1, JoinsGrow
  <2>3. P!Join(e)
    BY <1>4, <1>5, <1>6, <1>8, <2>2 DEF P!Join
  <2> QED BY <2>2, <2>3
<1> QED BY <1>9, <1>10 DEF Linking

\* Before the links, nothing changes that was promised.
LEMMA LinkingStartsUnseen ==
  ASSUME TypeOK, StartLinking
  PROVE  UNCHANGED P!promiseVars
<1>1. /\ Running /\ SameJob /\ UNCHANGED <<g_last, disk, pastes>>
      /\ g_job.phase = "Placing" /\ g_job'.link_cursor = 0 /\ g_job'.link_sub = 0
      /\ g_job'.spawned = g_job.spawned /\ g_job'.cursor = g_job.cursor
  BY StartLinkingStep
<1>2. Running'
  BY StartLinkingTypes
<1>3. PromisedPlaced' = PromisedPlaced /\ PromisedTried' = PromisedTried
  BY <1>1, <1>2 DEF PromisedPlaced, PromisedTried, Placed, Size, SameJob
<1>4. /\ PromisedPlan' = PromisedPlan /\ PromisedShowcase' = PromisedShowcase
      /\ pastes' = pastes /\ PromisedRecord' = PromisedRecord
  BY <1>1, <1>2, SameJobPromised
<1>5. PromisedJoined = {}
  BY <1>1, PlacingTakesNone DEF PromisedJoined
<1>6. g_job'.bp \in Blueprints
  BY <1>1, JobFacts DEF SameJob
<1>7. PromisedJoined' = {}
  BY <1>1, <1>6, NoneTaken DEF PromisedJoined
<1> QED BY <1>3, <1>4, <1>5, <1>7 DEF P!promiseVars

\* When the job is over, all that was promised has been done.
LEMMA OverIsDone ==
  ASSUME TypeOK, LinkTally, left # Idle, AllPlaced \/ AllLinked
  PROVE  P!Done
<1>1. Running
  BY DEF TypeOK
<1>2. g_job.cursor >= Size
  BY <1>1, JobFields DEF AllPlaced, AllLinked, TypeOK, IndexesInRange
<1>3. /\ PromisedPlan # NoJob /\ PromisedShowcase = g_job.opts.invulnerable
      /\ PromisedJoined = JoinableEdges \cap Taken
      /\ P!Pieces = 1..Size /\ P!Sound = JoinableEdges
      /\ g_job.opts.invulnerable \in BOOLEAN
  BY <1>1, PromisedRunning, JobFacts DEF Option
<1>4. PromisedTried = P!Pieces
  BY <1>1, <1>2, <1>3, AllTried
<1>5. PromisedJoined = IF PromisedShowcase THEN {} ELSE P!Sound
  <2>1. CASE AllPlaced
    BY <1>1, <1>3, <2>1, PlacingTakesNone DEF AllPlaced
  <2>2. CASE AllLinked
    <3>1. ~g_job.opts.invulnerable
      BY <1>1, <2>2 DEF AllLinked, LinkTally
    <3>2. Taken = Edges(g_job.bp)
      BY <1>1, <2>2, AllTaken DEF AllLinked
    <3>3. JoinableEdges \cap Taken = JoinableEdges
      BY <3>2 DEF JoinableEdges
    <3> QED BY <1>3, <3>1, <3>3
  <2> QED BY <2>1, <2>2
<1> QED BY <1>3, <1>4, <1>5 DEF P!Done

\* The end of a paste: it is remembered as a whole.
LEMMA CompletesAsPromised ==
  ASSUME TypeOK, LinkTally, "disk" \notin Events, FinishJob
  PROVE  P!Complete
<1>1. /\ Running /\ ~Running' /\ pastes' = pastes
      /\ g_last' = Record(g_job) /\ disk' = File(Record(g_job))
  BY DEF FinishJob, PersistUndo, Running, TypeOK
<1>2. UndoRecord' = Record(g_job)
  BY <1>1 DEF UndoRecord, File
<1>3. {it.piece : it \in Record(g_job).items} = Placed
  <2>1. DOMAIN g_job.bp = 1..Size
    BY <1>1, JobFacts
  <2> DEFINE item(i) == [piece |-> i, cls |-> g_job.bp[i].cls,
                         at |-> RecordedLocation(g_job.bp[i], g_job.opts)]
  <2>2. Record(g_job).items = {item(i) : i \in Placed}
    BY <2>1 DEF Record, Placed
  <2>3. \A i : item(i).piece = i
    OBVIOUS
  <2> HIDE DEF item
  <2> QED BY <2>2, <2>3
<1>4. PromisedRecord' = [paste |-> pastes, pieces |-> PromisedPlaced]
  <2>1. PromisedRecord' = [paste |-> Record(g_job).paste,
                           pieces |-> {it.piece : it \in Record(g_job).items}]
    BY <1>2 DEF PromisedRecord
  <2>2. Record(g_job).paste = pastes /\ PromisedPlaced = Placed
    BY <1>1 DEF Record, PromisedPlaced
  <2> QED BY <1>3, <2>1, <2>2
<1>5. P!Done
  BY OverIsDone DEF FinishJob
<1> QED BY <1>1, <1>4, <1>5, PromisedIdleNext DEF P!Complete, P!Over

\* What ends a paste early, or ends the process: the paste is given up and
\* what was remembered before is still, or is lost while it is written.
LEMMA EndsAsPromised ==
  ASSUME TypeOK, LinkTally, UndoSurvivesReload,
         CancelPaste \/ TickNoWorld \/ Reload \/ ProcessEnds
  PROVE  P!GiveUp \/ P!CompleteForgotten \/ UNCHANGED P!promiseVars
<1>1. ~Running' /\ pastes' = pastes
  BY DroppingStep DEF Dropping
<1>2. CASE CrashWhileSaving
  <2>1. PromisedRecord' = P!Nothing
    BY <1>2, NothingLeft DEF CrashWhileSaving, Restarted
  <2>2. P!Done
    BY <1>2, OverIsDone DEF CrashWhileSaving
  <2> QED BY <1>1, <2>1, <2>2, PromisedIdleNext DEF P!CompleteForgotten, P!Over
<1>3. CASE ~CrashWhileSaving
  <2>1. g_last' \in {g_last, NoRecord} /\ disk' = disk
    BY <1>3 DEF CancelPaste, TickNoWorld, Reload, ProcessEnds, Crash, StaleCrash, Restarted
  <2>2. PromisedRecord' = PromisedRecord
    BY <2>1, MemoryMayGo
  <2>3. CASE Running
    BY <1>1, <2>2, <2>3, PromisedRunning, PromisedIdleNext DEF P!GiveUp, P!Over
  <2>4. CASE ~Running
    BY <1>1, <2>2, <2>4, PromisedIdle, PromisedIdleNext DEF P!promiseVars
  <2> QED BY <2>3, <2>4
<1> QED BY <1>2, <1>3

LEMMA UndoesAsPromised ==
  ASSUME TypeOK, "disk" \notin Events, UndoLastPaste
  PROVE  P!Undo
<1>1. ~Running /\ ~Running' /\ UndoRecord.items # {}
  BY DEF UndoLastPaste, UndoAllowed, Running, Named
<1>2. pastes' = pastes /\ g_last' = NoRecord /\ disk' = NoFile
  BY DEF UndoLastPaste
<1>3. PromisedRecord' = P!Nothing
  BY <1>2, NothingLeft
<1>4. PromisedRecord.pieces # {}
  BY <1>1 DEF PromisedRecord
<1> QED BY <1>1, <1>2, <1>3, <1>4, PromisedIdle, PromisedIdleNext DEF P!Undo

\* An undo that finds nothing to do leaves what is remembered, though it may
\* move it from the file to memory.
LEMMA NothingUndone ==
  ASSUME UndoNothing
  PROVE  UNCHANGED P!promiseVars
<1>1. ~Running /\ ~Running' /\ pastes' = pastes
  BY DEF UndoNothing, Running
<1>2. UndoRecord' = UndoRecord
  BY DEF UndoNothing, UndoRecord
<1> QED BY <1>1, <1>2, PromisedIdle, PromisedIdleNext DEF P!promiseVars, PromisedRecord

LEMMA EachStepPromised ==
  ASSUME TypeOK, TypeOK', Accounted, LinkTally, UndoSurvivesReload,
         "disk" \notin Events, [Next]_vars
  PROVE  [P!PromiseNext]_(P!promiseVars)
<1>1. ASSUME NEW b \in Blueprints, NEW o \in Options, BeginPaste(b, o) PROVE P!PromiseNext
  BY <1>1, BeginStep, BeginsAsPromised DEF P!PromiseNext
<1>2. CASE PlaceFails \/ \E a \in Actors : PlaceStructure(a)
  BY <1>2, TriesAsPromised DEF P!PromiseNext
<1>3. CASE StartLinking
  BY <1>3, LinkingStartsUnseen
<1>4. CASE Linking
  BY <1>4, JoinsAsPromised DEF P!PromiseNext
<1>5. CASE Quiet
  <2>1. UNCHANGED <<g_job, g_last, disk, pastes>>
    BY <1>5, QuietStep
  <2> QED BY <2>1
  DEF P!promiseVars, PromisedPlan, PromisedShowcase, PromisedTried, PromisedPlaced, PromisedJoined,
      PromisedRecord, UndoRecord, Running, Placed, Taken, JoinableEdges, Size, Linked
<1>6. CASE Dropping
  BY <1>6, CompletesAsPromised, EndsAsPromised, UndoesAsPromised, NothingUndone
  DEF Dropping, P!PromiseNext
<1> QED BY <1>1, <1>2, <1>3, <1>4, <1>5, <1>6, Steps

LEMMA PromisedAtFirst == Init => P!PromiseInit
<1> SUFFICES ASSUME Init PROVE P!PromiseInit
  OBVIOUS
<1>1. ~Running /\ UndoRecord = NoRecord /\ pastes = 0
  BY DEF Init, Running, UndoRecord, NoFile, NoRecord
<1>2. PromisedRecord = P!Nothing
  BY <1>1 DEF PromisedRecord, P!Nothing, NoRecord
<1> QED BY <1>1, <1>2, PromisedIdle DEF P!PromiseInit, P!Start

\* While undo.gz can be written and removed, the engine of TickPaste, FinishJob
\* and UndoLastPaste keeps its promise for every blueprint, budget and order of
\* failures, cancels, reloads and crashes: each piece is tried once and from the
\* bottom up, no edge is joined before the last piece has been tried, and the
\* last paste that completed is remembered until it is undone
\* (Paste.cpp:280-438, 440-505).
THEOREM PasteKeepsPromise == "disk" \notin Events => (Spec => KeepsPromise)
<1> SUFFICES ASSUME "disk" \notin Events PROVE Spec => KeepsPromise
  OBVIOUS
<1>1. Init => P!PromiseInit
  BY PromisedAtFirst
<1>2. Init => LinkTally
  BY DEF Init, LinkTally, Running
<1>3. Spec => []LinkTally
  BY <1>2, LinkTallyStep, TypeCorrect, PTL DEF Spec
<1>4. Spec => []UndoSurvivesReload
  BY ReloadKeepsUndo
<1>5. TypeOK /\ TypeOK' /\ Accounted /\ LinkTally /\ UndoSurvivesReload /\ [Next]_vars =>
        [P!PromiseNext]_(P!promiseVars)
  BY EachStepPromised
<1> QED BY <1>1, <1>3, <1>4, <1>5, TypeCorrect, EveryPieceAccounted, PTL
        DEF Spec, KeepsPromise, P!Promise

----------------------------------------------------------------------------
(* The footprint *)

\* The extent of a blueprint is the greatest of its pieces' offsets.
LEMMA ExtentIsGreatest ==
  ASSUME NEW b \in Blueprints, b # <<>>, NEW axis \in {"x", "y"}
  PROVE  /\ Extent(b, axis) \in Int
         /\ \A i \in DOMAIN b : b[i].at[axis] <= Extent(b, axis)
<1> DEFINE v(i) == b[i].at[axis]
           tops(n) == {m \in {v(i) : i \in 1..n} : \A i \in 1..n : v(i) <= m}
           good == {n \in 1..Len(b) : tops(n) # {}}
<1>1. /\ Len(b) \in Nat \ {0} /\ DOMAIN b = 1..Len(b)
      /\ \A i \in 1..Len(b) : v(i) \in Int
  <2>1. \A i \in 1..Len(b) : b[i].at \in Location
    BY BlueprintFacts DEF Piece
  <2>2. Len(b) # 0
    BY BlueprintFacts
  <2> QED BY <2>1, <2>2, BlueprintFacts DEF Location
<1> HIDE DEF v
<1>2. 1 \in good
  <2>1. \A i \in 1..1 : i = 1
    OBVIOUS
  <2>2. 1 \in 1..1 /\ v(1) \in Int
    BY <1>1
  <2>3. v(1) \in tops(1)
    BY <2>1, <2>2
  <2> QED BY <1>1, <2>3
<1>3. ASSUME NEW n \in good, n < Len(b) PROVE n + 1 \in good
  <2>1. PICK m \in tops(n) : TRUE
    OBVIOUS
  <2>2. n + 1 \in 1..Len(b) /\ v(n + 1) \in Int /\ m \in Int
    <3>1. n \in 1..Len(b)
      OBVIOUS
    <3>2. PICK j \in 1..n : m = v(j)
      OBVIOUS
    <3>3. j \in 1..Len(b) /\ n + 1 \in 1..Len(b)
      BY <1>1, <1>3, <3>1, <3>2
    <3> QED BY <1>1, <3>2, <3>3
  <2>3. CASE v(n + 1) <= m
    <3>1. m \in tops(n + 1)
      BY <1>1, <1>3, <2>1, <2>2, <2>3
    <3> QED BY <2>2, <3>1
  <2>4. CASE m < v(n + 1)
    <3>1. v(n + 1) \in tops(n + 1)
      BY <1>1, <1>3, <2>1, <2>2, <2>4
    <3> QED BY <2>2, <3>1
  <2>5. v(n + 1) <= m \/ m < v(n + 1)
    BY <2>2
  <2> HIDE DEF good, tops
  <2> QED BY <2>3, <2>4, <2>5
<1>4. good \subseteq 0..Len(b)
  BY <1>1
<1> HIDE DEF good
<1>5. PICK n \in good : \A k \in good : k <= n
  BY <1>1, <1>2, <1>4, GreatestNatural
<1>6. n = Len(b)
  <2>1. n \in 1..Len(b)
    BY <1>5 DEF good
  <2>2. ~(n < Len(b))
    BY <1>3, <1>5, <2>1
  <2>3. Len(b) \in Nat
    BY <1>1
  <2> HIDE DEF tops
  <2> QED BY <2>1, <2>2, <2>3
<1>7. PICK m \in tops(Len(b)) : TRUE
  BY <1>5, <1>6 DEF good
<1>8. /\ Extent(b, axis) \in {v(i) : i \in DOMAIN b}
      /\ \A i \in DOMAIN b : v(i) <= Extent(b, axis)
  BY <1>1, <1>7 DEF Extent, v
<1>9. Extent(b, axis) \in Int
  BY <1>1, <1>8
<1> QED BY <1>8, <1>9 DEF v

LEMMA CornerType ==
  ASSUME NEW b \in Blueprints, b # <<>>, NEW o \in Options, NEW k \in Corners
  PROVE  Corner(b, o, k) \in Location
<1>1. Extent(b, "x") \in Int /\ Extent(b, "y") \in Int
  BY ExtentIsGreatest
<1>2. o.origin \in Location /\ o.yaw \in 0..3
  BY PasteAssumption DEF Option
<1>3. Cos(o.yaw) \in Int /\ Sin(o.yaw) \in Int
  BY <1>2 DEF Cos, Sin
<1> DEFINE local == [x |-> IF k \in {2, 3} THEN Extent(b, "x") ELSE 0,
                     y |-> IF k \in {3, 4} THEN Extent(b, "y") ELSE 0,
                     z |-> 0]
<1>4. local \in Location
  BY <1>1 DEF Location
<1> HIDE DEF local
<1>5. RotateAroundZ(local, o.yaw) \in Location
  BY <1>3, <1>4 DEF RotateAroundZ, Location
<1>6. Translate(RotateAroundZ(local, o.yaw), o.origin) \in Location
  BY <1>2, <1>5 DEF Translate, Location
<1> QED BY <1>6 DEF Corner, local

LEMMA MarkerType ==
  ASSUME NEW b \in Blueprints, b # <<>>, NEW o \in Options, NEW k \in Corners,
         NEW c \in Classes, NEW admin \in Admins
  PROVE  Marker(c, b, o, k, admin) \in Structure /\ Marker(c, b, o, k, admin) # NoStructure
<1>1. Marker(c, b, o, k, admin) \in Structure
  BY CornerType, PluginAssumption DEF Marker, Structure
<1> QED BY <1>1, PasteAssumption

----------------------------------------------------------------------------
(* Markers *)

\* The classes previews of these blueprints are marked with.
MarkerClasses == UNION {ResolveMarkerClass(b) : b \in Blueprints}

\* No blueprint has a piece of a class that is used as a marker.
MarkersApart == MarkerClasses \cap PastedClasses = {}

LEMMA MarkerClassesLoad == MarkerClasses \subseteq Classes
<1>1. ASSUME NEW b \in Blueprints, NEW c \in ResolveMarkerClass(b) PROVE c \in Loadable
  <2> DEFINE tried == MarkerCandidates \o [i \in DOMAIN b |-> b[i].cls]
  <2>1. ResolveMarkerClass(b) =
          {tried[i] : i \in {j \in DOMAIN tried : /\ tried[j] \in Loadable
                                                /\ \A k \in 1..(j - 1) : tried[k] \notin Loadable}}
    BY DEF ResolveMarkerClass
  <2> HIDE DEF tried
  <2> QED BY <2>1
<1> QED BY <1>1, PasteAssumption DEF MarkerClasses

\* A marker as it was spawned: it stands for its admin, and is nobody's.
Held(a, admin) ==
  /\ IsMarker(a, admin)
  /\ ~world.actors[a].owned
  /\ world.actors[a].cls \in MarkerClasses

\* Marking the corners puts markers where nothing stood, and changes nothing
\* else.
LEMMA MarkingFacts ==
  ASSUME NEW w \in World, NEW b \in Blueprints, b # <<>>, NEW o \in Options, NEW admin \in Admins,
         NEW c \in ResolveMarkerClass(b), NEW free, free = {a \in Actors : w.actors[a] = NoStructure},
         NEW f \in Spawns(free), NEW new, new = WithMarkers(w, f, c, b, o, admin)
  PROVE  /\ new \in World /\ new.linked = w.linked /\ new.mounted = w.mounted
         /\ {f[k] : k \in Corners} \ {NoActor} \subseteq free
         /\ \A a \in Actors :
              \/ /\ a \notin {f[k] : k \in Corners}
                 /\ new.actors[a] = w.actors[a]
              \/ /\ a \in {f[k] : k \in Corners} \ {NoActor} /\ a \in free
                 /\ \E k \in Corners : new.actors[a] = Marker(c, b, o, k, admin)
<1> DEFINE placed == [a \in Actors |-> IF \E k \in Corners : f[k] = a
                        THEN Marker(c, b, o, CHOOSE k \in Corners : f[k] = a, admin)
                        ELSE w.actors[a]]
<1>1. c \in Classes
  BY MarkerClassesLoad DEF MarkerClasses
<1>2. f \in [Corners -> free \cup {NoActor}] /\ NoActor \notin Actors /\ free \subseteq Actors
  BY PasteAssumption DEF Spawns
<1>3. \A a \in Actors : \/ /\ a \notin {f[k] : k \in Corners}
                           /\ placed[a] = w.actors[a]
                        \/ /\ a \in {f[k] : k \in Corners}
                           /\ \E k \in Corners : placed[a] = Marker(c, b, o, k, admin)
  OBVIOUS
<1>4. \A k \in Corners : Marker(c, b, o, k, admin) \in Structure
  BY <1>1, MarkerType
<1>5. w.actors \in [Actors -> Structure \cup {NoStructure}]
  BY DEF World
<1>6. placed \in [Actors -> Structure \cup {NoStructure}]
  BY <1>3, <1>4, <1>5
<1>7. new = [w EXCEPT !.actors = placed]
  BY DEF WithMarkers
<1> HIDE DEF placed
<1>8. new \in World /\ new.actors = placed /\ new.linked = w.linked /\ new.mounted = w.mounted
  BY <1>6, <1>7 DEF World
<1> QED BY <1>2, <1>3, <1>8

----------------------------------------------------------------------------
(* What the rest of the plugin and the game do to actors *)

GameStep ==
  \/ \E b \in Blueprints, o \in Options : BeginPaste(b, o)
  \/ UndoNothing
  \/ Tick
  \/ TickNoWorld
  \/ \E a \in Actors : Destroy(a)
  \/ \E a \in Actors, s \in Builds : BuildStructure(a, s)
  \/ UNCHANGED vars

LEMMA PluginSteps ==
  ASSUME [PluginNext]_plugin_vars
  PROVE  \/ GameStep /\ UNCHANGED <<g_pending, abandoned, undone>>
         \/ UndoAmongMarkers
         \/ (Reload \/ ProcessEnds) /\ Forgotten
         \/ \E admin \in Admins, b \in Blueprints, o \in Options : HandlePreview(admin, b, o)
         \/ \E admin \in Admins : HandleConfirm(admin) \/ HandleCancel(admin)
<1>1. CASE PluginNext
  BY <1>1 DEF PluginNext, GameStep
<1>2. CASE UNCHANGED plugin_vars
  <2>1. UNCHANGED vars /\ UNCHANGED <<g_pending, abandoned, undone>>
    BY <1>2 DEF plugin_vars
  <2> QED BY <2>1 DEF GameStep
<1> QED BY <1>1, <1>2

\* Undo puts nothing up.
LEMMA UndoChanges ==
  ASSUME TypeOK, UndoLastPaste, NEW a \in Actors, world'.actors[a] # world.actors[a]
  PROVE  world'.actors[a] = NoStructure
  BY DEF UndoLastPaste, Without

\* An actor that changes otherwise is placed or built where none stood, or
\* destroyed by players.
LEMMA GameChanges ==
  ASSUME TypeOK, GameStep, NEW a \in Actors, world'.actors[a] # world.actors[a]
  PROVE  \/ /\ world.actors[a] = NoStructure
            /\ Running /\ world'.actors[a].paste = pastes
         \/ /\ world.actors[a] = NoStructure
            /\ world'.actors[a].piece = 0
         \/ world'.actors[a] = NoStructure /\ world.actors[a].owned
<1>0. /\ world.actors \in [Actors -> Structure \cup {NoStructure}]
      /\ world = [actors |-> world.actors, linked |-> world.linked, mounted |-> world.mounted]
  BY DEF TypeOK, World
<1>1. ASSUME NEW gone, world' = Without(world, gone)
      PROVE  a \in gone /\ world'.actors[a] = NoStructure
  BY <1>1 DEF Without
<1>3. ASSUME NEW x \in Actors, Destroy(x)
      PROVE  world'.actors[a] = NoStructure /\ world.actors[a].owned
  <2>1. a \in {x} /\ world'.actors[a] = NoStructure
    BY <1>1, <1>3 DEF Destroy
  <2> QED BY <1>3, <2>1 DEF Destroy
<1>4. ASSUME NEW x \in Actors, NEW s \in Builds, BuildStructure(x, s)
      PROVE  world.actors[a] = NoStructure /\ world'.actors[a].piece = 0
  <2> DEFINE new == [cls |-> s.cls, at |-> s.at, owned |-> TRUE, paste |-> 0, piece |-> 0]
  <2>1. new.piece = 0
    OBVIOUS
  <2> HIDE DEF new
  <2>2. world' = [world EXCEPT !.actors[x] = new] /\ x \in Free
    BY <1>4 DEF BuildStructure, new
  <2>3. world'.actors = [world.actors EXCEPT ![x] = new]
    BY <1>0, <2>2
  <2>4. a = x /\ world'.actors[a] = new
    BY <1>0, <2>3
  <2> QED BY <2>1, <2>2, <2>4 DEF Free, Live
<1>5. ASSUME NEW x \in Actors, PlaceStructure(x)
      PROVE  world.actors[a] = NoStructure /\ Running /\ world'.actors[a].paste = pastes
  <2>1. PICK s : world'.actors = [world.actors EXCEPT ![x] = s]
    BY <1>5, PlacedWorld
  <2>2. a = x
    BY <1>0, <2>1
  <2>3. x \in Free /\ Running
    BY <1>5, PlacedStep
  <2> QED BY <1>5, <2>2, <2>3, PlacedActor DEF Free, Live
<1>6. ASSUME NEW b \in Blueprints, NEW o \in Options, BeginPaste(b, o) PROVE FALSE
  BY <1>6, BeginStep
<1>7. CASE Tick
  <2>1. ~TickBegin /\ ~TickEnd /\ ~FinishJob
    BY DEF TickBegin, TickEnd, FinishJob
  <2>2. ~PlaceFails
    BY FailedStep
  <2>3. ~StartLinking
    BY StartLinkingStep
  <2>4. ~Linking
    BY LinkingStep
  <2>5. \E x \in Actors : PlaceStructure(x)
    BY <1>7, <2>1, <2>2, <2>3, <2>4 DEF Tick, TickStep, Linking
  <2> QED BY <1>5, <2>5
<1>8. ~TickNoWorld /\ ~UNCHANGED vars /\ ~UndoNothing
  BY DEF TickNoWorld, vars, UndoNothing
<1> QED BY <1>3, <1>4, <1>6, <1>7, <1>8 DEF GameStep

\* Of the rest only undo takes a marker away: it has no owner.
LEMMA GameSparesMarkers ==
  ASSUME TypeOK,
         NEW a \in Actors, NEW admin \in Admins, Held(a, admin),
         GameStep \/ (UndoLastPaste /\ world'.actors[a] # NoStructure)
  PROVE  Held(a, admin)'
<1>1. world.actors[a] # NoStructure /\ ~world.actors[a].owned
  BY DEF Held, IsMarker, IsMarkerIn
<1>2. CASE world'.actors[a] = world.actors[a]
  BY <1>2 DEF Held, IsMarker, IsMarkerIn
<1>3. CASE world'.actors[a] # world.actors[a]
  BY <1>1, <1>3, GameChanges, UndoChanges
<1> QED BY <1>2, <1>3

\* And nothing but a preview makes one.
LEMMA GameMakesNoMarkers ==
  ASSUME TypeOK, Counted, GameStep \/ UndoLastPaste,
         NEW a \in Actors, NEW admin \in Admins, IsMarker(a, admin)'
  PROVE  IsMarker(a, admin)
<1>1. /\ world'.actors[a] # NoStructure /\ world'.actors[a].paste = 0
      /\ world'.actors[a].piece = admin /\ admin # 0
  BY PluginAssumption DEF IsMarker, IsMarkerIn
<1>2. Running => pastes # 0
  BY DEF Counted, TypeOK
<1>3. world'.actors[a] = world.actors[a]
  BY <1>1, <1>2, GameChanges, UndoChanges
<1> QED BY <1>1, <1>3 DEF IsMarker, IsMarkerIn

----------------------------------------------------------------------------
(* Previews *)

\* Every pending preview holds its markers, but for those an undo has taken, and
\* every marker that stands is held by one or has been abandoned.
MarkersInv ==
  /\ g_pending \in [Admins -> Pending \cup {NoPending}]
  /\ abandoned \subseteq Actors
  /\ undone \subseteq Actors
  /\ \A admin \in Admins : g_pending[admin] # NoPending =>
       \A a \in g_pending[admin].markers : Held(a, admin) \/ a \in undone
  /\ MarkersPending

LEMMA PendingFacts ==
  ASSUME MarkersInv, NEW admin \in Admins, g_pending[admin] # NoPending
  PROVE  /\ g_pending[admin].bp \in Blueprints /\ g_pending[admin].opts \in Options
         /\ g_pending[admin].markers \subseteq Actors
  BY DEF MarkersInv, Pending

\* What clearing destroys are markers the preview holds, or what stands where
\* undo has taken one; it destroys or forgets all it holds.
LEMMA ClearedFacts ==
  ASSUME MarkersInv, NEW admin \in Admins, NEW seen
  PROVE  /\ \A a \in Cleared(admin, seen) :
              /\ a \in Actors
              /\ g_pending[admin] # NoPending /\ a \in g_pending[admin].markers
              /\ Held(a, admin) \/ a \in undone
         /\ Unseen(admin, seen) \subseteq Actors
         /\ g_pending[admin] # NoPending =>
              \A a \in g_pending[admin].markers :
                IsMarker(a, admin) => a \in Cleared(admin, seen) \cup Unseen(admin, seen)
  BY PendingFacts DEF Cleared, Unseen, MarkersInv, IsMarker

\* An address that a preview stores stays among the undone.
LEMMA StoredStays ==
  ASSUME NEW x \in Admins, g_pending'[x] # NoPending, NEW a \in g_pending'[x].markers,
         a \in undone, undone' = undone \cap Stored(g_pending')
  PROVE  a \in undone'
  BY DEF Stored

\* A marker is of one admin.
LEMMA OneAdmin ==
  ASSUME NEW a, NEW x, NEW y, IsMarker(a, x), IsMarker(a, y)
  PROVE  x = y
  BY DEF IsMarker, IsMarkerIn

\* Destroying what one admin's preview holds, and forgetting the preview.
LEMMA ClearKeepsMarkers ==
  ASSUME TypeOK, MarkersInv, NEW admin \in Admins, Clear(admin)
  PROVE  /\ world' \in World
         /\ MarkersInv'
         /\ \A a \in Actors : world'.actors[a] # world.actors[a] =>
              \/ IsMarker(a, admin)
              \/ a \in g_pending[admin].markers \cap undone
<1>1. PICK seen : /\ world' = Without(world, Cleared(admin, seen))
                  /\ abandoned' = abandoned \cup Unseen(admin, seen)
  BY DEF Clear
<1>2. /\ g_pending' = [g_pending EXCEPT ![admin] = NoPending]
      /\ undone' = undone \cap Stored(g_pending')
  BY DEF Clear, Dropped
<1>3. world' \in World
  BY <1>1, WithoutType DEF TypeOK
<1>4. \A a \in Actors : world'.actors[a] =
        IF a \in Cleared(admin, seen) THEN NoStructure ELSE world.actors[a]
  BY <1>1 DEF Without
<1>5. /\ g_pending \in [Admins -> Pending \cup {NoPending}]
      /\ g_pending' \in [Admins -> Pending \cup {NoPending}]
      /\ g_pending'[admin] = NoPending
      /\ \A x \in Admins : x # admin => g_pending'[x] = g_pending[x]
  BY <1>2 DEF MarkersInv
<1>6. abandoned' \subseteq Actors /\ undone' \subseteq Actors
  BY <1>1, <1>2, ClearedFacts DEF MarkersInv
<1>7. ASSUME NEW x \in Admins, g_pending'[x] # NoPending, NEW a \in g_pending'[x].markers,
             a \notin undone'
      PROVE  Held(a, x)'
  <2>1. x # admin /\ g_pending[x] # NoPending /\ a \in g_pending[x].markers
    BY <1>5, <1>7
  <2>5. a \notin undone
    BY <1>2, <1>7, StoredStays
  <2>2. Held(a, x) /\ a \in Actors
    BY <2>1, <2>5, PendingFacts DEF MarkersInv
  <2>3. a \notin Cleared(admin, seen)
    BY <2>1, <2>2, <2>5, ClearedFacts, OneAdmin DEF Held
  <2>4. world'.actors[a] = world.actors[a]
    BY <1>4, <2>2, <2>3
  <2> QED BY <2>2, <2>4 DEF Held, IsMarker, IsMarkerIn
<1>8. ASSUME NEW x \in Admins, NEW a \in Actors, IsMarker(a, x)'
      PROVE  a \in abandoned' \/ (g_pending'[x] # NoPending /\ a \in g_pending'[x].markers)
  <2>1. a \notin Cleared(admin, seen) /\ world'.actors[a] = world.actors[a]
    BY <1>4, <1>8 DEF IsMarker, IsMarkerIn
  <2>2. IsMarker(a, x) /\ a \in Live
    BY <1>8, <2>1 DEF IsMarker, IsMarkerIn, Live
  <2>3. a \in abandoned \/ (g_pending[x] # NoPending /\ a \in g_pending[x].markers)
    BY <2>2 DEF MarkersInv, MarkersPending
  <2>4. CASE x = admin
    BY <1>1, <2>1, <2>2, <2>3, <2>4, ClearedFacts
  <2>5. CASE x # admin
    BY <1>1, <1>5, <2>3, <2>5
  <2> QED BY <2>4, <2>5
<1>9. MarkersPending'
  BY <1>8 DEF MarkersPending, Live
<1>10. \A a \in Actors : world'.actors[a] # world.actors[a] =>
         \/ IsMarker(a, admin)
         \/ a \in g_pending[admin].markers \cap undone
  BY <1>4, ClearedFacts DEF Held
<1> QED BY <1>3, <1>5, <1>6, <1>7, <1>9, <1>10 DEF MarkersInv

\* A preview clears what it may, puts markers where nothing stands then, and
\* changes nothing else of the world.
Outlined(admin, b, o, seen, markers, cleared) ==
  /\ cleared = Without(world, Cleared(admin, seen))
  /\ abandoned' = abandoned \cup Unseen(admin, seen)
  /\ g_pending' = [g_pending EXCEPT ![admin] = [bp |-> b, opts |-> o, markers |-> markers]]
  /\ undone' = undone \cap Stored(g_pending')
  /\ world' \in World
  /\ world'.linked = cleared.linked /\ world'.mounted = cleared.mounted
  /\ markers \subseteq {a \in Actors : cleared.actors[a] = NoStructure}
  /\ \A a \in Actors :
       \/ a \notin markers /\ world'.actors[a] = cleared.actors[a]
       \/ /\ a \in markers
          /\ \E k \in Corners, c \in MarkerClasses : world'.actors[a] = Marker(c, b, o, k, admin)

LEMMA PreviewFacts ==
  ASSUME TypeOK,
         NEW admin \in Admins, NEW b \in Blueprints, NEW o \in Options, HandlePreview(admin, b, o)
  PROVE  \E seen, markers, cleared : Outlined(admin, b, o, seen, markers, cleared)
<1> DEFINE free(w) == {a \in Actors : w.actors[a] = NoStructure}
           spots(f) == {f[k] : k \in Corners} \ {NoActor}
<1>0. PICK seen \in Sightings : \E cleared \in {Without(world, Cleared(admin, seen))} :
        /\ \E f \in Spawns(free(cleared)) :
             /\ world' = IF ResolveMarkerClass(b) = {} THEN cleared
                         ELSE WithMarkers(cleared, f, CHOOSE c \in ResolveMarkerClass(b) : TRUE,
                                          b, o, admin)
             /\ g_pending' = [g_pending EXCEPT ![admin] =
                  [bp |-> b, opts |-> o,
                   markers |-> IF ResolveMarkerClass(b) = {} THEN {} ELSE spots(f)]]
        /\ abandoned' = abandoned \cup Unseen(admin, seen)
  BY DEF HandlePreview, Replaced
<1>1. PICK cleared \in {Without(world, Cleared(admin, seen))} :
        /\ \E f \in Spawns(free(cleared)) :
             /\ world' = IF ResolveMarkerClass(b) = {} THEN cleared
                         ELSE WithMarkers(cleared, f, CHOOSE c \in ResolveMarkerClass(b) : TRUE,
                                          b, o, admin)
             /\ g_pending' = [g_pending EXCEPT ![admin] =
                  [bp |-> b, opts |-> o,
                   markers |-> IF ResolveMarkerClass(b) = {} THEN {} ELSE spots(f)]]
        /\ abandoned' = abandoned \cup Unseen(admin, seen)
  BY <1>0
<1>2. /\ cleared \in World
      /\ \A a \in Actors : cleared.actors[a] =
           IF a \in Cleared(admin, seen) THEN NoStructure ELSE world.actors[a]
  BY WithoutType DEF TypeOK, Without
<1>3. PICK markers :
        /\ world' \in World
        /\ world'.linked = cleared.linked /\ world'.mounted = cleared.mounted
        /\ g_pending' = [g_pending EXCEPT ![admin] = [bp |-> b, opts |-> o, markers |-> markers]]
        /\ markers \subseteq free(cleared)
        /\ \A a \in Actors :
             \/ a \notin markers /\ world'.actors[a] = cleared.actors[a]
             \/ /\ a \in markers
                /\ \E k \in Corners, c \in MarkerClasses : world'.actors[a] = Marker(c, b, o, k, admin)
  <2>1. PICK f \in Spawns(free(cleared)) :
          /\ world' = IF ResolveMarkerClass(b) = {} THEN cleared
                      ELSE WithMarkers(cleared, f, CHOOSE c \in ResolveMarkerClass(b) : TRUE,
                                       b, o, admin)
          /\ g_pending' = [g_pending EXCEPT ![admin] =
               [bp |-> b, opts |-> o,
                markers |-> IF ResolveMarkerClass(b) = {} THEN {} ELSE spots(f)]]
    BY <1>1
  <2>2. CASE ResolveMarkerClass(b) = {}
    BY <1>2, <2>1, <2>2
  <2>3. CASE ResolveMarkerClass(b) # {}
    <3>1. PICK c \in ResolveMarkerClass(b) : world' = WithMarkers(cleared, f, c, b, o, admin)
      BY <2>1, <2>3
    <3>2. PICK new : new = WithMarkers(cleared, f, c, b, o, admin)
      OBVIOUS
    <3>3. c \in MarkerClasses /\ b # <<>>
      BY DEF MarkerClasses, HandlePreview
    <3>4. PICK open : /\ open = {a \in Actors : cleared.actors[a] = NoStructure}
                      /\ open = free(cleared) /\ f \in Spawns(open)
      BY <2>1
    <3>5. g_pending' = [g_pending EXCEPT ![admin] = [bp |-> b, opts |-> o, markers |-> spots(f)]]
      BY <2>1, <2>3
    <3>6. PICK markers : markers = {f[k] : k \in Corners} \ {NoActor} /\ markers = spots(f)
      OBVIOUS
    <3> HIDE DEF free, spots
    <3>7. /\ new \in World /\ new.linked = cleared.linked /\ new.mounted = cleared.mounted
          /\ markers \subseteq open
          /\ \A a \in Actors :
               \/ /\ a \notin {f[k] : k \in Corners}
                  /\ new.actors[a] = cleared.actors[a]
               \/ /\ a \in markers
                  /\ \E k \in Corners : new.actors[a] = Marker(c, b, o, k, admin)
      BY <1>2, <3>2, <3>3, <3>4, <3>6, MarkingFacts
    <3>8. \A a \in Actors :
            \/ /\ a \notin markers
               /\ world'.actors[a] = cleared.actors[a]
            \/ /\ a \in markers
               /\ \E k \in Corners, d \in MarkerClasses : world'.actors[a] = Marker(d, b, o, k, admin)
      BY <3>1, <3>2, <3>3, <3>6, <3>7
    <3>9. /\ world' \in World /\ markers \subseteq free(cleared)
          /\ world'.linked = cleared.linked /\ world'.mounted = cleared.mounted
      BY <3>1, <3>2, <3>4, <3>7
    <3>10. g_pending' = [g_pending EXCEPT ![admin] = [bp |-> b, opts |-> o, markers |-> markers]]
      BY <3>5, <3>6
    <3> QED BY <3>8, <3>9, <3>10
  <2> QED BY <2>2, <2>3
<1>4. markers \subseteq {a \in Actors : cleared.actors[a] = NoStructure}
  BY <1>3
<1>5. cleared = Without(world, Cleared(admin, seen))
  OBVIOUS
<1> HIDE DEF free, spots
<1>6. undone' = undone \cap Stored(g_pending')
  BY DEF HandlePreview
<1>7. Outlined(admin, b, o, seen, markers, cleared)
  BY <1>1, <1>3, <1>4, <1>5, <1>6 DEF Outlined
<1> QED BY <1>7

\* A preview replaces the admin's last one: its markers are put where nothing
\* stands, and those of the last one are destroyed, or abandoned if not found.
LEMMA PreviewKeepsMarkers ==
  ASSUME TypeOK, MarkersInv,
         NEW admin \in Admins, NEW b \in Blueprints, NEW o \in Options, HandlePreview(admin, b, o)
  PROVE  /\ world' \in World
         /\ MarkersInv'
         /\ \A a \in Live : world'.actors[a] # world.actors[a] =>
              \/ IsMarker(a, admin)
              \/ a \in g_pending[admin].markers \cap undone
<1>0. PICK seen, markers, cleared : Outlined(admin, b, o, seen, markers, cleared)
  BY PreviewFacts
<1>1. /\ cleared = Without(world, Cleared(admin, seen))
      /\ abandoned' = abandoned \cup Unseen(admin, seen)
      /\ undone' = undone \cap Stored(g_pending')
      /\ markers \subseteq {a \in Actors : cleared.actors[a] = NoStructure}
  BY <1>0 DEF Outlined
<1>2. \A a \in Actors : cleared.actors[a] =
        IF a \in Cleared(admin, seen) THEN NoStructure ELSE world.actors[a]
  BY <1>1 DEF Without
<1>3. /\ world' \in World
      /\ g_pending' = [g_pending EXCEPT ![admin] = [bp |-> b, opts |-> o, markers |-> markers]]
      /\ \A a \in Actors :
           \/ a \notin markers /\ world'.actors[a] = cleared.actors[a]
           \/ /\ a \in markers
              /\ \E k \in Corners, c \in MarkerClasses : world'.actors[a] = Marker(c, b, o, k, admin)
  BY <1>0 DEF Outlined
<1>4. \A a \in markers : a \in Actors /\ cleared.actors[a] = NoStructure
  BY <1>1
<1>5. ASSUME NEW a \in markers PROVE Held(a, admin)' /\ world'.actors[a].piece = admin
  <2>1. PICK k \in Corners, c \in MarkerClasses : world'.actors[a] = Marker(c, b, o, k, admin)
    BY <1>3, <1>4
  <2>2. b # <<>> /\ c \in Classes
    BY MarkerClassesLoad DEF HandlePreview
  <2>3. Marker(c, b, o, k, admin) # NoStructure
    BY <2>2, MarkerType
  <2> QED BY <2>1, <2>3 DEF Held, IsMarker, IsMarkerIn, Marker
<1>6. /\ g_pending' \in [Admins -> Pending \cup {NoPending}]
      /\ g_pending'[admin] = [bp |-> b, opts |-> o, markers |-> markers]
      /\ \A x \in Admins : x # admin => g_pending'[x] = g_pending[x]
  <2>1. [bp |-> b, opts |-> o, markers |-> markers] \in Pending
    BY <1>4 DEF Pending
  <2> QED BY <1>3, <2>1 DEF MarkersInv
<1>7. g_pending'[admin].markers = markers /\ g_pending'[admin] # NoPending
  <2>1. [bp |-> b, opts |-> o, markers |-> markers] \in Pending
    BY <1>4 DEF Pending
  <2> QED BY <1>6, <2>1, PluginAssumption
<1>8. abandoned' \subseteq Actors /\ undone' \subseteq Actors
  BY <1>1, ClearedFacts DEF MarkersInv
<1>9. ASSUME NEW x \in Admins, g_pending'[x] # NoPending, NEW a \in g_pending'[x].markers,
             a \notin undone'
      PROVE  Held(a, x)'
  <2>1. CASE x = admin
    BY <1>5, <1>7, <1>9, <2>1
  <2>2. CASE x # admin
    <3>1. g_pending[x] # NoPending /\ a \in g_pending[x].markers
      BY <1>6, <1>9, <2>2
    <3>5. a \notin undone
      BY <1>1, <1>9, StoredStays
    <3>2. Held(a, x) /\ a \in Actors
      BY <3>1, <3>5, PendingFacts DEF MarkersInv
    <3>3. a \notin Cleared(admin, seen) /\ world.actors[a] # NoStructure
      BY <2>2, <3>2, <3>5, ClearedFacts, OneAdmin DEF Held, IsMarker, IsMarkerIn
    <3>4. world'.actors[a] = world.actors[a]
      BY <1>2, <1>3, <1>4, <3>2, <3>3
    <3> QED BY <3>2, <3>4 DEF Held, IsMarker, IsMarkerIn
  <2> QED BY <2>1, <2>2
<1>10. ASSUME NEW x \in Admins, NEW a \in Actors, IsMarker(a, x)'
       PROVE  a \in abandoned' \/ (g_pending'[x] # NoPending /\ a \in g_pending'[x].markers)
  <2>1. CASE a \in markers
    <3>1. x = admin
      BY <1>5, <1>10, <2>1 DEF IsMarker, IsMarkerIn
    <3> QED BY <1>7, <2>1, <3>1
  <2>2. CASE a \notin markers
    <3>1. a \notin Cleared(admin, seen) /\ world'.actors[a] = world.actors[a]
      BY <1>2, <1>3, <1>10, <2>2 DEF IsMarker, IsMarkerIn
    <3>2. IsMarker(a, x) /\ a \in Live
      BY <1>10, <3>1 DEF IsMarker, IsMarkerIn, Live
    <3>3. a \in abandoned \/ (g_pending[x] # NoPending /\ a \in g_pending[x].markers)
      BY <3>2 DEF MarkersInv, MarkersPending
    <3>4. CASE x = admin
      BY <1>1, <3>1, <3>2, <3>3, <3>4, ClearedFacts
    <3>5. CASE x # admin
      BY <1>1, <1>6, <3>3, <3>5
    <3> QED BY <3>4, <3>5
  <2> QED BY <2>1, <2>2
<1>11. MarkersPending'
  BY <1>10 DEF MarkersPending, Live
<1>12. ASSUME NEW a \in Live, world'.actors[a] # world.actors[a]
       PROVE  IsMarker(a, admin) \/ a \in g_pending[admin].markers \cap undone
  <2>1. a \in Actors /\ world.actors[a] # NoStructure
    BY DEF Live
  <2>2. a \in Cleared(admin, seen)
    BY <1>2, <1>3, <1>4, <1>12, <2>1
  <2> QED BY <2>2, ClearedFacts DEF Held
<1> QED BY <1>3, <1>6, <1>8, <1>9, <1>11, <1>12 DEF MarkersInv

----------------------------------------------------------------------------
(* The commands together *)

PluginInv == TypeOK /\ Counted /\ MarkersInv

\* Markers come and go without a word to the rest of the state.
LEMMA WorldAlone ==
  ASSUME TypeOK, world' \in World, UNCHANGED <<saved, g_job, left, g_last, disk, pastes>>
  PROVE  TypeOK'
  BY DEF TypeOK, Running, IndexesInRange, Size, Links, Linked

\* A marker that is there after a step of the game was known before it.
LEMMA GameKeepsPending ==
  ASSUME PluginInv, GameStep \/ UndoLastPaste, UNCHANGED <<g_pending, abandoned>>
  PROVE  MarkersPending'
<1>1. SUFFICES ASSUME NEW admin \in Admins, NEW a \in Actors, IsMarker(a, admin)'
               PROVE  \/ a \in abandoned
                      \/ g_pending[admin] # NoPending /\ a \in g_pending[admin].markers
  BY DEF MarkersPending, Live
<1>2. IsMarker(a, admin) /\ a \in Live
  BY <1>1, GameMakesNoMarkers DEF PluginInv, IsMarker, IsMarkerIn, Live
<1> QED BY <1>2 DEF PluginInv, MarkersInv, MarkersPending

LEMMA GameStepKeeps ==
  ASSUME PluginInv, GameStep, UNCHANGED <<g_pending, abandoned, undone>>
  PROVE  PluginInv'
<1>1. [Next]_vars
  BY DEF GameStep, Next
<1>2. TypeOK' /\ Counted'
  BY <1>1, NextTypes, CountedStep DEF PluginInv
<1>3. ASSUME NEW admin \in Admins, g_pending'[admin] # NoPending,
             NEW a \in g_pending'[admin].markers, a \notin undone'
      PROVE  Held(a, admin)'
  <2>1. a \in Actors /\ Held(a, admin)
    BY <1>3, PendingFacts DEF PluginInv, MarkersInv
  <2> QED BY <2>1, GameSparesMarkers DEF PluginInv
<1>4. MarkersPending'
  BY GameKeepsPending
<1> QED BY <1>2, <1>3, <1>4 DEF PluginInv, MarkersInv

\* Undo may take a marker, and the address is known from then on.
LEMMA UndoKeeps ==
  ASSUME PluginInv, UndoAmongMarkers
  PROVE  PluginInv'
<1>1. UndoLastPaste /\ UNCHANGED <<g_pending, abandoned>>
  BY DEF UndoAmongMarkers
<1>2. TypeOK' /\ Counted'
  BY <1>1, NextTypes, CountedStep DEF PluginInv, Next
<1>3. undone' \subseteq Actors
  BY PendingFacts DEF UndoAmongMarkers, Stored, PluginInv, MarkersInv
<1>4. ASSUME NEW admin \in Admins, g_pending'[admin] # NoPending,
             NEW a \in g_pending'[admin].markers, a \notin undone'
      PROVE  Held(a, admin)'
  <2>1. g_pending[admin] # NoPending /\ a \in g_pending[admin].markers /\ a \notin undone
    BY <1>1, <1>4 DEF UndoAmongMarkers
  <2>2. a \in Actors /\ Held(a, admin)
    BY <2>1, PendingFacts DEF PluginInv, MarkersInv
  <2>3. a \in Stored(g_pending)
    BY <2>1 DEF Stored
  <2>4. world'.actors[a] # NoStructure
    BY <1>4, <2>2, <2>3 DEF UndoAmongMarkers, Held, IsMarker
  <2> QED BY <1>1, <2>2, <2>4, GameSparesMarkers DEF PluginInv
<1>5. MarkersPending'
  BY <1>1, GameKeepsPending
<1> QED BY <1>1, <1>2, <1>3, <1>4, <1>5 DEF PluginInv, MarkersInv

LEMMA ForgottenKeeps ==
  ASSUME PluginInv, Reload \/ ProcessEnds, Forgotten
  PROVE  PluginInv'
<1>1. [Next]_vars
  BY DEF Next
<1>2. TypeOK' /\ Counted'
  BY <1>1, NextTypes, CountedStep DEF PluginInv
<1>3. MarkersPending'
  BY DEF Forgotten, MarkersPending, IsMarker, Live
<1> QED BY <1>2, <1>3 DEF PluginInv, MarkersInv, Forgotten

LEMMA PreviewKeeps ==
  ASSUME PluginInv, NEW admin \in Admins, NEW b \in Blueprints, NEW o \in Options,
         HandlePreview(admin, b, o)
  PROVE  PluginInv'
<1>1. world' \in World /\ MarkersInv'
  BY PreviewKeepsMarkers DEF PluginInv
<1>2. UNCHANGED <<saved, g_job, left, g_last, disk, pastes>>
  BY DEF HandlePreview
<1>3. TypeOK'
  BY <1>1, <1>2, WorldAlone DEF PluginInv
<1> QED BY <1>1, <1>2, <1>3 DEF PluginInv, Counted, Running

LEMMA CancelKeeps ==
  ASSUME PluginInv, NEW admin \in Admins, HandleCancel(admin)
  PROVE  PluginInv'
<1>1. world' \in World /\ MarkersInv'
  BY ClearKeepsMarkers DEF PluginInv, HandleCancel
<1>2. ~Running' /\ UNCHANGED <<saved, left, g_last, disk, pastes>> /\ left = Idle
  BY DEF HandleCancel, Running
<1>3. TypeOK'
  BY <1>1, <1>2 DEF PluginInv, TypeOK
<1> QED BY <1>1, <1>2, <1>3 DEF PluginInv, Counted

LEMMA ConfirmKeeps ==
  ASSUME PluginInv, NEW admin \in Admins, HandleConfirm(admin)
  PROVE  PluginInv'
<1>1. world' \in World /\ MarkersInv' /\ g_pending[admin].bp \in Blueprints
  BY ClearKeepsMarkers, PendingFacts DEF PluginInv, HandleConfirm
<1>2. UNCHANGED <<saved, left, disk>> /\ pastes \in Nat
  BY DEF HandleConfirm, PluginInv, TypeOK
<1>3. CASE UNCHANGED <<g_job, g_last, pastes>>
  <2>1. TypeOK'
    BY <1>1, <1>2, <1>3, WorldAlone DEF PluginInv
  <2> QED BY <1>1, <1>2, <1>3, <2>1 DEF PluginInv, Counted, Running
<1>4. CASE StartJob(g_pending[admin].bp, g_pending[admin].opts)
  <2>1. g_pending[admin].opts \in Options
    BY PendingFacts DEF PluginInv, HandleConfirm
  <2>2. TypeOK'
    BY <1>1, <1>2, <1>4, <2>1, StartJobTypes DEF PluginInv
  <2>3. pastes' = pastes + 1 /\ g_last' = NoRecord
    BY <1>4 DEF StartJob
  <2>4. Counted'
    BY <1>2, <2>3 DEF Counted
  <2> QED BY <1>1, <2>2, <2>4 DEF PluginInv
<1> QED BY <1>3, <1>4 DEF HandleConfirm, ConfirmedOptions

LEMMA PluginStep == PluginInv /\ [PluginNext]_plugin_vars => PluginInv'
  BY PluginSteps, GameStepKeeps, UndoKeeps, ForgottenKeeps, PreviewKeeps, CancelKeeps, ConfirmKeeps

LEMMA PluginInvariant == PluginSpec => []PluginInv
<1>1. PluginInit => PluginInv
  <2> SUFFICES ASSUME PluginInit PROVE PluginInv
    OBVIOUS
  <2>1. TypeOK
    BY InitialTypes DEF PluginInit
  <2>2. Counted
    BY DEF PluginInit, Init, Counted, Running
  <2>3. MarkersPending
    BY DEF PluginInit, Init, EmptyWorld, MarkersPending, Live
  <2> QED BY <2>1, <2>2, <2>3 DEF PluginInv, MarkersInv, PluginInit
<1> QED BY <1>1, PluginStep, PTL DEF PluginSpec

\* The types of the plugin's state; and for any number of admins, whatever is
\* pasted, built and destroyed and whichever classes are pasted and marked with,
\* a marker pointer goes stale in one way only, when an undo takes the marker for
\* a piece of its class (Preview.cpp:24-32, Paste.cpp:452-505). Ticks, players
\* and other admins' commands leave every marker that a preview stores.
THEOREM PointersStayGood == PluginSpec => []PluginTypeOK
<1>1. PluginInv => PluginTypeOK
  BY DEF PluginInv, MarkersInv, PluginTypeOK, Held
<1> QED BY <1>1, PluginInvariant, PTL

\* A marker that stands is of a pending preview, unless the query of
\* ClearPreview did not return it or the plugin was unloaded under it
\* (Main.cpp:510-524, 591-598; Preview.cpp:114-147).
THEOREM MarkersAreKnown == PluginSpec => []MarkersPending
<1>1. PluginInv => MarkersPending
  BY DEF PluginInv, MarkersInv
<1> QED BY <1>1, PluginInvariant, PTL

\* Previewing, confirming and cancelling destroy markers of the admin who does
\* so. What else they may destroy stands where that admin's marker stood until
\* an undo took it, as ClearPreview compares nothing but addresses
\* (Preview.cpp:128-134): no other harm is possible, be the classes what they may.
THEOREM ClearTakesItsOwn == PluginSpec => ClearSparesOthers
<1>1. PluginInv /\ [PluginNext]_plugin_vars =>
        [\A admin \in Admins, a \in Live :
           /\ g_pending'[admin] # g_pending[admin]
           /\ world'.actors[a] # world.actors[a]
           /\ ~IsMarker(a, admin)
           /\ \/ HandleConfirm(admin)
              \/ HandleCancel(admin)
              \/ \E b \in Blueprints, o \in Options : HandlePreview(admin, b, o)
           => a \in g_pending[admin].markers \cap undone]_plugin_vars
  <2> SUFFICES ASSUME PluginInv, NEW admin \in Admins, NEW a \in Live,
                      \/ HandleConfirm(admin)
                      \/ HandleCancel(admin)
                      \/ \E b \in Blueprints, o \in Options : HandlePreview(admin, b, o),
                      world'.actors[a] # world.actors[a],
                      ~IsMarker(a, admin)
               PROVE  a \in g_pending[admin].markers \cap undone
    OBVIOUS
  <2>1. CASE HandleConfirm(admin) \/ HandleCancel(admin)
    BY <2>1, ClearKeepsMarkers DEF HandleConfirm, HandleCancel, PluginInv, Live
  <2>2. CASE \E b \in Blueprints, o \in Options : HandlePreview(admin, b, o)
    BY <2>2, PreviewKeepsMarkers DEF PluginInv
  <2> QED BY <2>1, <2>2
<1> QED BY <1>1, PluginInvariant, PTL DEF PluginSpec, ClearSparesOthers

----------------------------------------------------------------------------
(* The engine among several admins *)

PendingType == g_pending \in [Admins -> Pending \cup {NoPending}]

Command ==
  \/ \E admin \in Admins, b \in Blueprints, o \in Options : HandlePreview(admin, b, o)
  \/ \E admin \in Admins : HandleConfirm(admin) \/ HandleCancel(admin)

\* A step of the plugin is one the engine knows, or a command with a preview.
LEMMA CommandSteps ==
  ASSUME [PluginNext]_plugin_vars
  PROVE  \/ [Next]_vars /\ (UNCHANGED g_pending \/ Forgotten)
         \/ Command
  BY PluginSteps DEF GameStep, UndoAmongMarkers, Next, Command

\* A confirm starts a job, or leaves none running.
LEMMA ConfirmStep ==
  ASSUME PendingType, NEW admin \in Admins, HandleConfirm(admin)
  PROVE  /\ ~Running /\ Clear(admin) /\ UNCHANGED <<saved, left, disk>>
         /\ \/ UNCHANGED <<g_job, g_last, pastes>>
            \/ \E b \in Blueprints, o \in Options : StartJob(b, o)
<1>1. g_pending[admin].bp \in Blueprints /\ g_pending[admin].opts \in Options
  BY DEF HandleConfirm, PendingType, Pending
<1> QED BY <1>1 DEF HandleConfirm, ConfirmedOptions

LEMMA CommandTypes ==
  ASSUME TypeOK, PendingType, Command
  PROVE  TypeOK' /\ PendingType'
<1>1. ASSUME NEW admin \in Admins, NEW b \in Blueprints, NEW o \in Options,
             HandlePreview(admin, b, o)
      PROVE  TypeOK' /\ PendingType'
  <2>1. PICK seen, markers, cleared : Outlined(admin, b, o, seen, markers, cleared)
    BY <1>1, PreviewFacts
  <2>2. TypeOK'
    BY <1>1, <2>1, WorldAlone DEF HandlePreview, Outlined
  <2>3. [bp |-> b, opts |-> o, markers |-> markers] \in Pending
    BY <2>1 DEF Outlined, Pending
  <2>4. g_pending' = [g_pending EXCEPT ![admin] = [bp |-> b, opts |-> o, markers |-> markers]]
    BY <2>1 DEF Outlined
  <2> QED BY <2>2, <2>3, <2>4 DEF PendingType
<1>2. ASSUME NEW admin \in Admins, Clear(admin) PROVE world' \in World /\ PendingType'
  <2>1. world' \in World
    BY <1>2, WithoutType DEF Clear, TypeOK
  <2> QED BY <1>2, <2>1 DEF Clear, Dropped, PendingType
<1>3. ASSUME NEW admin \in Admins, HandleConfirm(admin) PROVE TypeOK' /\ PendingType'
  <2>1. CASE UNCHANGED <<g_job, g_last, pastes>>
    BY <1>2, <1>3, <2>1, ConfirmStep, WorldAlone
  <2>2. ASSUME NEW b \in Blueprints, NEW o \in Options, StartJob(b, o) PROVE TypeOK'
    BY <1>2, <1>3, <2>2, ConfirmStep, StartJobTypes
  <2> QED BY <1>2, <1>3, <2>1, <2>2, ConfirmStep
<1>4. ASSUME NEW admin \in Admins, HandleCancel(admin) PROVE TypeOK' /\ PendingType'
  <2>1. ~Running' /\ UNCHANGED <<saved, left, g_last, disk, pastes>> /\ left = Idle
    BY <1>4 DEF HandleCancel, Running
  <2>2. world' \in World /\ PendingType'
    BY <1>2, <1>4 DEF HandleCancel
  <2> QED BY <2>1, <2>2 DEF TypeOK
<1> QED BY <1>1, <1>3, <1>4 DEF Command

LEMMA PluginTypes == PluginSpec => [](TypeOK /\ PendingType)
<1>1. PluginInit => TypeOK /\ PendingType
  BY InitialTypes DEF PluginInit, PendingType
<1>2. TypeOK /\ PendingType /\ [PluginNext]_plugin_vars => TypeOK' /\ PendingType'
  <2> SUFFICES ASSUME TypeOK, PendingType, [PluginNext]_plugin_vars PROVE TypeOK' /\ PendingType'
    OBVIOUS
  <2>1. CASE [Next]_vars /\ (UNCHANGED g_pending \/ Forgotten)
    BY <2>1, NextTypes DEF PendingType, Forgotten
  <2> QED BY <2>1, CommandSteps, CommandTypes
<1> QED BY <1>1, <1>2, PTL DEF PluginSpec

\* A piece of the running paste that stands after a preview stood before, and
\* what two such pieces were joined by still joins them: what is cleared may be
\* anything, but what is put up is of no paste.
LEMMA PreviewStanding ==
  ASSUME TypeOK, Counted, Running,
         NEW admin \in Admins, NEW b \in Blueprints, NEW o \in Options, HandlePreview(admin, b, o),
         NEW i \in 1..Size, NEW j \in 1..Size, Standing(i)', Standing(j)'
  PROVE  /\ Standing(i) /\ Standing(j)
         /\ <<g_job.spawned[i], g_job.spawned[j]>> \in world.linked =>
              <<g_job.spawned[i], g_job.spawned[j]>> \in world'.linked
         /\ <<g_job.spawned[i], g_job.spawned[j]>> \in world.mounted =>
              <<g_job.spawned[i], g_job.spawned[j]>> \in world'.mounted
<1> DEFINE x == g_job.spawned[i]
           y == g_job.spawned[j]
<1>1. PICK seen, markers, cleared : Outlined(admin, b, o, seen, markers, cleared)
  BY PreviewFacts
<1> DEFINE gone == Cleared(admin, seen)
<1>2. /\ world'.linked = {e \in world.linked : e[1] \notin gone /\ e[2] \notin gone}
      /\ world'.mounted = {e \in world.mounted : e[1] \notin gone /\ e[2] \notin gone}
      /\ \A a \in Actors : \/ world'.actors[a] = NoStructure
                           \/ a \notin gone /\ world'.actors[a] = world.actors[a]
                           \/ world'.actors[a].paste = 0
  <2>1. \A k \in Corners, c \in MarkerClasses : Marker(c, b, o, k, admin).paste = 0
    BY DEF Marker
  <2>2. \A a \in Actors : cleared.actors[a] = IF a \in gone THEN NoStructure ELSE world.actors[a]
    BY <1>1 DEF Outlined, Without
  <2>3. /\ cleared.linked = {e \in world.linked : e[1] \notin gone /\ e[2] \notin gone}
        /\ cleared.mounted = {e \in world.mounted : e[1] \notin gone /\ e[2] \notin gone}
    BY <1>1 DEF Outlined, Without
  <2>4. \A a \in Actors : \/ world'.actors[a] = cleared.actors[a]
                         \/ \E k \in Corners, c \in MarkerClasses :
                              world'.actors[a] = Marker(c, b, o, k, admin)
    BY <1>1 DEF Outlined
  <2>5. world'.linked = cleared.linked /\ world'.mounted = cleared.mounted
    BY <1>1 DEF Outlined
  <2> HIDE DEF gone
  <2> QED BY <2>1, <2>2, <2>3, <2>4, <2>5
<1> HIDE DEF gone
<1>3. UNCHANGED <<g_job, pastes>> /\ pastes # 0
  BY DEF HandlePreview, Counted, TypeOK
<1>4. /\ x \in Actors /\ world'.actors[x] # NoStructure /\ world'.actors[x].paste = pastes
      /\ world'.actors[x].piece = i
      /\ y \in Actors /\ world'.actors[y] # NoStructure /\ world'.actors[y].paste = pastes
      /\ world'.actors[y].piece = j
  BY <1>3 DEF Standing, Live
<1>5. /\ x \notin gone /\ world'.actors[x] = world.actors[x]
      /\ y \notin gone /\ world'.actors[y] = world.actors[y]
  BY <1>2, <1>3, <1>4
<1>6. <<x, y>>[1] \notin gone /\ <<x, y>>[2] \notin gone
  BY <1>5
<1>7. /\ <<x, y>> \in world.linked => <<x, y>> \in world'.linked
      /\ <<x, y>> \in world.mounted => <<x, y>> \in world'.mounted
  BY <1>2, <1>6
<1> QED BY <1>3, <1>4, <1>5, <1>7 DEF Standing, Live

\* What is invariant of the engine whoever commands it.
EngineInv == Counted /\ Accounted /\ LinkTally /\ FloorTally /\ LinkedSoFar

LEMMA CommandKeepsEngine ==
  ASSUME TypeOK, PendingType, EngineInv, Command
  PROVE  EngineInv'
<1>1. ASSUME ~Running', pastes' = pastes PROVE EngineInv'
  BY <1>1 DEF EngineInv, Counted, Accounted, LinkTally, FloorTally, LinkedSoFar
<1>2. ASSUME NEW admin \in Admins, NEW b \in Blueprints, NEW o \in Options,
             HandlePreview(admin, b, o)
      PROVE  EngineInv'
  <2>1. UNCHANGED <<g_job, pastes>>
    BY <1>2 DEF HandlePreview
  <2>2. Counted' /\ Accounted' /\ LinkTally' /\ FloorTally'
    BY <2>1 DEF EngineInv, Counted, Accounted, LinkTally, FloorTally, Running, JoinableEdges,
       MountedPieces, Taken, Placed, Size, Linked
  <2>3. LinkedSoFar'
    <3>1. Taken' = Taken /\ Size' = Size /\ (Running' <=> Running)
      BY <2>1 DEF Taken, Size, Running, Linked
    <3>2. SUFFICES ASSUME Running, NEW e \in Taken, NEW t \in 1..Size,
                          t = g_job.bp[e[1]].links[e[2]], Standing(e[1])', Standing(t)'
                   PROVE  <<g_job.spawned[e[1]], g_job.spawned[t]>> \in world'.linked
      BY <2>1, <3>1 DEF LinkedSoFar
    <3>3. e[1] \in 1..Size
      BY <3>2, JobFacts, EdgeFacts DEF Taken, Size
    <3>4. /\ Standing(e[1]) /\ Standing(t)
          /\ <<g_job.spawned[e[1]], g_job.spawned[t]>> \in world.linked =>
               <<g_job.spawned[e[1]], g_job.spawned[t]>> \in world'.linked
      BY <1>2, <3>2, <3>3, PreviewStanding DEF EngineInv
    <3> QED BY <3>2, <3>4 DEF EngineInv, LinkedSoFar
  <2> QED BY <2>2, <2>3 DEF EngineInv
<1>3. ASSUME NEW admin \in Admins, HandleConfirm(admin) PROVE EngineInv'
  <2>1. CASE UNCHANGED <<g_job, g_last, pastes>>
    BY <1>1, <1>3, <2>1, ConfirmStep DEF Running
  <2>2. ASSUME NEW b \in Blueprints, NEW o \in Options, StartJob(b, o) PROVE EngineInv'
    <3>1. Counted'
      BY <2>2 DEF StartJob, Counted, TypeOK
    <3> QED BY <2>2, <3>1, FreshCounts, FreshLinks, FreshTallies DEF EngineInv
  <2> QED BY <1>3, <2>1, <2>2, ConfirmStep
<1>4. ASSUME NEW admin \in Admins, HandleCancel(admin) PROVE EngineInv'
  BY <1>1, <1>4 DEF HandleCancel, Running
<1> QED BY <1>2, <1>3, <1>4 DEF Command

LEMMA EngineInvariant == PluginSpec => []EngineInv
<1>1. PluginInit => EngineInv
  BY DEF PluginInit, Init, EngineInv, Counted, Accounted, LinkTally, FloorTally, LinkedSoFar, Running
<1>2. TypeOK /\ PendingType /\ EngineInv /\ [PluginNext]_plugin_vars => EngineInv'
  <2>1. TypeOK /\ EngineInv /\ [Next]_vars => EngineInv'
    BY CountedStep, AccountedStep, LinkTallyStep, FloorTallyStep, LinkedStep DEF EngineInv
  <2> QED BY <2>1, CommandSteps, CommandKeepsEngine
<1> QED BY <1>1, <1>2, PluginTypes, PTL DEF PluginSpec

\* Several admins previewing, confirming and cancelling around one paste change
\* nothing in what its reply says: it is true of the job that ends, whoever
\* started it (Main.cpp:510-524, 591-598; Paste.cpp:268-273).
THEOREM RepliesTrueToAll == PluginSpec => []ReplyIsTrue
<1>1. TypeOK /\ EngineInv => ReplyIsTrue
  BY TalliesReply DEF EngineInv
<1> QED BY <1>1, EngineInvariant, PluginTypes, PTL

\* Nor do they part what the paste has linked: whatever outlines are put up and
\* cleared meanwhile, and even where clearing took a piece for a marker, two
\* neighbours the link loop has been past are linked as long as both stand.
THEOREM LinksStandAmongAll == PluginSpec => []LinkedSoFar
<1>1. EngineInv => LinkedSoFar
  BY DEF EngineInv
<1> QED BY <1>1, EngineInvariant, PTL

\* And where floors lie below what they carry, mounts stay as well.
THEOREM MountsStandAmongAll == AllFloorsBelow => (PluginSpec => []MountedOnItsFloor)
<1> SUFFICES ASSUME AllFloorsBelow PROVE PluginSpec => []MountedOnItsFloor
  OBVIOUS
<1>1. PluginInit => MountedOnItsFloor
  BY DEF PluginInit, Init, MountedOnItsFloor, Running
<1>2. TypeOK /\ PendingType /\ EngineInv /\ MountedOnItsFloor /\ [PluginNext]_plugin_vars
        => MountedOnItsFloor'
  <2> SUFFICES ASSUME TypeOK, PendingType, EngineInv, MountedOnItsFloor, Command
               PROVE  MountedOnItsFloor'
    BY CommandSteps, MountedStep DEF EngineInv
  <2>1. ASSUME NEW admin \in Admins, NEW b \in Blueprints, NEW o \in Options,
               HandlePreview(admin, b, o)
        PROVE  MountedOnItsFloor'
    <3>1. UNCHANGED <<g_job, pastes>>
      BY <2>1 DEF HandlePreview
    <3>2. MountedPieces' = MountedPieces /\ (Running' <=> Running)
      BY <3>1 DEF MountedPieces, Placed, Size, Running
    <3>3. SUFFICES ASSUME Running, ~g_job.opts.invulnerable, NEW i \in MountedPieces, NEW f,
                          f = g_job.bp[i].floor, Standing(i)', Standing(f)'
                   PROVE  <<g_job.spawned[i], g_job.spawned[f]>> \in world'.mounted
      BY <3>1, <3>2 DEF MountedOnItsFloor
    <3>4. i \in 1..Size /\ f \in 1..Size
      BY <3>3, PlacedFacts DEF MountedPieces
    <3>5. /\ Standing(i) /\ Standing(f)
          /\ <<g_job.spawned[i], g_job.spawned[f]>> \in world.mounted =>
               <<g_job.spawned[i], g_job.spawned[f]>> \in world'.mounted
      BY <2>1, <3>3, <3>4, PreviewStanding DEF EngineInv
    <3> QED BY <3>3, <3>5 DEF MountedOnItsFloor
  <2>2. ASSUME NEW admin \in Admins, HandleConfirm(admin) PROVE MountedOnItsFloor'
    <3>1. ~Running' => MountedOnItsFloor'
      BY DEF MountedOnItsFloor
    <3> QED BY <2>2, <3>1, ConfirmStep, FreshMounts DEF Running
  <2>3. ASSUME NEW admin \in Admins, HandleCancel(admin) PROVE MountedOnItsFloor'
    BY <2>3 DEF HandleCancel, Running, MountedOnItsFloor
  <2> QED BY <2>1, <2>2, <2>3 DEF Command
<1> QED BY <1>1, <1>2, PluginTypes, EngineInvariant, PTL DEF PluginSpec

\* A preview is nothing the promise knows of; a confirm begins a paste, or
\* begins none; a cancel gives the running one up.
LEMMA CommandsAsPromised ==
  ASSUME TypeOK, PendingType, UndoSurvivesReload, Command
  PROVE  [P!PromiseNext]_(P!promiseVars) /\ UndoSurvivesReload'
<1>1. ASSUME UNCHANGED <<g_job, g_last, disk, pastes>>
      PROVE  UNCHANGED P!promiseVars /\ UndoSurvivesReload'
  BY <1>1 DEF P!promiseVars, PromisedPlan, PromisedShowcase, PromisedTried, PromisedPlaced,
     PromisedJoined, PromisedRecord, UndoRecord, UndoSurvivesReload, Running, Placed, Taken,
     JoinableEdges, Size, Linked
<1>2. ASSUME NEW admin \in Admins, NEW b \in Blueprints, NEW o \in Options,
             HandlePreview(admin, b, o)
      PROVE  UNCHANGED P!promiseVars /\ UndoSurvivesReload'
  BY <1>1, <1>2 DEF HandlePreview
<1>3. ASSUME NEW admin \in Admins, HandleConfirm(admin)
      PROVE  [P!PromiseNext]_(P!promiseVars) /\ UndoSurvivesReload'
  <2>1. CASE UNCHANGED <<g_job, g_last, pastes>>
    BY <1>1, <1>3, <2>1, ConfirmStep
  <2>2. ASSUME NEW b \in Blueprints, NEW o \in Options, StartJob(b, o)
        PROVE  P!PromiseNext /\ UndoSurvivesReload'
    <3>1. ~Running /\ disk' = disk
      BY <1>3, ConfirmStep
    <3>2. P!Begin(b, o.invulnerable) /\ o.invulnerable \in BOOLEAN
      BY <2>2, <3>1, BeginsAsPromised
    <3>3. g_last' = NoRecord
      BY <2>2, StartStep
    <3>4. UndoSurvivesReload'
      BY <3>3 DEF UndoSurvivesReload, NoRecord
    <3> QED BY <3>2, <3>4 DEF P!PromiseNext
  <2> QED BY <1>3, <2>1, <2>2, ConfirmStep
<1>4. ASSUME NEW admin \in Admins, HandleCancel(admin)
      PROVE  [P!PromiseNext]_(P!promiseVars) /\ UndoSurvivesReload'
  <2>1. ~Running' /\ UNCHANGED <<g_last, disk, pastes>>
    BY <1>4 DEF HandleCancel, Running
  <2>2. PromisedRecord' = PromisedRecord /\ UndoSurvivesReload'
    BY <2>1 DEF PromisedRecord, UndoRecord, UndoSurvivesReload
  <2>3. CASE Running
    <3>1. P!GiveUp
      BY <2>1, <2>2, <2>3, PromisedRunning, PromisedIdleNext DEF P!GiveUp, P!Over
    <3> QED BY <2>2, <3>1 DEF P!PromiseNext
  <2>4. CASE ~Running
    BY <2>1, <2>2, <2>4, PromisedIdle, PromisedIdleNext DEF P!promiseVars
  <2> QED BY <2>3, <2>4
<1> QED BY <1>2, <1>3, <1>4 DEF Command

LEMMA PluginStepPromised ==
  ASSUME TypeOK, TypeOK', PendingType, EngineInv, UndoSurvivesReload, "disk" \notin Events,
         [PluginNext]_plugin_vars
  PROVE  [P!PromiseNext]_(P!promiseVars)
<1>1. CASE [Next]_vars
  BY <1>1, EachStepPromised DEF EngineInv
<1>2. CASE Command
  BY <1>2, CommandsAsPromised
<1> QED BY <1>1, <1>2, CommandSteps

\* So the engine keeps its promise to all admins together: "one paste at a
\* time" (Main.cpp:510-524), whoever previews, confirms or cancels between two
\* ticks, and what undo takes out is the paste that completed last, whoever
\* pasted it (Paste.cpp:280-438, 440-505).
THEOREM PromiseKeptToAll == "disk" \notin Events => (PluginSpec => KeepsPromise)
<1> SUFFICES ASSUME "disk" \notin Events PROVE PluginSpec => KeepsPromise
  OBVIOUS
<1>1. PluginInit => P!PromiseInit /\ FileWhole /\ UndoSurvivesReload
  BY PromisedAtFirst DEF PluginInit, Init, FileWhole, UndoSurvivesReload, NoFile, NoRecord
<1>2. TypeOK /\ PendingType /\ FileWhole /\ UndoSurvivesReload /\ [PluginNext]_plugin_vars
        => (FileWhole /\ UndoSurvivesReload)'
  <2>1. Command /\ FileWhole => FileWhole'
    BY DEF Command, HandlePreview, HandleConfirm, HandleCancel, FileWhole
  <2> QED BY <2>1, CommandSteps, CommandsAsPromised, FileWholeStep, UndoSurvivesStep
<1>3. TypeOK /\ TypeOK' /\ PendingType /\ EngineInv /\ UndoSurvivesReload
        /\ [PluginNext]_plugin_vars => [P!PromiseNext]_(P!promiseVars)
  BY PluginStepPromised
<1> QED BY <1>1, <1>2, <1>3, PluginTypes, EngineInvariant, PTL
    DEF PluginSpec, KeepsPromise, P!Promise

\* What stands after a command stood before it, or is a marker: of no paste,
\* and of a marker's class.
LEMMA CommandKnown ==
  ASSUME TypeOK, PendingType, Command, NEW s \in Known'
  PROVE  \/ s \in Known \cup {NoStructure}
         \/ s.paste = 0 /\ s.cls \in MarkerClasses
<1>1. ASSUME NEW admin \in Admins, NEW b \in Blueprints, NEW o \in Options,
             HandlePreview(admin, b, o), NEW a \in Actors
      PROVE  \/ world'.actors[a] \in {world.actors[a], NoStructure}
             \/ world'.actors[a].paste = 0 /\ world'.actors[a].cls \in MarkerClasses
  <2>1. PICK seen, markers, cleared : Outlined(admin, b, o, seen, markers, cleared)
    BY <1>1, PreviewFacts
  <2>2. cleared.actors[a] \in {world.actors[a], NoStructure}
    BY <2>1 DEF Outlined, Without
  <2>3. \/ world'.actors[a] = cleared.actors[a]
        \/ \E k \in Corners, c \in MarkerClasses : world'.actors[a] = Marker(c, b, o, k, admin)
    BY <2>1 DEF Outlined
  <2>4. \A k \in Corners, c \in MarkerClasses :
          Marker(c, b, o, k, admin).paste = 0 /\ Marker(c, b, o, k, admin).cls = c
    BY DEF Marker
  <2> QED BY <2>2, <2>3, <2>4
<1>2. ASSUME NEW admin \in Admins, Clear(admin), NEW a \in Actors
      PROVE  world'.actors[a] \in {world.actors[a], NoStructure}
  BY <1>2 DEF Clear, Without
<1>3. saved' = saved
  BY DEF Command, HandlePreview, HandleConfirm, HandleCancel
<1>4. \A a \in Actors : \/ world'.actors[a] \in {world.actors[a], NoStructure}
                        \/ world'.actors[a].paste = 0 /\ world'.actors[a].cls \in MarkerClasses
  BY <1>1, <1>2 DEF Command, HandleConfirm, HandleCancel
<1>5. CASE \E a \in Actors : s = saved'.actors[a]
  BY <1>3, <1>5 DEF Known
<1>6. CASE \E a \in Actors : s = world'.actors[a]
  BY <1>4, <1>6 DEF Known
<1> QED BY <1>5, <1>6 DEF Known

\* What a command makes of the job, of the number of pastes and of the records.
LEMMA CommandJob ==
  ASSUME TypeOK, PendingType, Command
  PROVE  \/ ~Running /\ Running' /\ pastes' = pastes + 1 /\ Kept' \subseteq Kept \cup {NoRecord}
         \/ ~Running' /\ pastes' = pastes /\ Kept' = Kept
         \/ UNCHANGED <<g_job, pastes>> /\ Kept' = Kept
<1>1. ASSUME NEW admin \in Admins, NEW b \in Blueprints, NEW o \in Options,
             HandlePreview(admin, b, o)
      PROVE  UNCHANGED <<g_job, pastes>> /\ Kept' = Kept
  BY <1>1 DEF HandlePreview, Kept
<1>2. ASSUME NEW admin \in Admins, HandleCancel(admin)
      PROVE  ~Running' /\ pastes' = pastes /\ Kept' = Kept
  BY <1>2 DEF HandleCancel, Running, Kept
<1>3. ASSUME NEW admin \in Admins, HandleConfirm(admin)
      PROVE  \/ ~Running /\ Running' /\ pastes' = pastes + 1 /\ Kept' \subseteq Kept \cup {NoRecord}
             \/ UNCHANGED <<g_job, pastes>> /\ Kept' = Kept
  <2>1. ~Running /\ disk' = disk
    BY <1>3, ConfirmStep
  <2>2. ASSUME NEW b \in Blueprints, NEW o \in Options, StartJob(b, o)
        PROVE  Running' /\ pastes' = pastes + 1 /\ Kept' \subseteq Kept \cup {NoRecord}
    BY <2>1, <2>2, StartStep DEF Kept
  <2>3. CASE UNCHANGED <<g_job, g_last, pastes>>
    BY <2>1, <2>3 DEF Kept
  <2> QED BY <1>3, <2>1, <2>2, <2>3, ConfirmStep
<1> QED BY <1>1, <1>2, <1>3 DEF Command

LEMMA CommandLocates ==
  ASSUME TypeOK, PendingType, Counted, Counted', LocateInv, Command
  PROVE  LocateInv'
<1>0. /\ pastes \in Nat
      /\ \A s \in Known : s # NoStructure => s.paste \in Nat
      /\ \A r \in Kept : r.paste \in Nat
      /\ NoRecord.items = {}
  <2>1. \A s \in Known : s # NoStructure => s \in Structure
    BY DEF TypeOK, World, Known
  <2>2. \A r \in Kept : r \in UndoRecords
    BY DEF TypeOK, Kept
  <2> QED BY <2>1, <2>2 DEF TypeOK, Structure, UndoRecords, NoRecord
<1>1. pastes' \in Nat
  BY <1>0, CommandJob
<1>2. \A r \in Kept' : OfThePast(r)'
  <2>1. ASSUME NEW r \in Kept \cup {NoRecord}, Running' => Running \/ pastes' = pastes + 1,
               pastes' \in {pastes, pastes + 1}
        PROVE  OfThePast(r)'
    BY <1>0, <2>1 DEF LocateInv, OfThePast
  <2>2. Running' => Running \/ pastes' = pastes + 1
    BY CommandJob DEF Running
  <2> QED BY <2>1, <2>2, CommandJob
<1>3. ASSUME NEW s \in Known PROVE LatestSoFar(s)' /\ AsItsPiece(s)'
  <2>1. LatestSoFar(s) /\ AsItsPiece(s)
    BY DEF LocateInv
  <2>2. CASE Running' /\ pastes' = pastes + 1
    BY <1>0, <2>1, <2>2 DEF LatestSoFar, AsItsPiece
  <2>3. CASE ~Running' /\ pastes' = pastes
    BY <2>1, <2>3 DEF LatestSoFar, AsItsPiece
  <2>4. CASE UNCHANGED <<g_job, pastes>>
    BY <2>1, <2>4 DEF LatestSoFar, AsItsPiece, Running, Placed, Size
  <2> QED BY <2>2, <2>3, <2>4, CommandJob
<1>4. ASSUME NEW s, s = NoStructure \/ s.paste = 0
      PROVE  /\ LatestSoFar(s)' /\ AsItsPiece(s)'
             /\ \A r \in Kept' : FoundBy(s, r)
  <2>1. LatestSoFar(s)' /\ AsItsPiece(s)'
    BY <1>1, <1>4 DEF LatestSoFar, AsItsPiece, Counted
  <2>2. \A r \in Kept' : r.items # {} => r.paste # 0
    BY <1>1, <1>2 DEF OfThePast
  <2> QED BY <1>4, <2>1, <2>2 DEF FoundBy
<1>5. \A s \in Known, r \in Kept' : FoundBy(s, r)
  <2>1. Kept' \subseteq Kept \cup {NoRecord}
    BY CommandJob
  <2> QED BY <1>0, <2>1 DEF LocateInv, FoundBy
<1>6. ASSUME NEW s \in Known'
      PROVE  /\ LatestSoFar(s)' /\ AsItsPiece(s)'
             /\ \A r \in Kept' : FoundBy(s, r)
  BY <1>3, <1>4, <1>5, CommandKnown
<1> QED BY <1>2, <1>6 DEF LocateInv, FoundBy

\* Under the conditions on which a record locates its pieces at all, it does so
\* among several admins: no marker is ever taken for a piece of the paste, and
\* no piece is lost from the record's sight by an outline.
THEOREM RecordsLocateAmongAll ==
  Indexed /\ Sinkless /\ BucketsApart => (PluginSpec => []RecordLocates)
<1> SUFFICES ASSUME Indexed, Sinkless, BucketsApart PROVE PluginSpec => []RecordLocates
  OBVIOUS
<1>1. PluginInit => LocateInv
  BY LocatesAtFirst DEF PluginInit
<1>2. EngineInv => Counted /\ Accounted
  BY DEF EngineInv
<1>3. TypeOK /\ PendingType /\ Counted /\ Counted' /\ Accounted /\ LocateInv
        /\ [PluginNext]_plugin_vars => LocateInv'
  BY CommandSteps, LocateStep, CommandLocates
<1>4. LocateInv => RecordLocates
  BY LocatesNow
<1> QED BY <1>1, <1>2, <1>3, <1>4, PluginTypes, EngineInvariant, PTL DEF PluginSpec

\* Nor does it take more from anybody when several admins are at work: of what
\* was not pasted, other admins' markers included, undo destroys what is of the
\* class of a piece of the paste and less than ten units from where this piece
\* was recorded, and nothing else (Paste.cpp:452-505).
THEOREM UndoSparesAll == PluginSpec => UndoSparesPlayers
<1>1. TypeOK /\ [PluginNext]_plugin_vars =>
        [UndoLastPaste =>
           \A a \in Live :
             world'.actors[a] = NoStructure /\ world.actors[a].paste = 0 =>
               \E it \in UndoRecord.items : /\ it.cls = world.actors[a].cls
                                            /\ NearPlaces(it.at, world.actors[a].at)]_vars
  BY UndoTakesNearOnly
<1> QED BY <1>1, PluginTypes, PTL DEF PluginSpec, UndoSparesPlayers

\* Where no pasted piece is of a marker's class, undo takes no marker.
UntakenMarkers == RecordsPasted /\ undone = {}

LEMMA UntakenStep ==
  ASSUME MarkersApart PROVE PluginInv /\ UntakenMarkers /\ [PluginNext]_plugin_vars => UntakenMarkers'
<1> SUFFICES ASSUME PluginInv, UntakenMarkers, [PluginNext]_plugin_vars PROVE UntakenMarkers'
  OBVIOUS
<1>0. TypeOK /\ MarkersInv /\ PendingType /\ RecordsPasted /\ undone = {}
  BY DEF PluginInv, MarkersInv, PendingType, UntakenMarkers
<1>1. RecordsPasted'
  <2>1. CASE [Next]_vars
    BY <1>0, <2>1, RecordsPastedStep
  <2>2. CASE Command
    <3>1. Kept' \subseteq Kept \cup {NoRecord}
      BY <1>0, <2>2, CommandJob
    <3> QED BY <1>0, <3>1 DEF RecordsPasted, NoRecord
  <2> QED BY <2>1, <2>2, CommandSteps
<1>2. CASE UndoAmongMarkers
  <2>1. ASSUME NEW a \in undone' PROVE FALSE
    <3>1. PICK admin \in Admins : g_pending[admin] # NoPending /\ a \in g_pending[admin].markers
      BY <1>0, <1>2, <2>1 DEF UndoAmongMarkers, Stored
    <3>2. a \in Actors /\ Held(a, admin)
      BY <1>0, <3>1, PendingFacts DEF MarkersInv
    <3>3. a \in Live /\ world'.actors[a] = NoStructure /\ UndoLastPaste
      BY <1>0, <1>2, <2>1, <3>2 DEF UndoAmongMarkers, Held, IsMarker, IsMarkerIn, Live
    <3>4. PICK it \in UndoRecord.items : it.cls = world.actors[a].cls
      BY <1>0, <3>3, UndoTakesNearOnly
    <3>5. UndoRecord \in Kept
      BY DEF UndoRecord, Kept
    <3> QED BY <1>0, <3>2, <3>4, <3>5 DEF RecordsPasted, Held, MarkersApart
  <2> QED BY <1>1, <2>1 DEF UntakenMarkers
<1>3. CASE undone' \subseteq undone
  BY <1>0, <1>1, <1>3 DEF UntakenMarkers
<1>4. undone' \subseteq undone \/ UndoAmongMarkers
  BY <1>0, PluginSteps DEF Forgotten, HandlePreview, HandleConfirm, HandleCancel, Clear
<1> QED BY <1>2, <1>3, <1>4

LEMMA CommandSparesPieces ==
  ASSUME PluginInv, undone = {}, PiecesStand, Command
  PROVE  PiecesStand'
<1>0. TypeOK /\ Counted /\ MarkersInv /\ pastes \in Nat
  BY DEF PluginInv, TypeOK
<1>1. ASSUME NEW admin \in Admins, NEW b \in Blueprints, NEW o \in Options,
             HandlePreview(admin, b, o)
      PROVE  PiecesStand'
  <2>1. UNCHANGED <<g_job, pastes>>
    BY <1>1 DEF HandlePreview
  <2>2. \A a \in Live : world'.actors[a] # world.actors[a] => IsMarker(a, admin)
    BY <1>0, <1>1, PreviewKeepsMarkers
  <2>3. ASSUME Running, NEW i \in Placed PROVE Standing(i)'
    <3>1. Standing(i) /\ world.actors[g_job.spawned[i]].paste # 0
      BY <1>0, <2>3 DEF PiecesStand, Standing, Counted
    <3>2. ~IsMarker(g_job.spawned[i], admin)
      BY <3>1 DEF IsMarker, IsMarkerIn
    <3> QED BY <2>1, <2>2, <3>1, <3>2 DEF Standing, Live
  <2> QED BY <2>1, <2>3 DEF PiecesStand, Running, Placed, Size
<1>2. ASSUME NEW admin \in Admins, HandleConfirm(admin) PROVE PiecesStand'
  <2>1. CASE UNCHANGED g_job
    BY <1>0, <1>2, <2>1 DEF HandleConfirm, PiecesStand, Running
  <2>2. ASSUME NEW b \in Blueprints, NEW o \in Options, StartJob(b, o) PROVE PiecesStand'
    BY <2>2, FreshPieces
  <2> QED BY <1>0, <1>2, <2>1, <2>2, ConfirmStep DEF MarkersInv, PendingType
<1>3. ASSUME NEW admin \in Admins, HandleCancel(admin) PROVE PiecesStand'
  BY <1>3 DEF HandleCancel, PiecesStand, Running
<1> QED BY <1>1, <1>2, <1>3 DEF Command

\* No outline that any admin puts up or takes away is what makes a link dangle,
\* where no pasted piece is of a marker's class (Preview.cpp:114-138,
\* Paste.cpp:433).
THEOREM NeighboursStayAmongAll ==
  Undestroyed /\ MarkersApart => (PluginSpec => []NeighboursExist)
<1> SUFFICES ASSUME Undestroyed, MarkersApart PROVE PluginSpec => []NeighboursExist
  OBVIOUS
<1>1. PluginInit => PiecesStand
  BY DEF PluginInit, Init, PiecesStand, Running
<1>2. PluginInv /\ UntakenMarkers /\ EngineInv /\ PiecesStand /\ [PluginNext]_plugin_vars
        => PiecesStand'
  BY CommandSteps, PiecesStandStep, CommandSparesPieces DEF PluginInv, EngineInv, UntakenMarkers
<1>3. PluginInv /\ PiecesStand => NeighboursExist
  BY NeighboursStand DEF PluginInv
<1>4. PluginInit => UntakenMarkers
  BY DEF PluginInit, Init, UntakenMarkers, RecordsPasted, Kept, NoRecord, NoFile
<1> QED BY <1>1, <1>2, <1>3, <1>4, UntakenStep, PluginInvariant, EngineInvariant, PTL DEF PluginSpec

\* Nothing of a paste is left behind by its undo, whoever pasted it, whatever
\* outlines stand around it (Paste.cpp:440-509).
THEOREM UndoLeavesNothingAmongAll ==
  Indexed /\ Sinkless /\ BucketsApart /\ AllAwake => (PluginSpec => UndoTakesAll)
<1> SUFFICES ASSUME Indexed, Sinkless, BucketsApart, AllAwake PROVE PluginSpec => UndoTakesAll
  OBVIOUS
<1>1. RecordLocates /\ [PluginNext]_plugin_vars =>
        [UndoLastPaste => \A a \in Live : world.actors[a].paste = UndoRecord.paste =>
                            world'.actors[a] = NoStructure]_vars
  BY UndoTakesFound
<1> QED BY <1>1, RecordsLocateAmongAll, PTL DEF PluginSpec, UndoTakesAll

----------------------------------------------------------------------------
(* Where a confirmed paste lands *)

\* Offsets are measured from the corner of the box that was tested, which what
\* is kept is inside of (Capture.cpp:233-238, 256, 316).
FromTheCorner == \A b \in Blueprints : \A i \in DOMAIN b : b[i].at.x >= 0 /\ b[i].at.y >= 0

\* Turned about its origin, a footprint lies between the origin and the corner
\* across from it.
LEMMA TurnedWithinCorner ==
  ASSUME FromTheCorner, NEW b \in Blueprints, NEW o \in Options, NEW i \in DOMAIN b
  PROVE  LET at == WorldLocation(b[i], o)
             far == Corner(b, o, 3)
         IN  Between(at.x, o.origin.x, far.x) /\ Between(at.y, o.origin.y, far.y)
<1> DEFINE p == b[i].at
           ex == Extent(b, "x")
           ey == Extent(b, "y")
           ox == o.origin.x
           oy == o.origin.y
<1>1. b # <<>> /\ p \in Location
  <2>1. i \in 1..Len(b) /\ b[i] \in Piece
    BY BlueprintFacts
  <2>2. Len(b) # 0
    BY <2>1
  <2> QED BY <2>1, <2>2 DEF Piece
<1>2. /\ p.x \in Int /\ 0 <= p.x /\ p.x <= ex /\ ex \in Int
      /\ p.y \in Int /\ 0 <= p.y /\ p.y <= ey /\ ey \in Int
  BY <1>1, ExtentIsGreatest DEF Location, FromTheCorner
<1>3. ox \in Int /\ oy \in Int /\ o.yaw \in 0..3
  BY PasteAssumption DEF Option, Location
<1>4. /\ WorldLocation(b[i], o).x = ox + (p.x * Cos(o.yaw) - p.y * Sin(o.yaw))
      /\ WorldLocation(b[i], o).y = oy + (p.x * Sin(o.yaw) + p.y * Cos(o.yaw))
  BY DEF WorldLocation, Translate, RotateAroundZ
<1>5. /\ Corner(b, o, 3).x = ox + (ex * Cos(o.yaw) - ey * Sin(o.yaw))
      /\ Corner(b, o, 3).y = oy + (ex * Sin(o.yaw) + ey * Cos(o.yaw))
  BY DEF Corner, Translate, RotateAroundZ
<1> HIDE DEF p, ex, ey, ox, oy
<1>6. CASE o.yaw = 0
  <2>1. Cos(o.yaw) = 1 /\ Sin(o.yaw) = 0
    BY <1>6 DEF Cos, Sin
  <2> QED BY <1>2, <1>3, <1>4, <1>5, <2>1 DEF Between, ox, oy
<1>7. CASE o.yaw = 1
  <2>1. Cos(o.yaw) = 0 /\ Sin(o.yaw) = 1
    BY <1>7 DEF Cos, Sin
  <2> QED BY <1>2, <1>3, <1>4, <1>5, <2>1 DEF Between, ox, oy
<1>8. CASE o.yaw = 2
  <2>1. Cos(o.yaw) = -1 /\ Sin(o.yaw) = 0
    BY <1>8 DEF Cos, Sin
  <2> QED BY <1>2, <1>3, <1>4, <1>5, <2>1 DEF Between, ox, oy
<1>9. CASE o.yaw = 3
  <2>1. Cos(o.yaw) = 0 /\ Sin(o.yaw) = -1
    BY <1>9 DEF Cos, Sin
  <2> QED BY <1>2, <1>3, <1>4, <1>5, <2>1 DEF Between, ox, oy
<1> QED BY <1>3, <1>6, <1>7, <1>8, <1>9

\* Whatever else was previewed, pasted, built or undone since, a confirmed paste
\* has every piece between the origin that was previewed and the marker across
\* from it, at any rotation (Preview.cpp:88-106, 331-344; Main.cpp:510-524).
THEOREM ConfirmedWhereShown == FromTheCorner => (PluginSpec => ConfirmAtMarkers)
<1> SUFFICES ASSUME FromTheCorner PROVE PluginSpec => ConfirmAtMarkers
  OBVIOUS
<1>1. PendingType /\ [PluginNext]_plugin_vars =>
        [\A admin \in Admins, m \in Live :
           /\ HandleConfirm(admin)
           /\ g_job' # NoJob
           /\ IsMarker(m, admin)
           /\ world.actors[m].at = Corner(g_pending[admin].bp, g_pending[admin].opts, 3)
           => \A i \in DOMAIN g_job'.bp :
                LET at == WorldLocation(g_job'.bp[i], g_job'.opts)
                    origin == g_job'.opts.origin
                IN  /\ Between(at.x, origin.x, world.actors[m].at.x)
                    /\ Between(at.y, origin.y, world.actors[m].at.y)]_plugin_vars
  <2> SUFFICES ASSUME PendingType, NEW admin \in Admins, NEW m \in Live,
                      HandleConfirm(admin), g_job' # NoJob,
                      world.actors[m].at = Corner(g_pending[admin].bp, g_pending[admin].opts, 3),
                      NEW i \in DOMAIN g_job'.bp
               PROVE  LET at == WorldLocation(g_job'.bp[i], g_job'.opts)
                          origin == g_job'.opts.origin
                      IN  /\ Between(at.x, origin.x, world.actors[m].at.x)
                          /\ Between(at.y, origin.y, world.actors[m].at.y)
    OBVIOUS
  <2> DEFINE b == g_pending[admin].bp
             o == g_pending[admin].opts
  <2>1. b \in Blueprints /\ o \in Options
    BY DEF HandleConfirm, PendingType, Pending
  <2>2. StartJob(b, o)
    BY DEF HandleConfirm, ConfirmedOptions, Running
  <2>3. g_job'.bp = b /\ g_job'.opts = o
    BY <2>2 DEF StartJob, NewJob
  <2> QED BY <2>1, <2>3, TurnedWithinCorner
<1> QED BY <1>1, PluginTypes, PTL DEF PluginSpec, ConfirmAtMarkers

=============================================================================
