------------------------------ MODULE Capture ------------------------------
(***************************************************************************)
(* /sb save: CaptureSelection of src/src/Capture.cpp. A first pass keeps   *)
(* the structures inside the admin's box, a second makes pieces of those   *)
(* whose class can be named, a third turns the actors they are linked to   *)
(* and mounted on into indices of pieces. The scene does not change while  *)
(* this runs on the game thread. Contents and turret state are left out.   *)
(***************************************************************************)
EXTENDS Lists, SequencesExt

CONSTANTS
  Structures,   \* actors near the selection
  Classes,      \* blueprint paths
  Corners,      \* places an admin may stand at to set a corner
  Scenes,       \* the surroundings explored
  Margin,
  NoPath, NoFloor, NoCorner

Place == [x: Int, y: Int, z: Int]

\* awake: those the octree returns (Capture.h:58); readable: those with a root
\* component; path: what GetBlueprintPath makes of their class.
Scene == [at: [Structures -> Place],
          awake: SUBSET Structures,
          readable: SUBSET Structures,
          path: [Structures -> Classes \cup {NoPath}],
          linked: [Structures -> Seq(Structures)],
          floor: [Structures -> Structures \cup {NoFloor}]]

ASSUME CaptureAssumption ==
  /\ IsFiniteSet(Structures)
  /\ Corners \subseteq Place
  /\ Scenes \subseteq Scene
  /\ Margin \in Nat
  /\ NoPath \notin Classes
  /\ NoFloor \notin Structures
  /\ NoCorner \notin Place

VARIABLES
  scene,
  sel,            \* the admin's two corners
  phase,          \* "idle", or the pass that is running
  cursor,         \* how far that pass is
  found,          \* what the octree returned, deduped
  kept,           \* the structures inside the box
  kept_to_piece,  \* kept index -> piece index, 0 when skipped
  classes,        \* the class dictionary
  pieces,
  stats,
  saved           \* history: the last save succeeded, and the corners still
                  \* are where they were then

vars == <<scene, sel, phase, cursor, found, kept, kept_to_piece, classes, pieces, stats, saved>>

Stats == [in_box: Nat, near_miss: Nat, no_transform: Nat, no_path: Nat,
          links_captured: Nat, links_outside: Nat, floors_captured: Nat]

NoStats == [in_box |-> 0, near_miss |-> 0, no_transform |-> 0, no_path |-> 0,
            links_captured |-> 0, links_outside |-> 0, floors_captured |-> 0]

----------------------------------------------------------------------------
(* The selection *)

Complete == sel.a # NoCorner /\ sel.b # NoCorner

Least(u, v) == IF u <= v THEN u ELSE v
Most(u, v) == IF u <= v THEN v ELSE u

Lo == [d \in {"x", "y", "z"} |-> Least(sel.a[d], sel.b[d]) - Margin]
Hi == [d \in {"x", "y", "z"} |-> Most(sel.a[d], sel.b[d]) + Margin]

Within(p, lo, hi, pad) ==
  \A d \in {"x", "y", "z"} : lo[d] - pad <= p[d] /\ p[d] <= hi[d] + pad

\* Mistake: what stands just outside is captured with the rest.
InWideBox(p) == Within(p, Lo, Hi, 500)

InBox(p) == Within(p, Lo, Hi, 0)

\* Just outside: the selection probably clips the build.
NearMiss(p) == ~InBox(p) /\ Within(p, Lo, Hi, 500)

\* Inside EnclosingSphere; everything doubled to stay in the integers.
InSphere(p) ==
  LET sq(u) == u * u
      off(d) == sq(2 * p[d] - Lo[d] - Hi[d])
      dia(d) == sq(Hi[d] - Lo[d])
  IN  off("x") + off("y") + off("z") <= dia("x") + dia("y") + dia("z")

Collected == {s \in scene.awake : InSphere(scene.at[s])}

----------------------------------------------------------------------------
(* Helpers of the passes *)

IndexOf(s) == CHOOSE k \in DOMAIN kept : kept[k] = s

\* Mistake: indices of kept taken for indices of pieces.
Drifted(s) == IF s \in ToSet(kept) THEN IndexOf(s) ELSE 0

\* The piece an actor became, 0 for one that was not kept or was skipped.
PieceOf(s) == IF s \in ToSet(kept) THEN kept_to_piece[IndexOf(s)] ELSE 0

\* Mistake: counted after the piece was added.
LateIndex == Len(pieces) + 2

NextIndex == Len(pieces) + 1

Intern(c) == IF c \in ToSet(classes) THEN CHOOSE i \in DOMAIN classes : classes[i] = c
             ELSE Len(classes) + 1

\* Mistake: a structure outside the box is dropped without a word.
Unnoticed(s) == stats

\* What is counted for a structure that is not kept.
Passed(s) ==
  IF s \notin scene.readable THEN [stats EXCEPT !.no_transform = @ + 1]
  ELSE IF NearMiss(scene.at[s]) THEN [stats EXCEPT !.near_miss = @ + 1]
  ELSE stats

----------------------------------------------------------------------------

Init ==
  /\ scene \in Scenes
  /\ sel = [a |-> NoCorner, b |-> NoCorner]
  /\ phase = "idle"
  /\ cursor = 0
  /\ found = <<>>
  /\ kept = <<>>
  /\ kept_to_piece = <<>>
  /\ classes = <<>>
  /\ pieces = <<>>
  /\ stats = NoStats
  /\ saved = FALSE

SetCorner(which, p) ==
  /\ phase = "idle"
  /\ sel' = [sel EXCEPT ![which] = p]
  /\ saved' = FALSE
  /\ UNCHANGED <<scene, phase, cursor, found, kept, kept_to_piece, classes, pieces, stats>>

ClearSelection ==
  /\ phase = "idle"
  /\ sel' = [a |-> NoCorner, b |-> NoCorner]
  /\ saved' = FALSE
  /\ UNCHANGED <<scene, phase, cursor, found, kept, kept_to_piece, classes, pieces, stats>>

\* The octree gives its actors in an order of its own.
HandleSave ==
  /\ phase = "idle"
  /\ Complete
  /\ found' \in SetToSeqs(Collected)
  /\ phase' = "keep"
  /\ cursor' = 0
  /\ kept' = <<>>
  /\ kept_to_piece' = <<>>
  /\ classes' = <<>>
  /\ pieces' = <<>>
  /\ stats' = NoStats
  /\ saved' = FALSE
  /\ UNCHANGED <<scene, sel>>

Keep ==
  LET s == found[cursor + 1]
  IN  /\ phase = "keep"
      /\ cursor < Len(found)
      /\ cursor' = cursor + 1
      /\ IF s \in scene.readable /\ InBox(scene.at[s])
         THEN /\ kept' = Append(kept, s)
              /\ stats' = [stats EXCEPT !.in_box = @ + 1]
         ELSE /\ stats' = Passed(s)
              /\ UNCHANGED kept
      /\ UNCHANGED <<scene, sel, phase, found, kept_to_piece, classes, pieces, saved>>

KeepEnds ==
  /\ phase = "keep"
  /\ cursor = Len(found)
  /\ phase' = IF kept = <<>> THEN "idle" ELSE "make"
  /\ cursor' = 0
  /\ kept_to_piece' = [k \in DOMAIN kept |-> 0]
  /\ UNCHANGED <<scene, sel, found, kept, classes, pieces, stats, saved>>

MakePiece ==
  LET s == kept[cursor + 1]
      c == scene.path[s]
  IN  /\ phase = "make"
      /\ cursor < Len(kept)
      /\ cursor' = cursor + 1
      /\ IF c = NoPath
         THEN /\ stats' = [stats EXCEPT !.no_path = @ + 1]
              /\ UNCHANGED <<kept_to_piece, classes, pieces>>
         ELSE /\ kept_to_piece' = [kept_to_piece EXCEPT ![cursor + 1] = NextIndex]
              /\ classes' = IF c \in ToSet(classes) THEN classes ELSE Append(classes, c)
              /\ pieces' = Append(pieces,
                   [class_index |-> Intern(c),
                    at |-> [d \in {"x", "y", "z"} |-> scene.at[s][d] - Lo[d]],
                    floor |-> 0, links |-> <<>>])
              /\ UNCHANGED stats
      /\ UNCHANGED <<scene, sel, phase, found, kept, saved>>

MakeEnds ==
  /\ phase = "make"
  /\ cursor = Len(kept)
  /\ phase' = "link"
  /\ cursor' = 0
  /\ UNCHANGED <<scene, sel, found, kept, kept_to_piece, classes, pieces, stats, saved>>

\* Floor and links of one kept structure.
LinkPiece ==
  LET s == kept[cursor + 1]
      self == kept_to_piece[cursor + 1]
      floor == IF scene.floor[s] = NoFloor THEN 0 ELSE PieceOf(scene.floor[s])
      usable == {t \in Structures : PieceOf(t) \notin {0, self}}
      outside == Structures \ ToSet(kept)
      targets == Among(scene.linked[s], usable)
  IN  /\ phase = "link"
      /\ cursor < Len(kept)
      /\ cursor' = cursor + 1
      /\ IF self = 0 THEN UNCHANGED <<pieces, stats>>
         ELSE /\ pieces' = [pieces EXCEPT
                   ![self].floor = IF floor # self THEN floor ELSE 0,
                   ![self].links = [i \in DOMAIN targets |-> PieceOf(targets[i])]]
              /\ stats' = [stats EXCEPT
                   !.floors_captured = @ + (IF floor \notin {0, self} THEN 1 ELSE 0),
                   !.links_captured = @ + Len(targets),
                   !.links_outside = @ + Len(Among(scene.linked[s], outside))]
      /\ UNCHANGED <<scene, sel, phase, found, kept, kept_to_piece, classes, saved>>

\* The capture fails when no kept structure has a class that can be named.
LinkEnds ==
  /\ phase = "link"
  /\ cursor = Len(kept)
  /\ phase' = "idle"
  /\ saved' = (pieces # <<>>)
  /\ UNCHANGED <<scene, sel, cursor, found, kept, kept_to_piece, classes, pieces, stats>>

Next ==
  \/ \E which \in {"a", "b"}, p \in Corners : SetCorner(which, p)
  \/ ClearSelection
  \/ HandleSave
  \/ Keep
  \/ KeepEnds
  \/ MakePiece
  \/ MakeEnds
  \/ LinkPiece
  \/ LinkEnds

Spec == Init /\ [][Next]_vars

----------------------------------------------------------------------------
(* Properties *)

\* The types of the state, and the parallel vectors in step: kept_to_piece
\* numbers the pieces in the order of kept (Capture.cpp:291-294, 384-385).
TypeOK ==
  /\ scene \in Scene
  /\ sel \in [a: Corners \cup {NoCorner}, b: Corners \cup {NoCorner}]
  /\ phase \in {"idle", "keep", "make", "link"}
  /\ cursor \in Nat
  /\ found \in Seq(Structures)
  /\ kept \in Seq(Structures)
  /\ kept_to_piece \in Seq(Nat)
  /\ classes \in Seq(Classes)
  /\ pieces \in Seq([class_index: Nat, at: Place, floor: Nat, links: Seq(Nat)])
  /\ stats \in Stats
  /\ saved \in BOOLEAN
  /\ phase \in {"make", "link"} \/ saved =>
       /\ Len(kept_to_piece) = Len(kept)
       /\ Among(kept_to_piece, Nat \ {0}) = [i \in DOMAIN pieces |-> i]

\* The structures captured, in the order of their pieces.
Origins == Among(kept, {s \in Structures : scene.path[s] # NoPath})

\* A save is the scene it was taken of: "without this remap the link indices
\* would drift ..., silently wiring pieces to wrong neighbours"
\* (Capture.cpp:291-293). Each piece is linked to the pieces of exactly the
\* captured structures its own was linked to, in order, and sits on the piece
\* of the floor its own sat on.
WiredLikeTheScene ==
  saved =>
    /\ Len(pieces) = Len(Origins)
    /\ \A i \in DOMAIN pieces :
         LET s == Origins[i]
             neighbours == Among(scene.linked[s], ToSet(Origins) \ {s})
             links == pieces[i].links
         IN  /\ Len(links) = Len(neighbours)
             /\ \A k \in DOMAIN links : /\ links[k] \in DOMAIN pieces
                                       /\ Origins[links[k]] = neighbours[k]
             /\ IF scene.floor[s] \in ToSet(Origins) \ {s}
                THEN pieces[i].floor \in DOMAIN pieces /\ Origins[pieces[i].floor] = scene.floor[s]
                ELSE pieces[i].floor = 0
             /\ pieces[i].class_index \in DOMAIN classes
             /\ classes[pieces[i].class_index] = scene.path[s]

\* Each piece stands where its structure stood, measured from the corner of
\* the grown box that is written down as the origin, and inside the size
\* written beside it (Capture.cpp:234-235, 282-288, 316-318). Preview's far
\* marker, its burial check and its search for obstacles take this for granted.
PlacedLikeTheScene ==
  saved =>
    \A i \in DOMAIN pieces, d \in {"x", "y", "z"} :
      /\ Lo[d] + pieces[i].at[d] = scene.at[Origins[i]][d]
      /\ pieces[i].at[d] \in 0..(Hi[d] - Lo[d])

\* "Silently dropping these is what let a 3x3 come back as a 3x2 with no
\* indication anything was lost" (Capture.cpp:263-266): of the structures
\* within 500 units of the box none is passed over without being counted.
NearMissesCounted ==
  saved => stats.near_miss = Cardinality({s \in scene.readable : NearMiss(scene.at[s])})

\* "Always show where actors were lost" (Main.cpp:108-109): a structure in the
\* box is captured, or counted among those without path or transform.
LossesShown ==
  saved =>
    LET inside == {s \in Structures : InBox(scene.at[s])}
    IN  Cardinality(inside) <= Len(pieces) + stats.no_path + stats.no_transform

\* The links reported make up the links of the structures captured: captured
\* as links, pointing out of the box, or to a structure without a path
\* (Capture.cpp:414-428).
LinksAddUp ==
  saved =>
    LET dropped(t, s) == t = s \/ (t \in ToSet(kept) /\ scene.path[t] = NoPath)
        counted(s) == {n \in DOMAIN scene.linked[s] : ~dropped(scene.linked[s][n], s)}
    IN  stats.links_captured + stats.links_outside =
          Cardinality(UNION {{s} \X counted(s) : s \in ToSet(Origins)})
============================================================================
