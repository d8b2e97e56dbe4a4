----------------------------- MODULE MCCapture -----------------------------
(***************************************************************************)
(* Three structures around a box of two by two corners: their places, who  *)
(* can be read and named, and how they are linked and mounted.             *)
(***************************************************************************)
EXTENDS Capture

CONSTANTS s1, s2, s3

P(x, y, z) == [x |-> x, y |-> y, z |-> z]

ThreeStructures == {s1, s2, s3}
CaptureClasses == {"stone", "lamp"}

\* A long low box, 600 by 600 by 0 before the margin of 150; or all of it in
\* the corner an admin stands in twice.
BoxCorners == {P(0, 0, 0), P(600, 600, 0)}

Inside == P(300, 300, 0)
Edge == P(-150, 300, 150)      \* on the grown box
Beside == P(800, 300, 0)       \* outside, within the enclosing sphere
Diagonal == P(900, 900, 0)     \* within 500 of the box, outside the sphere

LinkChoices == {<<>>, <<s1, s2>>, <<s3, s1, s2>>}

Paths == {s1 :> p @@ s2 :> q @@ s3 :> "lamp" : p \in {"stone", NoPath}, q \in {"lamp", NoPath}}
Floors == {s1 :> NoFloor @@ s2 :> f @@ s3 :> s2 : f \in {s1, NoFloor}}

SceneIn(places, asleep) ==
  {[at |-> s1 :> Inside @@ s2 :> p @@ s3 :> q, awake |-> Structures \ asleep,
    readable |-> Structures \ unreadable, path |-> path, linked |-> linked, floor |-> floor] :
     p \in places, q \in places, unreadable \in {{}, {s2}},
     path \in Paths, linked \in [Structures -> LinkChoices], floor \in Floors}

CaptureScenes == SceneIn({Inside, Edge, Beside}, {})

\* The same with one of the structures in stasis, or beyond the sphere.
AsleepScenes == SceneIn({Inside}, {s3})
DiagonalScenes == SceneIn({Diagonal}, {})
============================================================================
