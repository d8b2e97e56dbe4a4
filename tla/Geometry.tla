------------------------------ MODULE Geometry ------------------------------
(***************************************************************************)
(* The coordinates of src/src/ArkUtils.h and the undo buckets of           *)
(* src/src/Paste.cpp, in whole units and quarter turns: the rotations the  *)
(* plugin is meant for, and the ones that keep coordinates integral.       *)
(***************************************************************************)
EXTENDS Integers

Location == [x: Int, y: Int, z: Int]

Cos(q) == CASE q = 0 -> 1 [] q = 2 -> -1 [] OTHER -> 0
Sin(q) == CASE q = 1 -> 1 [] q = 3 -> -1 [] OTHER -> 0

RotateAroundZ(v, q) ==
  [x |-> v.x * Cos(q) - v.y * Sin(q),
   y |-> v.x * Sin(q) + v.y * Cos(q),
   z |-> v.z]

Translate(v, o) == [x |-> o.x + v.x, y |-> o.y + v.y, z |-> o.z + v.z]

\* std::lround(c / 10): to the nearest, halves away from zero.
Bucket(c) == IF c >= 0 THEN (c + 5) \div 10 ELSE -((5 - c) \div 10)

Key(v) == <<Bucket(v.x), Bucket(v.y), Bucket(v.z)>>
============================================================================
