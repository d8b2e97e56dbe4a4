------------------------------ MODULE Coverage ------------------------------
(***************************************************************************)
(* /sc cov: how many turrets reach each point of a grid around the admin,  *)
(* ScanCoverage of src/src/Coverage.cpp and HandleCoverage of Main.cpp, on *)
(* a site that is built on and pasted on as in Survey.                     *)
(***************************************************************************)
EXTENDS Survey

CONSTANTS
  Ranges,   \* the longest of each structure's TargetingRanges, 0 for no turret
  Admins,   \* where the admin may stand
  Spans,
  Asked,    \* heights above the admin that may be asked for, 0 for none
  kGrid     \* bound: 21 in the code

ASSUME CoverageAssumption ==
  /\ Ranges \in [Structures -> Nat]
  /\ Admins \subseteq Location
  /\ Spans \subseteq Nat \ {0}
  /\ Asked \subseteq Int
  /\ kGrid \in Nat \ {0, 1}

VARIABLE cover   \* the map on the admin's screen, until something else happens

kLongestTurretRange == 12000

Squared(u, v) ==
  (u.x - v.x) * (u.x - v.x) + (u.y - v.y) * (u.y - v.y) + (u.z - v.z) * (u.z - v.z)

Within(u, v, r) == Squared(u, v) <= r * r

\* Mistake: turrets beside the square are forgotten.
JustTheLongest(span) == kLongestTurretRange

SearchRadius(span) == (span * 7071) \div 10000 + kLongestTurretRange

\* Both groups of the octree are asked.
Emplacements(center, span) ==
  {s \in standing : Ranges[s] > 0 /\ Within(s.at, center, SearchRadius(span))}

Cells(center, span) ==
  {<<center.x + (span * gx) \div (kGrid - 1) - span \div 2,
     center.y + (span * gy) \div (kGrid - 1) - span \div 2>> :
     gx \in 0..(kGrid - 1), gy \in 0..(kGrid - 1)}

\* The height of all samples, 0 to follow the ground.
FixedZ(center, asked) == IF asked = 0 THEN 0 ELSE center.z + asked

\* The cells that are sampled, with no hit where the trace finds no ground.
HitCells(center, span, fixed_z) ==
  {c \in Cells(center, span) : fixed_z # 0 \/ Traced(center.z, c)}

\* Mistake: the grid is taken at the admin's height.
AtEyeLevel(c, center, fixed_z) == [x |-> c[1], y |-> c[2], z |-> center.z]

SampleAt(c, center, fixed_z) ==
  [x |-> c[1], y |-> c[2], z |-> IF fixed_z # 0 THEN fixed_z ELSE GroundAt(c)]

ScanCoverage(center, span, fixed_z) ==
  [c \in HitCells(center, span, fixed_z) |->
     Cardinality({s \in Emplacements(center, span) :
                    Within(s.at, SampleAt(c, center, fixed_z), Ranges[s])})]

CoverageInit == Init /\ cover = NoReport

\* asked is history: what the admin typed.
HandleCoverage(center, span, asked) ==
  /\ Emplacements(center, span) # {}
  /\ cover' = [count |-> ScanCoverage(center, span, FixedZ(center, asked)),
               center |-> center, asked |-> asked]
  /\ UNCHANGED vars

CoverageNext ==
  \/ Next /\ cover' = NoReport
  \/ \E center \in Admins, span \in Spans, asked \in Asked : HandleCoverage(center, span, asked)

CoverageSpec == CoverageInit /\ [][CoverageNext]_<<vars, cover>>

----------------------------------------------------------------------------

\* What the admin wants to know of a cell.
Wanted(c) ==
  [x |-> c[1], y |-> c[2],
   z |-> IF cover.asked = 0 THEN GroundAt(c) ELSE cover.center.z + cover.asked]

\* "How many turrets can engage each point": every turret there is that reaches
\* a point, above it or far beside the square, is counted there and no other,
\* as "flat circles would claim cover that is not there" (Main.cpp:329-331).
CoverIsReal ==
  cover # NoReport =>
    \A c \in DOMAIN cover.count :
      cover.count[c] = Cardinality({s \in standing :
                         Ranges[s] > 0 /\ Within(s.at, Wanted(c), Ranges[s])})
============================================================================
