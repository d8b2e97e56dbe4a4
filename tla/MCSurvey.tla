------------------------------ MODULE MCSurvey ------------------------------
(***************************************************************************)
(* A tower captured from a corner 100 below and beside it, on level ground *)
(* and on grounds with a mound or a ditch at one column of the site.       *)
(***************************************************************************)
EXTENDS Coverage

L(x, y, z) == [x |-> x, y |-> y, z |-> z]

\* 1200 by 600: the grids of 7 and of 5 points fall on whole units.
Tower == [pieces |-> {L(200, 100, 100), L(200, 100, 400), L(1200, 600, 100), L(600, 300, 100)},
          size |-> L(1200, 600, 500)]

\* The ground mode is looked at where the build is snapped to the ground.
SiteOptions(sinks) ==
  {o \in [origin: {L(0, 0, 50)}, yaw: 0..3, sink: sinks, snap_to_ground: BOOLEAN,
          ground_mode: {"average", "highest", "lowest"}] :
     o.snap_to_ground \/ o.ground_mode = "average"}

Mound == [base |-> 0, bumps |-> [c \in {<<600, 300>>} |-> 490]]
Ditch == [base |-> 0, bumps |-> [c \in {<<-600, 1200>>, <<1200, 600>>} |-> -147]]
Level == [base |-> 10, bumps |-> [c \in {} |-> 0]]

OneTower == {Tower}
Flat == SiteOptions({0})
Sunk == SiteOptions({0, 100})
Grounds == {Mound, Ditch, Level}

\* One in the tower on level ground, one in it when turned, one beside it.
Walls == {[at |-> L(200, 100, 10), core |-> FALSE], [at |-> L(-100, 200, 10), core |-> FALSE],
          [at |-> L(200, 900, 10), core |-> FALSE]}
Foundations == {[at |-> L(200, 100, 10), core |-> TRUE]}
Unarmed == [s \in Foundations |-> 0]

\* A turret far beside the site, almost at the longest range, and two of the walls.
FarTurret == [at |-> L(12500, 0, 10), core |-> TRUE]
Emplaced == Walls \cup {FarTurret}
Reach == [s \in Emplaced |->
            IF s = FarTurret THEN 11990 ELSE IF s.at.y = 100 THEN 450 ELSE IF s.at.x = -100 THEN 600 ELSE 0]
OneAdmin == {L(0, 0, 50)}
AboveOrNot == {0, 100}
\* 50 below the admin is height 0.
AtSeaLevel == {-50}
\* The admin hovers 10050 above the land the far turret stands on.
DeepLand == {[base |-> -10000, bumps |-> [c \in {} |-> 0]]}
FarBelow == [at |-> L(12500, 0, -10000), core |-> TRUE]
EmplacedBelow == {FarBelow, [at |-> L(200, 100, 40), core |-> FALSE]}
ReachBelow == [s \in EmplacedBelow |-> 12000]
============================================================================
