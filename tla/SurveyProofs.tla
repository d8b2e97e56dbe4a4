---------------------------- MODULE SurveyProofs ----------------------------
(***************************************************************************)
(* The theorems of Survey: what a preview says of a site is what a paste   *)
(* confirmed on it then does there, whatever the build, the ground and the *)
(* turn; and a coverage map counts every turret there is.                  *)
(***************************************************************************)
EXTENDS Coverage, ListProofs

\* The trace from every origin asked for finds the ground wherever it is:
\* it is no more than 3000 above and 20000 below.
GroundInReach ==
  \A t \in Terrains, o \in Options :
    /\ o.origin.z - 20000 <= t.base /\ t.base <= o.origin.z + 3000
    /\ \A c \in DOMAIN t.bumps : o.origin.z - 20000 <= t.bumps[c] /\ t.bumps[c] <= o.origin.z + 3000

\* The burial check and the search for obstacles leave out the sink.
Sinkless == \A o \in Options : o.sink = 0

\* The search for obstacles asks one group of the octree.
Coreless == \A s \in Structures : ~s.core

----------------------------------------------------------------------------
(* Numbers *)

LEMMA MeanFacts ==
  ASSUME NEW n \in Nat \ {0}, NEW s \in Int, NEW lo \in Int, NEW hi \in Int,
         n * lo <= s, s <= n * hi
  PROVE  s \div n \in Int /\ lo <= s \div n /\ s \div n <= hi
<1> DEFINE q == s \div n
<1>1. q \in Int /\ n * q <= s /\ s < n * q + n
  OBVIOUS
<1> HIDE DEF q
<1>2. ASSUME q < lo PROVE FALSE
  <2>1. q + 1 <= lo
    BY <1>1, <1>2
  <2>2. n * (q + 1) <= n * lo
    BY <1>1, <2>1
  <2>3. n * (q + 1) = n * q + n
    BY <1>1
  <2>4. n * q \in Int /\ n * lo \in Int
    BY <1>1
  <2> QED BY <1>1, <2>2, <2>3, <2>4
<1>3. ASSUME hi < q PROVE FALSE
  <2>1. hi + 1 <= q
    BY <1>1, <1>3
  <2>2. n * (hi + 1) <= n * q
    BY <1>1, <2>1
  <2>3. n * (hi + 1) = n * hi + n
    OBVIOUS
  <2>4. n * q \in Int /\ n * hi \in Int
    BY <1>1
  <2> QED BY <1>1, <2>2, <2>3, <2>4
<1> QED BY <1>1, <1>2, <1>3 DEF q

LEMMA SquareNat ==
  ASSUME NEW a \in Int
  PROVE  a * a \in Nat
OBVIOUS

LEMMA ProductMonotone ==
  ASSUME NEW a \in Nat, NEW b \in Nat, NEW c \in Nat, NEW d \in Nat, a <= b, c <= d
  PROVE  a * c <= b * d
<1>1. a * c <= b * c
  OBVIOUS
<1>2. b * c <= b * d
  OBVIOUS
<1>3. a * c \in Int /\ b * c \in Int /\ b * d \in Int
  OBVIOUS
<1> QED BY <1>1, <1>2, <1>3

LEMMA RootMonotone ==
  ASSUME NEW a \in Int, NEW b \in Nat, a * a <= b * b
  PROVE  a <= b
<1> SUFFICES ASSUME b < a PROVE FALSE
  OBVIOUS
<1>1. b + 1 <= a /\ a \in Nat
  OBVIOUS
<1>2. (b + 1) * (b + 1) <= a * a
  BY <1>1, ProductMonotone
<1>3. (b + 1) * (b + 1) = b * b + 2 * b + 1
  OBVIOUS
<1>4. b * b \in Int /\ a * a \in Int
  OBVIOUS
<1> QED BY <1>2, <1>3, <1>4

LEMMA Cauchy ==
  ASSUME NEW a \in Int, NEW b \in Int, NEW c \in Int, NEW p \in Int, NEW q \in Int, NEW s \in Int
  PROVE  (a * p + b * q + c * s) * (a * p + b * q + c * s)
           <= (a * a + b * b + c * c) * (p * p + q * q + s * s)
<1> DEFINE e == a * q - b * p
           f == a * s - c * p
           g == b * s - c * q
<1>1. (a * a + b * b + c * c) * (p * p + q * q + s * s)
       = (a * p + b * q + c * s) * (a * p + b * q + c * s) + e * e + f * f + g * g
  BY SMTT(60)
<1>2. e * e \in Nat /\ f * f \in Nat /\ g * g \in Nat
  <2>1. e \in Int /\ f \in Int /\ g \in Int
    OBVIOUS
  <2> HIDE DEF e, f, g
  <2> QED BY <2>1, SquareNat
<1>3. (a * p + b * q + c * s) * (a * p + b * q + c * s) \in Int
  OBVIOUS
<1> HIDE DEF e, f, g
<1> QED BY <1>1, <1>2, <1>3

----------------------------------------------------------------------------
(* The ground *)

LEMMA GroundIsHeight ==
  ASSUME terrain \in Terrains, NEW c
  PROVE  GroundAt(c) \in Int
BY SurveyAssumption DEF GroundAt

LEMMA GroundReached ==
  ASSUME terrain \in Terrains, GroundInReach, NEW o \in Options, NEW c
  PROVE  Traced(o.origin.z, c)
BY DEF GroundInReach, Traced, GroundAt

LEMMA PointsAreFinite ==
  ASSUME NEW n \in Nat \ {0}
  PROVE  IsFiniteSet(GridPoints(n)) /\ GridPoints(n) # {}
<1>1. 0 \in Int /\ n - 1 \in Int /\ 0 \in 0..(n - 1)
  OBVIOUS
<1>2. IsFiniteSet(0..(n - 1))
  BY <1>1, FS_Interval
<1>3. IsFiniteSet((0..(n - 1)) \X (0..(n - 1)))
  BY <1>2, FS_Product
<1>4. <<0, 0>> \in (0..(n - 1)) \X (0..(n - 1))
  BY <1>1
<1> QED BY <1>3, <1>4 DEF GridPoints

\* The sum of the heights found at finitely many points.
LEMMA SumFacts ==
  ASSUME NEW cs, IsFiniteSet(cs), NEW h \in [cs -> Int], NEW lo \in Int, NEW hi \in Int,
         \A c \in cs : lo <= h[c] /\ h[c] <= hi
  PROVE  /\ Sum(h) \in Int
         /\ Cardinality(cs) * lo <= Sum(h) /\ Sum(h) <= Cardinality(cs) * hi
<1> DEFINE solves(g) == g = [s \in SUBSET cs |->
                               IF s = {} THEN 0
                               ELSE h[CHOOSE x \in s : TRUE] + g[s \ {CHOOSE x \in s : TRUE}]]
           iter == CHOOSE g : solves(g)
<1>0. DOMAIN h = cs
  OBVIOUS
<1>1. Sum(h) = iter[cs]
  BY <1>0 DEF Sum, FoldSet, MapThenFoldSet
<1>2. \A g : Adds(g, cs, h) <=> solves(g)
  <2> SUFFICES ASSUME NEW g
               PROVE  Adds(g, cs, h) <=> solves(g)
    OBVIOUS
  <2>1. \A s : Some(s) = CHOOSE x \in s : TRUE
    BY DEF Some
  <2> QED BY <2>1, ZenonT(40) DEF Adds
<1>3. \E g : solves(g)
  <2>1. PICK g : Adds(g, cs, h)
    BY SumExists
  <2>2. solves(g)
    BY <1>2, <2>1
  <2> QED BY <2>2
<1> HIDE DEF solves
<1>4. Adds(iter, cs, h)
  BY <1>2, <1>3
<1>5. \A x \in cs : h[x] \in Int /\ lo <= h[x] /\ h[x] <= hi
  OBVIOUS
<1>6. PICK k : k = h
  OBVIOUS
<1> HIDE DEF iter
<1>7. iter[cs] \in Int /\ Cardinality(cs) * lo <= iter[cs] /\ iter[cs] <= Cardinality(cs) * hi
  <2>1. \A x \in cs : k[x] \in Int /\ lo <= k[x] /\ k[x] <= hi
    BY <1>5, <1>6
  <2>2. Adds(iter, cs, k)
    BY <1>4, <1>6
  <2> QED BY ONLY IsFiniteSet(cs), lo \in Int, hi \in Int, <2>1, <2>2, SumBounds, Zenon
<1> QED BY <1>1, <1>7

----------------------------------------------------------------------------
(* The build on its site *)

LEMMA PlacedFacts ==
  ASSUME NEW v \in Location, NEW o \in Option
  PROVE  /\ Placed(v, o) \in Location
         /\ Placed(v, o).z = o.origin.z + v.z
         /\ o.yaw = 0 => Placed(v, o).x = o.origin.x + v.x /\ Placed(v, o).y = o.origin.y + v.y
         /\ o.yaw = 1 => Placed(v, o).x = o.origin.x - v.y /\ Placed(v, o).y = o.origin.y + v.x
         /\ o.yaw = 2 => Placed(v, o).x = o.origin.x - v.x /\ Placed(v, o).y = o.origin.y - v.y
         /\ o.yaw = 3 => Placed(v, o).x = o.origin.x + v.y /\ Placed(v, o).y = o.origin.y - v.x
<1>1. o.yaw \in 0..3 /\ o.origin \in Location
  BY DEF Option
<1>2. CASE o.yaw = 0
  BY <1>1, <1>2 DEF Placed, Translate, RotateAroundZ, Cos, Sin, Location
<1>3. CASE o.yaw = 1
  BY <1>1, <1>3 DEF Placed, Translate, RotateAroundZ, Cos, Sin, Location
<1>4. CASE o.yaw = 2
  BY <1>1, <1>4 DEF Placed, Translate, RotateAroundZ, Cos, Sin, Location
<1>5. CASE o.yaw = 3
  BY <1>1, <1>5 DEF Placed, Translate, RotateAroundZ, Cos, Sin, Location
<1> QED BY <1>1, <1>2, <1>3, <1>4, <1>5

LEMMA LandingFacts ==
  ASSUME NEW p \in Location, NEW o \in Option
  PROVE  /\ Landing(p, o).z = o.origin.z + p.z - o.sink
         /\ o.sink = 0 => Landing(p, o) = Placed(p, o)
<1>1. Placed(p, o) \in Location /\ Placed(p, o).z = o.origin.z + p.z
  BY PlacedFacts
<1>2. o.sink \in Int /\ o.origin.z \in Int /\ p.z \in Int
  BY DEF Option, Location
<1> DEFINE v == Placed(p, o)
<1>3. Landing(p, o) = [v EXCEPT !.z = v.z - o.sink]
  BY DEF Landing
<1> HIDE DEF v
<1>4. v = [x |-> v.x, y |-> v.y, z |-> v.z] /\ v.z \in Int
  BY <1>1 DEF Location, v
<1>5. [v EXCEPT !.z = v.z - o.sink] = [x |-> v.x, y |-> v.y, z |-> v.z - o.sink]
  BY <1>4
<1>6. Landing(p, o).z = v.z - o.sink
  BY <1>3, <1>5
<1>7. ASSUME o.sink = 0 PROVE Landing(p, o) = v
  BY <1>2, <1>3, <1>4, <1>5, <1>7
<1> QED BY <1>1, <1>2, <1>6, <1>7 DEF v

LEMMA LowestFacts ==
  ASSUME NEW b \in Blueprints
  PROVE  /\ LowestPiece(b) \in Int /\ \E p \in b.pieces : p.z = LowestPiece(b)
         /\ \A p \in b.pieces : p \in Location /\ LowestPiece(b) <= p.z
<1> DEFINE Z == {p.z : p \in b.pieces}
<1>1. \A p \in b.pieces : p \in Location /\ p.z \in Int /\ 0 <= p.z
  BY SurveyAssumption DEF Enclosed, Location
<1>2. b.pieces # {}
  BY SurveyAssumption
<1>3. Z \in SUBSET Int /\ Z # {} /\ \A k \in Z : 0 <= k
  BY <1>1, <1>2
<1>4. Min(Z) \in Z /\ \A k \in Z : Min(Z) <= k
  <2> HIDE DEF Z
  <2>1. 0 \in Int
    OBVIOUS
  <2> QED BY <1>3, <2>1, LeastAbove
<1> QED BY <1>1, <1>4 DEF LowestPiece

LEMMA Between ==
  ASSUME NEW S \in SUBSET Int, NEW lo \in Int, NEW hi \in Int,
         \A k \in S : lo <= k /\ k <= hi, NEW low \in S, NEW high \in S, NEW k \in Int,
         low <= k, k <= high
  PROVE  Min(S) <= k /\ k <= Max(S)
<1>1. Min(S) \in S /\ Min(S) <= low
  BY LeastAbove
<1>2. Max(S) \in S /\ high <= Max(S)
  BY GreatestBelow
<1>3. Min(S) \in Int /\ Max(S) \in Int /\ low \in Int /\ high \in Int
  BY <1>1, <1>2
<1> QED BY <1>1, <1>2, <1>3

\* Whatever the turn, the volume that is searched holds every piece.
LEMMA VolumeHolds ==
  ASSUME NEW b \in Blueprints, NEW o \in Option, NEW p \in b.pieces
  PROVE  InVolume(Placed(p, o), b, o)
<1> DEFINE sx == b.size.x
           sy == b.size.y
           corners == [x: {0, sx}, y: {0, sy}, z: {0}]
           at(x, y) == [x |-> x, y |-> y, z |-> 0]
           xs == {c.x : c \in FootprintCorners(b, o)}
           ys == {c.y : c \in FootprintCorners(b, o)}
           ox == o.origin.x
           oy == o.origin.y
<1>1. /\ sx \in Int /\ sy \in Int /\ b.size.z \in Int /\ p \in Location
      /\ 0 <= p.x /\ p.x <= sx /\ 0 <= p.y /\ p.y <= sy /\ 0 <= p.z /\ p.z <= b.size.z
      /\ p.x \in Int /\ p.y \in Int /\ p.z \in Int
  BY SurveyAssumption DEF Enclosed, Location
<1>2. ox \in Int /\ oy \in Int /\ o.origin.z \in Int /\ o.yaw \in 0..3
  BY DEF Option, Location
<1>3. \A x \in {0, sx}, y \in {0, sy} :
        at(x, y) \in Location /\ at(x, y).x = x /\ at(x, y).y = y /\ at(x, y) \in corners
  BY <1>1 DEF Location
<1>4. \A c \in corners : c \in Location /\ c = at(c.x, c.y) /\ c.x \in {0, sx} /\ c.y \in {0, sy}
  BY <1>1 DEF Location
<1>5. /\ xs = {Placed(c, o).x : c \in corners}
      /\ ys = {Placed(c, o).y : c \in corners}
  BY DEF FootprintCorners
<1>6. \A x \in {0, sx}, y \in {0, sy} : Placed(at(x, y), o).x \in xs /\ Placed(at(x, y), o).y \in ys
  BY <1>3, <1>5
<1> HIDE DEF sx, sy, ox, oy, at, corners, xs, ys
<1>7. ASSUME NEW c \in corners
      PROVE  /\ Placed(c, o).x \in Int /\ Placed(c, o).y \in Int
             /\ ox - sx - sy <= Placed(c, o).x /\ Placed(c, o).x <= ox + sx + sy
             /\ oy - sx - sy <= Placed(c, o).y /\ Placed(c, o).y <= oy + sx + sy
  <2>1. c \in Location /\ c.x \in {0, sx} /\ c.y \in {0, sy}
    BY <1>4
  <2>2. Placed(c, o).x \in Int /\ Placed(c, o).y \in Int
    BY <2>1, PlacedFacts DEF Location
  <2>3. /\ o.yaw = 0 => Placed(c, o).x = ox + c.x /\ Placed(c, o).y = oy + c.y
        /\ o.yaw = 1 => Placed(c, o).x = ox - c.y /\ Placed(c, o).y = oy + c.x
        /\ o.yaw = 2 => Placed(c, o).x = ox - c.x /\ Placed(c, o).y = oy - c.y
        /\ o.yaw = 3 => Placed(c, o).x = ox + c.y /\ Placed(c, o).y = oy - c.x
    BY <2>1, PlacedFacts DEF ox, oy
  <2>4. o.yaw = 0 \/ o.yaw = 1 \/ o.yaw = 2 \/ o.yaw = 3
    BY <1>2
  <2>5. c.x \in Int /\ c.y \in Int /\ 0 <= c.x /\ c.x <= sx /\ 0 <= c.y /\ c.y <= sy
    BY <1>1, <2>1
  <2> QED BY <1>1, <1>2, <2>2, <2>3, <2>4, <2>5
<1>8. /\ xs \in SUBSET Int /\ \A k \in xs : ox - sx - sy <= k /\ k <= ox + sx + sy
      /\ ys \in SUBSET Int /\ \A k \in ys : oy - sx - sy <= k /\ k <= oy + sx + sy
  BY <1>5, <1>7
<1> DEFINE X(x, y) == Placed(at(x, y), o).x
           Y(x, y) == Placed(at(x, y), o).y
<1>9. ASSUME NEW x \in {0, sx}, NEW y \in {0, sy}
      PROVE  /\ X(x, y) \in xs /\ Y(x, y) \in ys
             /\ o.yaw = 0 => X(x, y) = ox + x /\ Y(x, y) = oy + y
             /\ o.yaw = 1 => X(x, y) = ox - y /\ Y(x, y) = oy + x
             /\ o.yaw = 2 => X(x, y) = ox - x /\ Y(x, y) = oy - y
             /\ o.yaw = 3 => X(x, y) = ox + y /\ Y(x, y) = oy - x
  <2>1. at(x, y) \in Location /\ at(x, y).x = x /\ at(x, y).y = y
    BY <1>3, <1>9
  <2> QED BY <1>6, <1>9, <2>1, PlacedFacts DEF ox, oy
<1>10. /\ Placed(p, o) \in Location /\ Placed(p, o).z = o.origin.z + p.z
       /\ o.yaw = 0 => Placed(p, o).x = ox + p.x /\ Placed(p, o).y = oy + p.y
       /\ o.yaw = 1 => Placed(p, o).x = ox - p.y /\ Placed(p, o).y = oy + p.x
       /\ o.yaw = 2 => Placed(p, o).x = ox - p.x /\ Placed(p, o).y = oy - p.y
       /\ o.yaw = 3 => Placed(p, o).x = ox + p.y /\ Placed(p, o).y = oy - p.x
  BY <1>1, PlacedFacts DEF ox, oy
<1>11. Placed(p, o).x \in Int /\ Placed(p, o).y \in Int
  BY <1>10 DEF Location
<1> HIDE DEF X, Y
<1>12. /\ \E low \in xs, high \in xs : low <= Placed(p, o).x /\ Placed(p, o).x <= high
       /\ \E low \in ys, high \in ys : low <= Placed(p, o).y /\ Placed(p, o).y <= high
  <2>0. 0 \in {0, sx} /\ sx \in {0, sx} /\ 0 \in {0, sy} /\ sy \in {0, sy}
    OBVIOUS
  <2>1. CASE o.yaw = 0
    <3>1. X(0, 0) = ox + 0 /\ X(sx, 0) = ox + sx /\ Y(0, 0) = oy + 0 /\ Y(0, sy) = oy + sy
      BY <1>9, <2>0, <2>1
    <3> QED BY <1>1, <1>2, <1>9, <1>10, <2>0, <2>1, <3>1
  <2>2. CASE o.yaw = 1
    <3>1. X(0, 0) = ox - 0 /\ X(0, sy) = ox - sy /\ Y(0, 0) = oy + 0 /\ Y(sx, 0) = oy + sx
      BY <1>9, <2>0, <2>2
    <3> QED BY <1>1, <1>2, <1>9, <1>10, <2>0, <2>2, <3>1
  <2>3. CASE o.yaw = 2
    <3>1. X(0, 0) = ox - 0 /\ X(sx, 0) = ox - sx /\ Y(0, 0) = oy - 0 /\ Y(0, sy) = oy - sy
      BY <1>9, <2>0, <2>3
    <3> QED BY <1>1, <1>2, <1>9, <1>10, <2>0, <2>3, <3>1
  <2>4. CASE o.yaw = 3
    <3>1. X(0, 0) = ox + 0 /\ X(0, sy) = ox + sy /\ Y(0, 0) = oy - 0 /\ Y(sx, 0) = oy - sx
      BY <1>9, <2>0, <2>4
    <3> QED BY <1>1, <1>2, <1>9, <1>10, <2>0, <2>4, <3>1
  <2> QED BY <1>2, <2>1, <2>2, <2>3, <2>4
<1>13. ox - sx - sy \in Int /\ ox + sx + sy \in Int /\ oy - sx - sy \in Int /\ oy + sx + sy \in Int
  BY <1>1, <1>2
<1>14. Min(xs) <= Placed(p, o).x /\ Placed(p, o).x <= Max(xs)
  BY <1>8, <1>11, <1>12, <1>13, Between
<1>15. Min(ys) <= Placed(p, o).y /\ Placed(p, o).y <= Max(ys)
  BY <1>8, <1>11, <1>12, <1>13, Between
<1>16. o.origin.z <= Placed(p, o).z /\ Placed(p, o).z <= o.origin.z + b.size.z
  BY <1>1, <1>2, <1>10
<1> QED BY <1>14, <1>15, <1>16 DEF InVolume, xs, ys

----------------------------------------------------------------------------
(* The ground under the build *)

\* Heights found within bounds have a lowest and a highest.
LEMMA HeightFacts ==
  ASSUME NEW S, S # {}, NEW hits \in [S -> Int], NEW lo \in Int, NEW hi \in Int,
         \A g \in S : lo <= hits[g] /\ hits[g] <= hi
  PROVE  /\ Min(Found(hits)) \in Int /\ Max(Found(hits)) \in Int
         /\ Min(Found(hits)) <= Max(Found(hits))
         /\ \A g \in S : Min(Found(hits)) <= hits[g] /\ hits[g] <= Max(Found(hits))
<1> DEFINE H == Found(hits)
<1>1. H = {hits[g] : g \in S}
  BY DEF Found
<1> HIDE DEF H
<1>2. H \in SUBSET Int /\ H # {} /\ \A k \in H : lo <= k /\ k <= hi
  BY <1>1
<1>3. \A g \in S : hits[g] \in H
  BY <1>1
<1>4. Min(H) \in H /\ \A k \in H : Min(H) <= k
  BY <1>2, LeastAbove
<1>5. Max(H) \in H /\ \A k \in H : k <= Max(H)
  BY <1>2, GreatestBelow
<1>6. Min(H) \in Int /\ Max(H) \in Int /\ Min(H) <= Max(H)
  BY <1>2, <1>4, <1>5
<1>7. \A g \in S : Min(H) <= hits[g] /\ hits[g] <= Max(H)
  BY <1>3, <1>4, <1>5
<1> QED BY <1>6, <1>7 DEF H

\* The height aimed at is one that was found, or between two.
LEMMA TargetFacts ==
  ASSUME NEW S, IsFiniteSet(S), S # {}, NEW hits \in [S -> Int], NEW o,
         NEW least \in Int, NEW most \in Int, \A g \in S : least <= hits[g] /\ hits[g] <= most
  PROVE  /\ Target(o, hits) \in Int
         /\ Min(Found(hits)) <= Target(o, hits) /\ Target(o, hits) <= Max(Found(hits))
         /\ o.ground_mode = "highest" => \A g \in S : hits[g] <= Target(o, hits)
<1> DEFINE lo == Min(Found(hits))
           hi == Max(Found(hits))
<1>0. DOMAIN hits = S
  OBVIOUS
<1>1. /\ lo \in Int /\ hi \in Int /\ lo <= hi
      /\ \A g \in S : lo <= hits[g] /\ hits[g] <= hi
  BY HeightFacts
<1> HIDE DEF lo, hi
<1>2. CASE o.ground_mode = "highest"
  <2>1. Target(o, hits) = hi
    BY <1>2 DEF Target, hi
  <2> QED BY <1>1, <2>1 DEF lo, hi
<1>3. CASE o.ground_mode = "lowest"
  <2>1. Target(o, hits) = lo
    BY <1>3 DEF Target, lo
  <2> QED BY <1>1, <1>3, <2>1 DEF lo, hi
<1>4. CASE o.ground_mode # "highest" /\ o.ground_mode # "lowest"
  <2>1. Target(o, hits) = Sum(hits) \div Cardinality(S)
    BY <1>0, <1>4 DEF Target
  <2>2. /\ Sum(hits) \in Int
        /\ Cardinality(S) * lo <= Sum(hits) /\ Sum(hits) <= Cardinality(S) * hi
    BY <1>1, SumFacts
  <2>3. Cardinality(S) \in Nat \ {0}
    BY FS_CardinalityType, FS_EmptySet
  <2>4. /\ Sum(hits) \div Cardinality(S) \in Int
        /\ lo <= Sum(hits) \div Cardinality(S) /\ Sum(hits) \div Cardinality(S) <= hi
    BY <1>1, <2>2, <2>3, MeanFacts
  <2> QED BY <1>4, <2>1, <2>4 DEF lo, hi
<1> QED BY <1>2, <1>3, <1>4

\* The heights of a survey, and when they are those of the whole footprint.
LEMMA SampleFacts ==
  ASSUME terrain \in Terrains, NEW b, NEW o \in Options, o.origin.z \in Int,
         NEW hits, hits = Samples(b, o, 7), NEW S, S = DOMAIN hits
  PROVE  /\ IsFiniteSet(S) /\ hits \in [S -> Int]
         /\ \A g \in S : o.origin.z - 20000 <= hits[g] /\ hits[g] <= o.origin.z + 3000
         /\ GroundInReach => /\ S # {} /\ Found(hits) = Heights(Grid(b, o, 7))
                             /\ \A c \in Grid(b, o, 7) : \E g \in S : hits[g] = GroundAt(c)
<1> DEFINE c(g) == Under(b, o, 7, g)
<1>1. /\ S = {g \in GridPoints(7) : Traced(o.origin.z, c(g))}
      /\ hits = [g \in S |-> GroundAt(c(g))]
  BY DEF Samples
<1>2. Grid(b, o, 7) = {c(g) : g \in GridPoints(7)}
  BY DEF Grid
<1>3. IsFiniteSet(GridPoints(7)) /\ GridPoints(7) # {}
  BY PointsAreFinite
<1> HIDE DEF c
<1>4. IsFiniteSet(S)
  BY <1>1, <1>3, FS_Subset
<1>5. hits \in [S -> Int]
  BY <1>1, GroundIsHeight
<1>6. \A g \in S : o.origin.z - 20000 <= hits[g] /\ hits[g] <= o.origin.z + 3000
  BY <1>1 DEF Traced
<1>7. ASSUME GroundInReach
      PROVE  /\ S # {} /\ Found(hits) = Heights(Grid(b, o, 7))
             /\ \A d \in Grid(b, o, 7) : \E g \in S : hits[g] = GroundAt(d)
  <2>1. S = GridPoints(7)
    BY <1>1, <1>7, GroundReached
  <2>2. \A g \in S : hits[g] = GroundAt(c(g)) /\ c(g) \in Grid(b, o, 7)
    BY <1>1, <1>2, <2>1
  <2>3. \A d \in Grid(b, o, 7) : \E g \in S : hits[g] = GroundAt(d)
    BY <1>2, <2>1, <2>2
  <2>4. Found(hits) = {hits[g] : g \in S}
    BY DEF Found
  <2>5. Found(hits) = Heights(Grid(b, o, 7))
    BY <2>2, <2>3, <2>4 DEF Heights
  <2> QED BY <1>3, <2>1, <2>3, <2>5
<1> QED BY <1>4, <1>5, <1>6, <1>7

\* Moving a build up and down leaves it over the same columns.
LEMMA SameGrid ==
  ASSUME NEW b, NEW o, NEW a, a.yaw = o.yaw, a.origin.x = o.origin.x, a.origin.y = o.origin.y
  PROVE  Grid(b, a, 7) = Grid(b, o, 7)
<1>1. \A v : Column(Translate(v, a.origin)) = Column(Translate(v, o.origin))
  BY DEF Column, Translate
<1>2. \A g : Under(b, a, 7, g) = Under(b, o, 7, g)
  BY <1>1 DEF Under
<1> QED BY <1>2, SMTT(30) DEF Grid

\* The lowest piece is at the height of ground under the build or between two
\* such heights, and at no less than any where the highest is asked for.
OnTheGround(b, o) ==
  LET low == o.origin.z + LowestPiece(b)
      hs == Heights(Grid(b, o, 7))
  IN  /\ Min(hs) <= low /\ low <= Max(hs)
      /\ o.ground_mode = "highest" => \A c \in Grid(b, o, 7) : GroundAt(c) <= low

LEMMA RaisedFacts ==
  ASSUME NEW o \in Option, NEW z \in Int, NEW a, a = [o EXCEPT !.origin.z = z]
  PROVE  /\ a \in Option /\ a.yaw = o.yaw /\ a.sink = o.sink
         /\ a.snap_to_ground = o.snap_to_ground /\ a.ground_mode = o.ground_mode
         /\ a.origin.x = o.origin.x /\ a.origin.y = o.origin.y /\ a.origin.z = z
BY DEF Option, Location

LEMMA AdjustFacts ==
  ASSUME terrain \in Terrains, NEW b \in Blueprints, NEW o \in Options,
         NEW a, a = AdjustOriginToGround(b, o)
  PROVE  /\ a \in Option /\ a.sink = o.sink
         /\ GroundInReach /\ a.snap_to_ground => OnTheGround(b, a)
<1>1. o \in Option /\ o.origin.z \in Int
  BY SurveyAssumption DEF Option, Location
<1> DEFINE hits == Samples(b, o, 7)
           S == DOMAIN hits
<1>2. /\ IsFiniteSet(S) /\ hits \in [S -> Int]
      /\ \A g \in S : o.origin.z - 20000 <= hits[g] /\ hits[g] <= o.origin.z + 3000
      /\ GroundInReach => /\ S # {} /\ Found(hits) = Heights(Grid(b, o, 7))
                          /\ \A c \in Grid(b, o, 7) : \E g \in S : hits[g] = GroundAt(c)
  BY <1>1, SampleFacts
<1>3. o.origin.z - 20000 \in Int /\ o.origin.z + 3000 \in Int
  BY <1>1
<1>6. a = IF ~o.snap_to_ground \/ S = {} THEN o
          ELSE [o EXCEPT !.origin.z = Target(o, hits) - LowestPiece(b)]
  BY DEF AdjustOriginToGround
<1> HIDE DEF hits, S
<1>7. CASE ~o.snap_to_ground \/ S = {}
  <2>1. a = o
    BY <1>6, <1>7
  <2>2. ~(GroundInReach /\ a.snap_to_ground)
    BY <1>2, <1>7, <2>1
  <2> QED BY <1>1, <2>1, <2>2
<1>8. CASE o.snap_to_ground /\ S # {}
  <2>1. /\ Target(o, hits) \in Int
        /\ Min(Found(hits)) <= Target(o, hits) /\ Target(o, hits) <= Max(Found(hits))
        /\ o.ground_mode = "highest" => \A g \in S : hits[g] <= Target(o, hits)
    BY <1>2, <1>3, <1>8, TargetFacts
  <2>2. LowestPiece(b) \in Int
    BY LowestFacts
  <2> DEFINE z == Target(o, hits) - LowestPiece(b)
  <2>3. z \in Int /\ z + LowestPiece(b) = Target(o, hits)
    BY <2>1, <2>2
  <2>4. a = [o EXCEPT !.origin.z = z]
    BY <1>6, <1>8
  <2> HIDE DEF z
  <2>5. /\ a \in Option /\ a.yaw = o.yaw /\ a.sink = o.sink
        /\ a.snap_to_ground = o.snap_to_ground /\ a.ground_mode = o.ground_mode
        /\ a.origin.x = o.origin.x /\ a.origin.y = o.origin.y /\ a.origin.z = z
    BY <1>1, <2>3, <2>4, RaisedFacts
  <2>6. ASSUME GroundInReach PROVE OnTheGround(b, a)
    <3>1. Grid(b, a, 7) = Grid(b, o, 7)
      BY <2>5, SameGrid
    <3>2. a.origin.z + LowestPiece(b) = Target(o, hits)
      BY <2>3, <2>5
    <3> QED BY <1>2, <2>1, <2>5, <2>6, <3>1, <3>2 DEF OnTheGround
  <2> QED BY <2>5, <2>6
<1> QED BY <1>7, <1>8

----------------------------------------------------------------------------
(* The invariant *)

\* What a report says of the build it is about.
Foretold(r) ==
  /\ r.bp \in Blueprints /\ r.opts \in Option
  /\ Sinkless => r.opts.sink = 0
  /\ r.pieces_buried = Cardinality(Buried(r.bp, r.opts))
  /\ r.structures_in_way = {s \in r.known : ~s.core /\ InVolume(s.at, r.bp, r.opts)}
  /\ GroundInReach /\ r.opts.snap_to_ground => OnTheGround(r.bp, r.opts)

\* Every report on the screen, and the one a paste was confirmed on, is still
\* true of the ground, and the pieces landed where that one has them.
SurveyInv ==
  /\ terrain \in Terrains /\ standing \subseteq Structures
  /\ \A r \in {report, said} \ {NoReport} : Foretold(r)
  /\ said # NoReport => landed = {Landing(p, said.opts) : p \in said.bp.pieces}

LEMMA InitSurvey == Init => SurveyInv
BY DEF Init, SurveyInv

\* The land does not move.
LEMMA StillForetold ==
  ASSUME terrain' = terrain, NEW r, Foretold(r)
  PROVE  Foretold(r)'
<1>1. \A c : GroundAt(c)' = GroundAt(c)
  BY DEF GroundAt
<1>2. \A cs : Heights(cs)' = Heights(cs)
  BY <1>1 DEF Heights
<1>3. \A z, c : Traced(z, c)' = Traced(z, c)
  BY <1>1 DEF Traced
<1>4. \A v, z : BelowGround(v, z)' = BelowGround(v, z)
  BY <1>1, <1>3 DEF BelowGround
<1>5. \A b, o : Buried(b, o)' = Buried(b, o)
  BY <1>4 DEF Buried
<1>6. \A b, o : OnTheGround(b, o)' = OnTheGround(b, o)
  BY <1>1, <1>2 DEF OnTheGround
<1> QED BY <1>5, <1>6 DEF Foretold

LEMMA NextSurvey ==
  ASSUME SurveyInv, [Next]_vars
  PROVE  SurveyInv'
<1>1. ASSUME terrain' = terrain, NEW r, Foretold(r)
      PROVE  Foretold(r)'
  BY <1>1, StillForetold
<1>2. ASSUME NEW s \in Structures, Build(s)
      PROVE  SurveyInv'
  BY <1>1, <1>2 DEF Build, SurveyInv
<1>3. ASSUME NEW b \in Blueprints, NEW o \in Options, HandlePreview(b, o)
      PROVE  SurveyInv'
  <2>1. PICK a : a = AdjustOriginToGround(b, o)
    OBVIOUS
  <2>2. PICK r : r = Report(b, a)
    OBVIOUS
  <2>3. /\ report' = r /\ terrain' = terrain /\ standing' = standing /\ landed' = landed
        /\ said' = said /\ said = NoReport
    BY <1>3, <2>1, <2>2 DEF HandlePreview
  <2>4. /\ r.bp = b /\ r.opts = a /\ r.structures_in_way = InTheWay(b, a)
        /\ r.pieces_buried = Cardinality(Buried(b, a)) /\ r.known = standing
    BY <2>2 DEF Report
  <2>5. /\ a \in Option /\ a.sink = o.sink
        /\ GroundInReach /\ a.snap_to_ground => OnTheGround(b, a)
    BY <2>1, AdjustFacts DEF SurveyInv
  <2>6. Foretold(r)
    BY <2>4, <2>5 DEF Foretold, InTheWay, Sinkless
  <2>7. Foretold(r)'
    BY <1>1, <2>3, <2>6
  <2> QED BY <2>3, <2>7 DEF SurveyInv
<1>4. ASSUME HandleConfirm
      PROVE  SurveyInv'
  <2>1. /\ report # NoReport /\ landed' = {Landing(p, report.opts) : p \in report.bp.pieces}
        /\ said' = report /\ report' = NoReport /\ terrain' = terrain /\ standing' = standing
    BY <1>4 DEF HandleConfirm
  <2>2. Foretold(report)
    BY <2>1 DEF SurveyInv
  <2>3. ASSUME NEW r, r = report PROVE Foretold(r)'
    BY <1>1, <2>1, <2>2, <2>3
  <2> QED BY <2>1, <2>3 DEF SurveyInv
<1>5. ASSUME HandleUndo
      PROVE  SurveyInv'
  BY <1>1, <1>5 DEF HandleUndo, SurveyInv
<1>6. ASSUME UNCHANGED vars
      PROVE  SurveyInv'
  BY <1>1, <1>6 DEF vars, SurveyInv
<1> QED BY <1>2, <1>3, <1>4, <1>5, <1>6 DEF Next

LEMMA AlwaysSurvey == Spec => []SurveyInv
BY InitSurvey, NextSurvey, PTL DEF Spec

----------------------------------------------------------------------------
(* What a preview promises *)

\* The lowest of the pieces that landed is the lowest piece of the build.
LEMMA LowestLanded ==
  ASSUME NEW b \in Blueprints, NEW o \in Option,
         NEW L, L = {Landing(p, o) : p \in b.pieces}
  PROVE  Min({v.z : v \in L}) + o.sink = o.origin.z + LowestPiece(b)
<1> DEFINE Z == {v.z : v \in L}
           low == o.origin.z + LowestPiece(b) - o.sink
<1>1. o.origin.z \in Int /\ o.sink \in Int
  BY DEF Option, Location
<1>2. /\ LowestPiece(b) \in Int /\ \E p \in b.pieces : p.z = LowestPiece(b)
      /\ \A p \in b.pieces : p \in Location /\ LowestPiece(b) <= p.z
  BY LowestFacts
<1>3. \A p \in b.pieces : p.z \in Int /\ Landing(p, o).z = o.origin.z + p.z - o.sink
  BY <1>2, LandingFacts DEF Location
<1>4. Z = {Landing(p, o).z : p \in b.pieces}
  OBVIOUS
<1> HIDE DEF Z
<1>5. low \in Int /\ Z \in SUBSET Int /\ \A k \in Z : low <= k
  BY <1>1, <1>2, <1>3, <1>4
<1>6. low \in Z
  BY <1>2, <1>3, <1>4
<1> HIDE DEF low
<1>7. Min(Z) \in Z /\ \A k \in Z : Min(Z) <= k
  BY <1>5, <1>6, LeastAbove
<1>8. Min(Z) = low
  <2>1. Min(Z) \in Int /\ low <= Min(Z) /\ Min(Z) <= low
    BY <1>5, <1>6, <1>7
  <2> QED BY <1>5, <2>1
<1> QED BY <1>1, <1>2, <1>8 DEF low, Z

\* What SurveyInv says of the paste that was confirmed.
LEMMA WhatWasSaid ==
  ASSUME SurveyInv, said # NoReport
  PROVE  /\ Foretold(said) /\ said.bp \in Blueprints /\ said.opts \in Option
         /\ landed = {Landing(p, said.opts) : p \in said.bp.pieces}
BY DEF SurveyInv, Foretold

\* As many pieces end up inside the landscape as the preview said
\* (Preview.h:28-29), for every build, turn and ground, where no sink is asked
\* for: the check places the pieces without it.
THEOREM BurialAlwaysForetold ==
  ASSUME Sinkless
  PROVE  Spec => []BurialForetold
<1>1. SurveyInv => BurialForetold
  <2> SUFFICES ASSUME SurveyInv, said # NoReport
               PROVE  said.pieces_buried = Cardinality({p \in said.bp.pieces :
                           BelowGround(Landing(p, said.opts), said.opts.origin.z)})
    BY DEF BurialForetold
  <2>1. Foretold(said) /\ said.bp \in Blueprints /\ said.opts \in Option
    BY WhatWasSaid
  <2>2. said.opts.sink = 0 /\ said.pieces_buried = Cardinality(Buried(said.bp, said.opts))
    BY <2>1 DEF Foretold
  <2>3. \A p \in said.bp.pieces : Landing(p, said.opts) = Placed(p, said.opts)
    BY <2>1, <2>2, LowestFacts, LandingFacts
  <2>4. Buried(said.bp, said.opts) =
          {p \in said.bp.pieces : BelowGround(Landing(p, said.opts), said.opts.origin.z)}
    BY <2>3 DEF Buried
  <2> QED BY <2>2, <2>4
<1> QED BY <1>1, AlwaysSurvey, PTL

\* The build is dropped so that its lowest piece rests on the ground
\* (Paste.h:28-30): in every ground mode, on every terrain the trace reaches,
\* it lands between the lowest and the highest ground under the footprint,
\* however it is turned, from whatever corner it was captured.
THEOREM AlwaysRestsOnTheGround ==
  ASSUME GroundInReach
  PROVE  Spec => []RestsOnTheGround
<1>1. SurveyInv => RestsOnTheGround
  <2> SUFFICES ASSUME SurveyInv, said # NoReport, said.opts.snap_to_ground
               PROVE  LET hs == Heights(Grid(said.bp, said.opts, 7))
                          low == Min({v.z : v \in landed}) + said.opts.sink
                      IN  Min(hs) <= low /\ low <= Max(hs)
    BY DEF RestsOnTheGround
  <2>1. /\ Foretold(said) /\ said.bp \in Blueprints /\ said.opts \in Option
        /\ landed = {Landing(p, said.opts) : p \in said.bp.pieces}
    BY WhatWasSaid
  <2>2. OnTheGround(said.bp, said.opts)
    BY <2>1 DEF Foretold
  <2>3. Min({v.z : v \in landed}) + said.opts.sink = said.opts.origin.z + LowestPiece(said.bp)
    BY <2>1, LowestLanded
  <2> QED BY <2>2, <2>3 DEF OnTheGround
<1> QED BY <1>1, AlwaysSurvey, PTL

\* Sitting on the highest point avoids burying anything (Paste.h:15-16): no
\* piece lands below the ground of a column that was sampled.
THEOREM HighestNeverBuries ==
  ASSUME GroundInReach
  PROVE  Spec => []HighestBuriesNothing
<1>1. SurveyInv => HighestBuriesNothing
  <2> SUFFICES ASSUME SurveyInv, said # NoReport, said.opts.snap_to_ground,
                      said.opts.ground_mode = "highest", said.opts.sink = 0,
                      NEW v \in landed, Column(v) \in Grid(said.bp, said.opts, 7)
               PROVE  GroundAt(Column(v)) <= v.z
    BY DEF HighestBuriesNothing
  <2>1. /\ Foretold(said) /\ said.bp \in Blueprints /\ said.opts \in Option
        /\ landed = {Landing(p, said.opts) : p \in said.bp.pieces}
    BY WhatWasSaid
  <2>2. OnTheGround(said.bp, said.opts)
    BY <2>1 DEF Foretold
  <2>3. GroundAt(Column(v)) <= said.opts.origin.z + LowestPiece(said.bp)
    BY <2>2 DEF OnTheGround
  <2>4. PICK p \in said.bp.pieces : v = Landing(p, said.opts)
    BY <2>1
  <2>5. p \in Location /\ LowestPiece(said.bp) <= p.z /\ LowestPiece(said.bp) \in Int
    BY <2>1, LowestFacts
  <2>6. v.z = said.opts.origin.z + p.z - said.opts.sink
    BY <2>1, <2>4, <2>5, LandingFacts
  <2>7. p.z \in Int /\ said.opts.origin.z \in Int
    BY <2>1, <2>5 DEF Option, Location
  <2>8. GroundAt(Column(v)) \in Int
    BY GroundIsHeight DEF SurveyInv
  <2>9. v.z = said.opts.origin.z + p.z
    BY <2>6, <2>7
  <2> QED BY <2>3, <2>5, <2>7, <2>8, <2>9
<1> QED BY <1>1, AlwaysSurvey, PTL

\* A preview that reports nothing in the way is kept: no piece lands on a
\* structure that stood when it was made. The searched volume
\* (Preview.cpp:155-194) holds every piece, whatever the turn. Where no sink is
\* asked for, and no structure is kept in the group that is not asked.
THEOREM AlwaysClear ==
  ASSUME Sinkless, Coreless
  PROVE  Spec => ClearMeansClear
<1> DEFINE Clear == \A s \in standing :
                      s.at \in landed' /\ report.structures_in_way = {} => s \notin report.known
<1>1. ASSUME SurveyInv, [Next]_vars, HandleConfirm
      PROVE  Clear
  <2> SUFFICES ASSUME NEW s \in standing, s.at \in landed', s \in report.known
               PROVE  report.structures_in_way # {}
    OBVIOUS
  <2>1. report # NoReport /\ landed' = {Landing(p, report.opts) : p \in report.bp.pieces}
    BY <1>1 DEF HandleConfirm
  <2>2. Foretold(report)
    BY <1>1, <2>1 DEF SurveyInv
  <2>3. /\ report.bp \in Blueprints /\ report.opts \in Option /\ report.opts.sink = 0
        /\ report.structures_in_way =
             {t \in report.known : ~t.core /\ InVolume(t.at, report.bp, report.opts)}
    BY <2>2 DEF Foretold
  <2>4. PICK p \in report.bp.pieces : s.at = Landing(p, report.opts)
    BY <2>1
  <2>5. s.at = Placed(p, report.opts)
    BY <2>3, <2>4, LowestFacts, LandingFacts
  <2>6. InVolume(s.at, report.bp, report.opts)
    BY <2>3, <2>5, VolumeHolds
  <2>7. ~s.core
    BY <1>1 DEF SurveyInv, Coreless
  <2> QED BY <2>3, <2>6, <2>7
<1>2. ASSUME SurveyInv, [Next]_vars
      PROVE  [HandleConfirm => Clear]_vars
  BY <1>1, <1>2
<1> HIDE DEF Clear
<1>3. SurveyInv /\ [Next]_vars => [HandleConfirm => Clear]_vars
  BY <1>2
<1>4. [][HandleConfirm => Clear]_vars => ClearMeansClear
  BY PTL DEF ClearMeansClear, Clear
<1> QED BY <1>3, <1>4, AlwaysSurvey, PTL DEF Spec

\* A coverage scan changes nothing of the site (ScanCoverage, Coverage.cpp):
\* what holds of previews and pastes holds with scans between them.
THEOREM CoverageOnlyLooks == CoverageSpec => Spec
<1>1. CoverageInit => Init
  BY DEF CoverageInit
<1>2. [CoverageNext]_<<vars, cover>> => [Next]_vars
  BY DEF CoverageNext, HandleCoverage
<1> QED BY <1>1, <1>2, PTL DEF CoverageSpec, Spec

----------------------------------------------------------------------------
(* The coverage map *)

\* What reaches a point within d of here is within its reach and d of here.
LEMMA ReachFromHere ==
  ASSUME NEW u \in Location, NEW v \in Location, NEW w \in Location,
         NEW r \in Nat, NEW d \in Nat, Within(u, v, r), Within(v, w, d)
  PROVE  Within(u, w, r + d)
<1> DEFINE a == u.x - v.x
           b == u.y - v.y
           c == u.z - v.z
           p == v.x - w.x
           q == v.y - w.y
           s == v.z - w.z
           first == a * a + b * b + c * c
           second == p * p + q * q + s * s
           across == a * p + b * q + c * s
<1>1. /\ a \in Int /\ b \in Int /\ c \in Int /\ p \in Int /\ q \in Int /\ s \in Int
      /\ u.x - w.x = a + p /\ u.y - w.y = b + q /\ u.z - w.z = c + s
  BY DEF Location
<1>2. first <= r * r /\ second <= d * d
  BY DEF Within, Squared
<1>3. Within(u, w, r + d)
        <=> (a + p) * (a + p) + (b + q) * (b + q) + (c + s) * (c + s) <= (r + d) * (r + d)
  BY <1>1 DEF Within, Squared
<1> HIDE DEF a, b, c, p, q, s
<1>4. (a + p) * (a + p) + (b + q) * (b + q) + (c + s) * (c + s) = first + 2 * across + second
  BY <1>1
<1>5. first \in Nat /\ second \in Nat /\ across \in Int
  BY <1>1, SquareNat
<1>6. across * across <= first * second
  BY <1>1, Cauchy
<1> HIDE DEF first, second, across
<1>7. across <= r * d
  <2>1. r * r \in Nat /\ d * d \in Nat /\ r * d \in Nat
    OBVIOUS
  <2>2. first * second <= (r * r) * (d * d)
    BY <1>2, <1>5, <2>1, ProductMonotone
  <2>3. (r * r) * (d * d) = (r * d) * (r * d)
    OBVIOUS
  <2>4. /\ across * across \in Int /\ first * second \in Int
        /\ (r * d) * (r * d) \in Int
    BY <1>5, <2>1
  <2>5. across * across <= (r * d) * (r * d)
    BY <1>6, <2>2, <2>3, <2>4
  <2> QED BY <1>5, <2>1, <2>5, RootMonotone
<1>8. (r + d) * (r + d) = r * r + 2 * (r * d) + d * d
  OBVIOUS
<1>9. r * r \in Int /\ d * d \in Int /\ r * d \in Int
  OBVIOUS
<1> QED BY <1>2, <1>3, <1>4, <1>5, <1>7, <1>8, <1>9

\* The height of the ground at a column.
HeightOf(t, c) == IF c \in DOMAIN t.bumps THEN t.bumps[c] ELSE t.base

\* Where a column may be sampled from an admin's place.
SamplePoints(center, c) ==
  {[x |-> c[1], y |-> c[2], z |-> h] :
     h \in {HeightOf(t, c) : t \in Terrains} \cup {center.z + asked : asked \in Asked \ {0}}}

\* The sphere that is searched for turrets holds all that reach a sample: the
\* longest range and the farthest sample together are no more than its radius.
SearchReaches ==
  \A center \in Admins, span \in Spans :
    \E d \in Nat :
      /\ \A s \in Structures : Ranges[s] + d <= SearchRadius(span)
      /\ \A c \in Cells(center, span) : \A v \in SamplePoints(center, c) : Within(v, center, d)

\* No height that is asked for comes out as 0, which means the ground.
NoHeightIsZero == \A center \in Admins, asked \in Asked : asked # 0 => center.z + asked # 0

LEMMA RadiusIsNat ==
  ASSUME NEW span \in Spans
  PROVE  SearchRadius(span) \in Nat
<1>1. span * 7071 \in Nat
  BY CoverageAssumption
<1>2. \A k \in Nat : k \div 10000 \in Nat
  OBVIOUS
<1> QED BY <1>1, <1>2 DEF SearchRadius, kLongestTurretRange

LEMMA CellIsColumn ==
  ASSUME NEW center \in Admins, NEW span \in Spans, NEW c \in Cells(center, span)
  PROVE  c[1] \in Int /\ c[2] \in Int
<1>1. \A k \in Int, n \in Nat \ {0} : k \div n \in Int
  OBVIOUS
<1>2. kGrid - 1 \in Nat \ {0} /\ span \in Nat /\ center.x \in Int /\ center.y \in Int
  BY CoverageAssumption DEF Location
<1>3. ASSUME NEW g \in 0..(kGrid - 1)
      PROVE  (span * g) \div (kGrid - 1) \in Int
  <2>1. span * g \in Int
    BY <1>2
  <2> QED BY <1>1, <1>2, <2>1
<1>4. span \div 2 \in Int
  BY <1>2
<1> QED BY <1>2, <1>3, <1>4 DEF Cells

\* What is found is what there is to find, of what reaches a sample.
LEMMA NoneMissed ==
  ASSUME SearchReaches, standing \subseteq Structures,
         NEW center \in Admins, NEW span \in Spans, NEW c \in Cells(center, span),
         NEW v \in SamplePoints(center, c), v \in Location
  PROVE  {s \in Emplacements(center, span) : Within(s.at, v, Ranges[s])}
           = {s \in standing : Ranges[s] > 0 /\ Within(s.at, v, Ranges[s])}
<1> SUFFICES ASSUME NEW s \in standing, Ranges[s] > 0, Within(s.at, v, Ranges[s])
             PROVE  Within(s.at, center, SearchRadius(span))
  BY DEF Emplacements
<1>1. s \in Structures /\ s.at \in Location /\ Ranges[s] \in Nat /\ center \in Location
  BY SurveyAssumption, CoverageAssumption DEF Structure
<1>2. PICK d \in Nat : Ranges[s] + d <= SearchRadius(span) /\ Within(v, center, d)
  BY <1>1 DEF SearchReaches
<1>3. Within(s.at, center, Ranges[s] + d)
  BY <1>1, <1>2, ReachFromHere
<1>4. (Ranges[s] + d) * (Ranges[s] + d) <= SearchRadius(span) * SearchRadius(span)
  BY <1>1, <1>2, RadiusIsNat, ProductMonotone
<1>5. Squared(s.at, center) \in Int
  BY <1>1 DEF Squared, Location
<1>6. SearchRadius(span) \in Int
  BY RadiusIsNat
<1>7. \A i, j, k \in Int : i <= j /\ j <= k => i <= k
  OBVIOUS
<1> DEFINE far == Ranges[s] + d
           reach == SearchRadius(span)
<1>8. far * far \in Int /\ reach * reach \in Int /\ far * far <= reach * reach
  BY <1>1, <1>4, <1>6
<1>9. Squared(s.at, center) <= far * far
  BY <1>3 DEF Within
<1> HIDE DEF far, reach
<1>10. Squared(s.at, center) <= reach * reach
  BY <1>5, <1>7, <1>8, <1>9
<1> QED BY <1>10 DEF Within, reach

\* "How many turrets can engage each point" (Main.cpp:329): on a coverage map
\* every turret that reaches a sampled point is counted there, and no other,
\* wherever the admin stands and whatever the ground.
THEOREM CoverAlwaysReal ==
  ASSUME SearchReaches, NoHeightIsZero
  PROVE  CoverageSpec => []CoverIsReal
<1>1. ASSUME SurveyInv, NEW center \in Admins, NEW span \in Spans, NEW asked \in Asked,
             HandleCoverage(center, span, asked)
      PROVE  CoverIsReal'
  <2> DEFINE z == FixedZ(center, asked)
  <2>1. /\ cover' = [count |-> ScanCoverage(center, span, z), center |-> center, asked |-> asked]
        /\ terrain' = terrain /\ standing' = standing
    BY <1>1 DEF HandleCoverage, vars
  <2>2. terrain \in Terrains /\ standing \subseteq Structures
    BY <1>1 DEF SurveyInv
  <2> SUFFICES ASSUME NEW c \in HitCells(center, span, z)
               PROVE  cover'.count[c] = Cardinality({s \in standing :
                         Ranges[s] > 0 /\ Within(s.at, Wanted(c)', Ranges[s])})
    <3>1. cover'.count = ScanCoverage(center, span, z) /\ standing' = standing
      BY <2>1
    <3>2. DOMAIN cover'.count = HitCells(center, span, z)
      BY <3>1 DEF ScanCoverage
    <3> HIDE DEF z
    <3> QED BY <3>1, <3>2 DEF CoverIsReal
  <2>3. c \in Cells(center, span)
    BY DEF HitCells
  <2>4. center.z \in Int /\ asked \in Int
    BY CoverageAssumption DEF Location
  <2>5. SampleAt(c, center, z) = Wanted(c)'
    <3>1. CASE asked = 0
      BY <2>1, <3>1 DEF SampleAt, Wanted, FixedZ, GroundAt
    <3>2. CASE asked # 0
      BY <2>1, <2>4, <3>2 DEF SampleAt, Wanted, FixedZ, NoHeightIsZero
    <3> QED BY <3>1, <3>2
  <2>6. SampleAt(c, center, z) \in SamplePoints(center, c) /\ SampleAt(c, center, z) \in Location
    <3>1. c[1] \in Int /\ c[2] \in Int
      BY <2>3, CellIsColumn
    <3>2. CASE z = 0
      <4>1. GroundAt(c) = HeightOf(terrain, c) /\ GroundAt(c) \in Int
        BY <2>2, GroundIsHeight DEF GroundAt, HeightOf
      <4> QED BY <2>2, <3>1, <3>2, <4>1 DEF SampleAt, SamplePoints, Location
    <3>3. CASE z # 0
      <4>1. z = center.z + asked /\ z \in Int /\ asked # 0
        BY <2>4, <3>3 DEF FixedZ
      <4> QED BY <3>1, <3>3, <4>1 DEF SampleAt, SamplePoints, Location
    <3> QED BY <3>2, <3>3
  <2>7. cover'.count[c] = Cardinality({s \in Emplacements(center, span) :
                            Within(s.at, SampleAt(c, center, z), Ranges[s])})
    BY <2>1 DEF ScanCoverage
  <2> DEFINE v == SampleAt(c, center, z)
             found == {s \in Emplacements(center, span) : Within(s.at, v, Ranges[s])}
             there == {s \in standing : Ranges[s] > 0 /\ Within(s.at, v, Ranges[s])}
  <2>8. v \in SamplePoints(center, c) /\ v \in Location
    BY <2>6
  <2> HIDE DEF z
  <2>9. {s \in standing : Ranges[s] > 0 /\ Within(s.at, Wanted(c)', Ranges[s])} = there
    BY <2>5
  <2>10. cover'.count[c] = Cardinality(found)
    BY <2>7
  <2> HIDE DEF v
  <2>11. found = there
    BY <2>2, <2>3, <2>8, NoneMissed
  <2> QED BY <2>9, <2>10, <2>11
<1>2. CoverageInit => CoverIsReal
  BY DEF CoverageInit, CoverIsReal
<1>3. SurveyInv /\ CoverIsReal /\ [CoverageNext]_<<vars, cover>> => CoverIsReal'
  <2> SUFFICES ASSUME SurveyInv, CoverIsReal, [CoverageNext]_<<vars, cover>>
               PROVE  CoverIsReal'
    OBVIOUS
  <2>1. CASE Next /\ cover' = NoReport
    BY <2>1 DEF CoverIsReal
  <2>2. CASE \E center \in Admins, span \in Spans, asked \in Asked :
               HandleCoverage(center, span, asked)
    BY <1>1, <2>2
  <2>3. CASE UNCHANGED <<vars, cover>>
    BY <2>3 DEF CoverIsReal, Wanted, GroundAt, vars
  <2> QED BY <2>1, <2>2, <2>3 DEF CoverageNext
<1>4. CoverageSpec => []SurveyInv
  BY CoverageOnlyLooks, AlwaysSurvey, PTL
<1> QED BY <1>2, <1>3, <1>4, PTL DEF CoverageSpec
============================================================================
