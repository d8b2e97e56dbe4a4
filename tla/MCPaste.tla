------------------------------ MODULE MCPaste ------------------------------
(***************************************************************************)
(* Small blueprints and options for model checking Paste.                  *)
(***************************************************************************)
EXTENDS PasteRefines, TLC

CONSTANTS a1, a2, a3, a4

At(x, y, z) == [x |-> x, y |-> y, z |-> z]
Pc(cls, at, floor, links) == [cls |-> cls, at |-> at, floor |-> floor, links |-> links]
O(at, yaw, sink, invulnerable, per_tick) ==
  [origin |-> at, yaw |-> yaw, sink |-> sink,
   invulnerable |-> invulnerable, per_tick |-> per_tick]

AllClasses == {"stone", "lamp", "modded"}
MapClasses == {"stone", "lamp"}

\* Two foundations of equal height, linked both ways, and a lamp on the first.
\* The lamp's second link points past the end.
Porch == <<Pc("stone", At(0, 0, 0),     0, <<2, 3>>),
           Pc("stone", At(300, 0, 0),   0, <<1>>),
           Pc("lamp",  At(100, 0, 300), 1, <<1, 9>>)>>

\* The same with a foundation whose mod is not installed.
ModdedPorch == [Porch EXCEPT ![2].cls = "modded"]

Pair == <<Pc("stone", At(0, 0, 0),     0, <<2>>),
          Pc("lamp",  At(100, 0, 300), 1, <<1>>)>>

Unavailable == <<Pc("modded", At(0, 0, 0), 0, <<>>)>>

\* The lamp's floor is at its own height.
LowLamp == <<Pc("stone", At(0, 0, 0), 0, <<>>), Pc("lamp", At(200, 0, 0), 1, <<>>)>>

\* Two pieces ten units apart at most: a beam inside a wall.
Tight == <<Pc("stone", At(0, 0, 0), 0, <<>>), Pc("lamp", At(4, 0, 0), 0, <<>>)>>

\* A file whose second piece has a class_index past the list of classes.
Forged == [Pair EXCEPT ![2].cls = NoClass]

CoreBlueprints == {Porch, ModdedPorch, Forged}
ForgedOnly == {Forged}
PairOnly == {Pair, Unavailable}
LowLampOnly == {LowLamp}
TightOnly == {Tight}

Here == At(1000, 2000, 0)
There == At(5000, 2000, 0)

CoreOptions == {O(Here, 1, 0, FALSE, 2), O(Here, 0, 0, TRUE, 25)}
UndoOptions == {O(Here, 1, 0, FALSE, 25), O(There, 2, 0, FALSE, 25)}
RecoveryOptions == {O(Here, 1, 0, FALSE, 2), O(There, 2, 0, TRUE, 25)}
OneOption == {O(Here, 0, 0, FALSE, 25)}
SunkOption == {O(Here, 0, 100, FALSE, 25)}

NoBuilds == {}
\* Another class where a foundation lands, and the foundation's class 20 units
\* beside it.
Neighbours == {[cls |-> "lamp", at |-> Here],
               [cls |-> "stone", at |-> [Here EXCEPT !.x = @ + 20]]}
\* Another class alone.
OtherClass == {[cls |-> "lamp", at |-> Here]}

ThreeActors == {a1, a2, a3}
FourActors == {a1, a2, a3, a4}
Symmetry == Permutations(Actors)
============================================================================
