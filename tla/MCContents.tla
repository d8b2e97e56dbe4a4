----------------------------- MODULE MCContents -----------------------------
(***************************************************************************)
(* A wall, a box and a turret on it. The box holds two stacks of one class *)
(* with different quality and one that cannot be named; the turret is off, *)
(* set to its first range, and half full or without an inventory.          *)
(***************************************************************************)
EXTENDS Contents

Plain == [container |-> FALSE, turret |-> FALSE, named |-> FALSE, slots |-> 0, template |-> NoItem]

ThreeKinds ==
  [none |-> Plain,
   wall |-> Plain,
   box |-> [Plain EXCEPT !.container = TRUE, !.slots = 9],
   turret |-> [container |-> TRUE, turret |-> TRUE, named |-> TRUE, slots |-> 2,
               template |-> "bullet"]]

\* A mod's box whose path has "turret" in it.
WithTurretBox == [ThreeKinds EXCEPT !.box.named = TRUE]

StackSizes == [bullet |-> 3, sword |-> 0]

It(path, quantity, durability) ==
  [path |-> path, quantity |-> quantity, durability |-> durability,
   blueprint |-> durability = 0, stats |-> <<durability, 7>>]

Built(class, inventory, active, links, floor) ==
  [class |-> class, inventory |-> inventory, active |-> active,
   ranges |-> IF class = "turret" THEN <<4, 5, 6>> ELSE <<>>, setting |-> 0,
   bullets |-> 0, links |-> links, floor |-> floor]

Base(inTurret) ==
  <<Built("wall", NoInventory, 0, <<2>>, -1),
    Built("box", <<It(NoItem, 1, 1), It("sword", 2, 0), It("sword", 1, 9)>>,
          1, <<>>, 0),
    Built("turret", inTurret, 0, <<0>>, 1)>>

Bases == {Base(<<It("bullet", 1, 0)>>), Base(NoInventory)}

\* Two pieces as formats 1 and 2 had them.
Former(format, keys) ==
  [format |-> format, classes |-> <<"wall", "box">>,
   pieces |-> <<[c |-> 0, p |-> 1], Object([c |-> 1, p |-> 2, f |-> 0, l |-> <<0>>], keys)>>]

FormerFiles == {Former(1, {"c", "p", "f"}), Former(2, {"c", "p", "l"})}
============================================================================
