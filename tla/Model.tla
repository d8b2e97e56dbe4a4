------------------------------- MODULE Model -------------------------------
(***************************************************************************)
(* The Blueprint value of src/src/Model.h and its JSON form, which leaves  *)
(* out what has its default. A JSON object is a function from keys.        *)
(* Position and rotation are one pose, and of the scalar qualities of an   *)
(* item durability stands for the skill bonus and the name too.            *)
(***************************************************************************)
EXTENDS Integers, Sequences

CONSTANTS
  Poses,   \* where a piece is and how it is turned
  Paths    \* blueprint paths of structure and item classes

kFormatVersion == 3

ItemEntry == [cls: Int, quantity: Int, durability: Int, blueprint: BOOLEAN,
              stats: Seq(Int)]

Piece == [class_index: Int, pose: Poses, links: Seq(Int), floor: Int,
          items: Seq(ItemEntry), ranges: Seq(Int), range_setting: Int,
          ammo: Int, activated: Int]

\* Anything below 0 means unknown, and comes back as -1.
Normal(p) ==
  \A f \in {"floor", "range_setting", "ammo", "activated"} : p[f] >= -1

Blueprint == [format: Int, classes: Seq(Paths), item_classes: Seq(Paths), pieces: Seq(Piece)]

----------------------------------------------------------------------------
(* Objects *)

\* The members of full that are written.
Object(full, keys) == [k \in keys |-> full[k]]

If(condition, key) == IF condition THEN {key} ELSE {}

\* j.value(k, default).
Value(j, k, default) == IF k \in DOMAIN j THEN j[k] ELSE default

----------------------------------------------------------------------------
(* to_json and from_json *)

ItemKeys(it) ==
  {"c", "q"} \cup If(it.durability # 0, "d") \cup If(it.blueprint, "bp")
             \cup If(it.stats # <<>>, "s")

ItemToJson(it) ==
  Object([c |-> it.cls, q |-> it.quantity, d |-> it.durability, bp |-> it.blueprint,
          s |-> it.stats], ItemKeys(it))

ItemFromJson(j) ==
  [cls |-> j["c"], quantity |-> Value(j, "q", 1), durability |-> Value(j, "d", 0),
   blueprint |-> Value(j, "bp", FALSE), stats |-> Value(j, "s", <<>>)]

\* Mistake: index 0 is taken for no floor.
KeysFromOne(p) ==
  {"c", "p"} \cup If(p.links # <<>>, "l") \cup If(p.floor > 0, "fl")
    \cup If(p.items # <<>>, "i") \cup If(p.ranges # <<>>, "tr")
    \cup If(p.range_setting > 0, "rs") \cup If(p.ammo > 0, "am") \cup If(p.activated > 0, "a")

PieceKeys(p) ==
  {"c", "p"} \cup If(p.links # <<>>, "l") \cup If(p.floor >= 0, "fl")
    \cup If(p.items # <<>>, "i") \cup If(p.ranges # <<>>, "tr")
    \cup If(p.range_setting >= 0, "rs") \cup If(p.ammo >= 0, "am") \cup If(p.activated >= 0, "a")

PieceToJson(p) ==
  Object([c |-> p.class_index, p |-> p.pose, l |-> p.links, fl |-> p.floor,
          i |-> [n \in DOMAIN p.items |-> ItemToJson(p.items[n])],
          tr |-> p.ranges, rs |-> p.range_setting, am |-> p.ammo, a |-> p.activated],
         PieceKeys(p))

\* Format 1 has a single parent where later formats have links.
LinksFromJson(j) ==
  IF "l" \in DOMAIN j THEN j["l"]
  ELSE IF "f" \in DOMAIN j THEN IF j["f"] >= 0 THEN <<j["f"]>> ELSE <<>>
  ELSE <<>>

PieceFromJson(j) ==
  [class_index |-> j["c"], pose |-> j["p"], links |-> LinksFromJson(j),
   floor |-> Value(j, "fl", -1),
   items |-> IF "i" \in DOMAIN j THEN [n \in DOMAIN j["i"] |-> ItemFromJson(j["i"][n])] ELSE <<>>,
   ranges |-> Value(j, "tr", <<>>), range_setting |-> Value(j, "rs", -1),
   ammo |-> Value(j, "am", -1), activated |-> Value(j, "a", -1)]

ToJson(b) == [b EXCEPT !.pieces = [n \in DOMAIN b.pieces |-> PieceToJson(b.pieces[n])]]

\* Formats before 3 have no item_classes.
FromJson(j) ==
  [format |-> j["format"], classes |-> j["classes"],
   item_classes |-> Value(j, "item_classes", <<>>),
   pieces |-> [n \in DOMAIN j["pieces"] |-> PieceFromJson(j["pieces"][n])]]
============================================================================
