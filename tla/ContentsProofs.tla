--------------------------- MODULE ContentsProofs ---------------------------
(***************************************************************************)
(* What a blueprint is written as is read back, and what a copy holds and  *)
(* how its devices are set, for every selection, and every order in which  *)
(* containers are emptied and turrets are filled.                          *)
(***************************************************************************)
EXTENDS Contents, ListProofs

----------------------------------------------------------------------------
(* Model *)

\* An object has the members it was written with, and the default is read for
\* the others.
LEMMA ValueOfObject ==
  ASSUME NEW full, NEW keys, NEW k, NEW default
  PROVE  Value(Object(full, keys), k, default) = IF k \in keys THEN full[k] ELSE default
BY DEF Value, Object

\* An item is read back as it was written (Model.h:80-99), whichever of its
\* members have their defaults and are left out.
LEMMA ItemRoundTrip ==
  ASSUME NEW it \in ItemEntry
  PROVE  ItemFromJson(ItemToJson(it)) = it
<1>1. ItemToJson(it)["c"] = it.cls
  BY DEF ItemToJson, Object, ItemKeys
<1>2. Value(ItemToJson(it), "q", 1) = it.quantity
  <2>1. "q" \in ItemKeys(it)
    BY DEF ItemKeys
  <2> QED BY <2>1, ValueOfObject DEF ItemToJson
<1>3. Value(ItemToJson(it), "d", 0) = it.durability
  <2>1. CASE it.durability = 0
    <3>1. "d" \notin ItemKeys(it)
      BY <2>1 DEF ItemKeys, If
    <3> QED BY <2>1, <3>1, ValueOfObject DEF ItemToJson
  <2>2. CASE it.durability # 0
    <3>1. "d" \in ItemKeys(it)
      BY <2>2 DEF ItemKeys, If
    <3> QED BY <3>1, ValueOfObject DEF ItemToJson
  <2> QED BY <2>1, <2>2
<1>4. Value(ItemToJson(it), "bp", FALSE) = it.blueprint
  <2>0. it.blueprint \in BOOLEAN
    BY DEF ItemEntry
  <2>1. CASE it.blueprint = FALSE
    <3>1. "bp" \notin ItemKeys(it)
      BY <2>1 DEF ItemKeys, If
    <3>2. "bp" \notin DOMAIN ItemToJson(it)
      BY <3>1 DEF ItemToJson, Object
    <3>3. Value(ItemToJson(it), "bp", FALSE) = FALSE
      BY <3>2, Zenon DEF Value
    <3> QED BY <2>1, <3>3, Zenon
  <2>2. CASE it.blueprint = TRUE
    <3>1. "bp" \in ItemKeys(it)
      BY <2>2 DEF ItemKeys, If
    <3> QED BY <2>2, <3>1, ValueOfObject DEF ItemToJson
  <2> QED BY <2>0, <2>1, <2>2
<1>5. Value(ItemToJson(it), "s", <<>>) = it.stats
  <2>1. CASE it.stats = <<>>
    <3>1. "s" \notin ItemKeys(it)
      BY <2>1 DEF ItemKeys, If
    <3> QED BY <2>1, <3>1, ValueOfObject DEF ItemToJson
  <2>2. CASE it.stats # <<>>
    <3>1. "s" \in ItemKeys(it)
      BY <2>2 DEF ItemKeys, If
    <3> QED BY <3>1, ValueOfObject DEF ItemToJson
  <2> QED BY <2>1, <2>2
<1> QED BY <1>1, <1>2, <1>3, <1>4, <1>5 DEF ItemFromJson, ItemEntry

\* A piece is read back as it was written (Model.h:101-140): one that has no
\* links does not come back with the parent of format 1, and index 0, the first
\* range, no rounds and off are not taken for unknown.
THEOREM PieceRoundTrip ==
  ASSUME NEW p \in Piece, Normal(p)
  PROVE  PieceFromJson(PieceToJson(p)) = p
<1>0. /\ p.links \in Seq(Int) /\ p.items \in Seq(ItemEntry)
      /\ p.floor \in Int /\ p.range_setting \in Int /\ p.ammo \in Int /\ p.activated \in Int
      /\ p.floor >= -1 /\ p.range_setting >= -1 /\ p.ammo >= -1 /\ p.activated >= -1
  <2>1. /\ p.links \in Seq(Int) /\ p.items \in Seq(ItemEntry)
        /\ p.floor \in Int /\ p.range_setting \in Int /\ p.ammo \in Int /\ p.activated \in Int
    BY DEF Piece
  <2>2. /\ p["floor"] >= -1 /\ p["range_setting"] >= -1 /\ p["ammo"] >= -1
        /\ p["activated"] >= -1
    BY DEF Normal
  <2> QED BY <2>1, <2>2
<1>1. PieceToJson(p)["c"] = p.class_index /\ PieceToJson(p)["p"] = p.pose
  BY DEF PieceToJson, Object, PieceKeys
<1>2. Value(PieceToJson(p), "fl", -1) = p.floor
  <2>1. CASE p.floor = -1
    <3>1. "fl" \notin PieceKeys(p)
      BY <2>1 DEF PieceKeys, If
    <3> QED BY <2>1, <3>1, ValueOfObject DEF PieceToJson
  <2>2. CASE p.floor >= 0
    <3>1. "fl" \in PieceKeys(p)
      BY <2>2 DEF PieceKeys, If
    <3> QED BY <3>1, ValueOfObject DEF PieceToJson
  <2> QED BY <1>0, <2>1, <2>2
<1>3. Value(PieceToJson(p), "rs", -1) = p.range_setting
  <2>1. CASE p.range_setting = -1
    <3>1. "rs" \notin PieceKeys(p)
      BY <2>1 DEF PieceKeys, If
    <3> QED BY <2>1, <3>1, ValueOfObject DEF PieceToJson
  <2>2. CASE p.range_setting >= 0
    <3>1. "rs" \in PieceKeys(p)
      BY <2>2 DEF PieceKeys, If
    <3> QED BY <3>1, ValueOfObject DEF PieceToJson
  <2> QED BY <1>0, <2>1, <2>2
<1>4. Value(PieceToJson(p), "am", -1) = p.ammo
  <2>1. CASE p.ammo = -1
    <3>1. "am" \notin PieceKeys(p)
      BY <2>1 DEF PieceKeys, If
    <3> QED BY <2>1, <3>1, ValueOfObject DEF PieceToJson
  <2>2. CASE p.ammo >= 0
    <3>1. "am" \in PieceKeys(p)
      BY <2>2 DEF PieceKeys, If
    <3> QED BY <3>1, ValueOfObject DEF PieceToJson
  <2> QED BY <1>0, <2>1, <2>2
<1>5. Value(PieceToJson(p), "a", -1) = p.activated
  <2>1. CASE p.activated = -1
    <3>1. "a" \notin PieceKeys(p)
      BY <2>1 DEF PieceKeys, If
    <3> QED BY <2>1, <3>1, ValueOfObject DEF PieceToJson
  <2>2. CASE p.activated >= 0
    <3>1. "a" \in PieceKeys(p)
      BY <2>2 DEF PieceKeys, If
    <3> QED BY <3>1, ValueOfObject DEF PieceToJson
  <2> QED BY <1>0, <2>1, <2>2
<1>6. Value(PieceToJson(p), "tr", <<>>) = p.ranges
  <2>1. CASE p.ranges = <<>>
    <3>1. "tr" \notin PieceKeys(p)
      BY <2>1 DEF PieceKeys, If
    <3> QED BY <2>1, <3>1, ValueOfObject DEF PieceToJson
  <2>2. CASE p.ranges # <<>>
    <3>1. "tr" \in PieceKeys(p)
      BY <2>2 DEF PieceKeys, If
    <3> QED BY <3>1, ValueOfObject DEF PieceToJson
  <2> QED BY <2>1, <2>2
<1>7. LinksFromJson(PieceToJson(p)) = p.links
  <2>1. DOMAIN PieceToJson(p) = PieceKeys(p)
    BY DEF PieceToJson, Object
  <2>2. "f" \notin PieceKeys(p)
    BY DEF PieceKeys, If
  <2>3. CASE p.links = <<>>
    <3>1. "l" \notin PieceKeys(p)
      BY <2>3 DEF PieceKeys, If
    <3> QED BY <2>1, <2>2, <2>3, <3>1 DEF LinksFromJson
  <2>4. CASE p.links # <<>>
    <3>1. "l" \in PieceKeys(p)
      BY <2>4 DEF PieceKeys, If
    <3>2. PieceToJson(p)["l"] = p.links
      BY <3>1 DEF PieceToJson, Object
    <3> QED BY <2>1, <3>1, <3>2 DEF LinksFromJson
  <2> QED BY <2>3, <2>4
<1>8. PieceFromJson(PieceToJson(p)).items = p.items
  <2>1. DOMAIN PieceToJson(p) = PieceKeys(p)
    BY DEF PieceToJson, Object
  <2>2. CASE p.items = <<>>
    <3>1. "i" \notin PieceKeys(p)
      BY <2>2 DEF PieceKeys, If
    <3> QED BY <2>1, <2>2, <3>1 DEF PieceFromJson
  <2>3. CASE p.items # <<>>
    <3>1. "i" \in PieceKeys(p)
      BY <2>3 DEF PieceKeys, If
    <3>2. PieceToJson(p)["i"] = [n \in DOMAIN p.items |-> ItemToJson(p.items[n])]
      BY <3>1 DEF PieceToJson, Object
    <3>3. [n \in DOMAIN p.items |-> ItemFromJson(ItemToJson(p.items[n]))] = p.items
      <4>1. \A n \in DOMAIN p.items : p.items[n] \in ItemEntry
        BY <1>0
      <4>2. \A n \in DOMAIN p.items : ItemFromJson(ItemToJson(p.items[n])) = p.items[n]
        BY <4>1, ItemRoundTrip
      <4>3. p.items = [n \in DOMAIN p.items |-> p.items[n]]
        BY <1>0
      <4> QED BY <4>2, <4>3
    <3>4. PieceFromJson(PieceToJson(p)).items
            = [n \in DOMAIN p.items |-> ItemFromJson(ItemToJson(p.items[n]))]
      BY <2>1, <3>1, <3>2 DEF PieceFromJson
    <3> QED BY <3>3, <3>4
  <2> QED BY <2>2, <2>3
<1> DEFINE q == PieceFromJson(PieceToJson(p))
<1>9. /\ q.class_index = p.class_index /\ q.pose = p.pose /\ q.links = p.links
      /\ q.floor = p.floor /\ q.ranges = p.ranges /\ q.range_setting = p.range_setting
      /\ q.ammo = p.ammo /\ q.activated = p.activated
  BY <1>1, <1>2, <1>3, <1>4, <1>5, <1>6, <1>7 DEF PieceFromJson
<1>10. q = [class_index |-> q.class_index, pose |-> q.pose, links |-> q.links, floor |-> q.floor,
            items |-> q.items, ranges |-> q.ranges, range_setting |-> q.range_setting,
            ammo |-> q.ammo, activated |-> q.activated]
  BY DEF PieceFromJson
<1>11. p = [class_index |-> p.class_index, pose |-> p.pose, links |-> p.links, floor |-> p.floor,
            items |-> p.items, ranges |-> p.ranges, range_setting |-> p.range_setting,
            ammo |-> p.ammo, activated |-> p.activated]
  BY DEF Piece
<1> HIDE DEF q
<1>12. q.items = p.items
  BY <1>8 DEF q
<1>13. q = p
  BY <1>9, <1>10, <1>11, <1>12
<1> QED BY <1>13 DEF q

\* A blueprint is loaded as it was saved (Model.h:142-173): every piece of it,
\* in its place, with the dictionaries its indices go into.
THEOREM RoundTrip ==
  ASSUME NEW b \in Blueprint, \A n \in DOMAIN b.pieces : Normal(b.pieces[n])
  PROVE  FromJson(ToJson(b)) = b
<1>1. /\ b.pieces \in Seq(Piece)
      /\ b = [format |-> b.format, classes |-> b.classes, item_classes |-> b.item_classes,
              pieces |-> b.pieces]
  BY DEF Blueprint
<1>2. ToJson(b) = [format |-> b.format, classes |-> b.classes, item_classes |-> b.item_classes,
                   pieces |-> [n \in DOMAIN b.pieces |-> PieceToJson(b.pieces[n])]]
  BY <1>1 DEF ToJson
<1>3. \A n \in DOMAIN b.pieces : PieceFromJson(PieceToJson(b.pieces[n])) = b.pieces[n]
  <2>1. \A n \in DOMAIN b.pieces : b.pieces[n] \in Piece
    BY <1>1
  <2> QED BY <2>1, PieceRoundTrip
<1>4. b.pieces = [n \in DOMAIN b.pieces |-> b.pieces[n]]
  BY <1>1
<1>5. [n \in DOMAIN ToJson(b).pieces |-> PieceFromJson(ToJson(b).pieces[n])] = b.pieces
  BY <1>2, <1>3, <1>4
<1>6. Value(ToJson(b), "item_classes", <<>>) = b.item_classes
  BY <1>2 DEF Value
<1> QED BY <1>1, <1>2, <1>5, <1>6 DEF FromJson

----------------------------------------------------------------------------
(* Capture *)

\* Where a class is met first, and that what a walk meets is in order.
LEMMA FirstMetFacts ==
  ASSUME NEW S, NEW W, IsFiniteSet(W), W \subseteq Nat \X Nat, NEW walk \in [W -> S]
  PROVE  /\ IsFiniteSet(FirstMet(walk)) /\ FirstMet(walk) \subseteq W
         /\ \A u \in W : \E v \in FirstMet(walk) : walk[v] = walk[u]
         /\ \A u, v \in FirstMet(walk) : u = v \/ Before(u, v) \/ Before(v, u)
         /\ \A u, v \in FirstMet(walk) : walk[u] = walk[v] => u = v
<1>1. DOMAIN walk = W
  OBVIOUS
<1>2. IsFiniteSet(FirstMet(walk)) /\ FirstMet(walk) \subseteq W
  BY <1>1, FS_Subset DEF FirstMet
<1>3. \A u, v \in W : u = v \/ Before(u, v) \/ Before(v, u)
  <2> SUFFICES ASSUME NEW u \in W, NEW v \in W, ~Before(u, v), ~Before(v, u) PROVE u = v
    OBVIOUS
  <2>1. u[1] \in Nat /\ u[2] \in Nat /\ v[1] \in Nat /\ v[2] \in Nat
    OBVIOUS
  <2>2. u[1] = v[1] /\ u[2] = v[2]
    BY <2>1 DEF Before
  <2> QED BY <2>2
<1>4. ASSUME NEW u \in W PROVE \E v \in FirstMet(walk) : walk[v] = walk[u]
  <2> DEFINE same == {v \in W : walk[v] = walk[u]}
             rows == {i \in Nat : \E v \in same : v[1] = i}
  <2>1. u \in same /\ u[1] \in rows
    OBVIOUS
  <2>2. PICK i \in rows : \A other \in rows : i <= other
    <3>1. rows \subseteq Nat /\ rows # {}
      BY <2>1
    <3> HIDE DEF rows
    <3> QED BY <3>1, LeastNat
  <2> DEFINE columns == {n \in Nat : \E v \in same : v[1] = i /\ v[2] = n}
  <2>3. columns \subseteq Nat /\ columns # {}
    OBVIOUS
  <2>4. PICK n \in columns : \A other \in columns : n <= other
    <3> HIDE DEF columns
    <3> QED BY <2>3, LeastNat
  <2>5. PICK v \in same : v[1] = i /\ v[2] = n
    OBVIOUS
  <2>6. \A w \in same : ~Before(w, v)
    <3> SUFFICES ASSUME NEW w \in same, Before(w, v) PROVE FALSE
      OBVIOUS
    <3>1. w[1] \in rows /\ w[1] \in Nat /\ w[2] \in Nat /\ i \in Nat /\ n \in Nat
      OBVIOUS
    <3>2. i <= w[1]
      BY <2>2, <3>1
    <3>3. w[1] = i /\ w[2] < n
      BY <2>5, <3>1, <3>2 DEF Before
    <3>4. w[2] \in columns
      BY <3>1, <3>3
    <3>5. n <= w[2]
      BY <2>4, <3>4
    <3> QED BY <3>1, <3>3, <3>5
  <2>7. v \in FirstMet(walk)
    BY <1>1, <2>6 DEF FirstMet
  <2> QED BY <2>7
<1>5. \A u, v \in FirstMet(walk) : walk[u] = walk[v] => u = v
  BY <1>1, <1>2, <1>3 DEF FirstMet
<1> QED BY <1>2, <1>3, <1>4, <1>5

\* A walk over structures and stacks, and a dictionary that gives back, at the
\* index made for it, whatever was met.
IsWalk(walk, W, S) ==
  /\ IsFiniteSet(W) /\ W \subseteq Nat \X Nat
  /\ walk \in [W -> S]

Reads(walk, W, S) ==
  /\ Dictionary(walk) \in Seq(S)
  /\ \A u \in W :
       /\ Index(walk[u], walk) \in 0..(Len(Dictionary(walk)) - 1)
       /\ Dictionary(walk)[Index(walk[u], walk) + 1] = walk[u]

\* The dictionary has a class once, at the index it was given when it was met
\* first, however often it is met again.
LEMMA DictionaryFacts ==
  ASSUME NEW S, NEW W, NEW walk, IsWalk(walk, W, S)
  PROVE  Reads(walk, W, S)
<1> SUFFICES ASSUME IsFiniteSet(W), W \subseteq Nat \X Nat, walk \in [W -> S]
             PROVE  Reads(walk, W, S)
  BY DEF IsWalk
<1> DEFINE F == FirstMet(walk)
           size == Cardinality(F)
           rank == [u \in F |-> MetBefore(walk, u) + 1]
<1>1. /\ IsFiniteSet(F) /\ F \subseteq W /\ size \in Nat
      /\ \A u \in W : \E v \in F : walk[v] = walk[u]
      /\ \A u, v \in F : u = v \/ Before(u, v) \/ Before(v, u)
      /\ \A u, v \in F : walk[u] = walk[v] => u = v
  <2>1. /\ IsFiniteSet(F) /\ F \subseteq W
        /\ \A u \in W : \E v \in F : walk[v] = walk[u]
        /\ \A u, v \in F : u = v \/ Before(u, v) \/ Before(v, u)
        /\ \A u, v \in F : walk[u] = walk[v] => u = v
    BY FirstMetFacts
  <2>2. size \in Nat
    BY <2>1, FS_CardinalityType
  <2> QED BY <2>1, <2>2
<1>2. ASSUME NEW u \in F
      PROVE  LET earlier == {w \in F : Before(w, u)}
             IN  /\ IsFiniteSet(earlier) /\ u \notin earlier /\ earlier \subseteq F
                 /\ MetBefore(walk, u) = Cardinality(earlier)
                 /\ MetBefore(walk, u) \in 0..(size - 1)
  <2> DEFINE earlier == {w \in F : Before(w, u)}
  <2>1. u[1] \in Nat /\ u[2] \in Nat
    BY <1>1
  <2>2. u \notin earlier /\ earlier \subseteq F
    BY <2>1 DEF Before
  <2>3. MetBefore(walk, u) = Cardinality(earlier)
    BY DEF MetBefore
  <2> HIDE DEF earlier, F
  <2>4. IsFiniteSet(earlier) /\ Cardinality(earlier) \in Nat
    BY <1>1, <2>2, FS_Subset, FS_CardinalityType
  <2>5. Cardinality(earlier) <= size /\ (size = Cardinality(earlier) => F = earlier)
    BY <1>1, <2>2, FS_Subset
  <2>6. Cardinality(earlier) < size
    BY <1>1, <2>2, <2>4, <2>5
  <2> QED BY <1>1, <2>2, <2>3, <2>4, <2>6 DEF earlier
<1>3. ASSUME NEW u \in F, NEW v \in F, Before(u, v)
      PROVE  MetBefore(walk, u) < MetBefore(walk, v)
  <2> DEFINE before == {w \in F : Before(w, u)}
             later == {w \in F : Before(w, v)}
  <2>1. \A w \in F : w[1] \in Nat /\ w[2] \in Nat
    BY <1>1
  <2>2. before \subseteq later /\ u \in later /\ u \notin before
    <3>1. ASSUME NEW w \in F, Before(w, u) PROVE Before(w, v)
      BY <1>3, <2>1, <3>1 DEF Before
    <3>2. u \notin before
      BY <1>2
    <3> QED BY <1>3, <3>1, <3>2
  <2>3. /\ IsFiniteSet(later) /\ IsFiniteSet(before)
        /\ MetBefore(walk, u) = Cardinality(before) /\ MetBefore(walk, v) = Cardinality(later)
    BY <1>2
  <2> HIDE DEF before, later
  <2>4. Cardinality(before) <= Cardinality(later) /\ Cardinality(before) # Cardinality(later)
    BY <2>2, <2>3, FS_Subset
  <2>5. Cardinality(before) \in Nat /\ Cardinality(later) \in Nat
    BY <2>3, FS_CardinalityType
  <2> QED BY <2>3, <2>4, <2>5
<1>4. \A u \in F : MetBefore(walk, u) \in Nat /\ MetBefore(walk, u) + 1 \in 1..size
  <2> SUFFICES ASSUME NEW u \in F
               PROVE  MetBefore(walk, u) \in Nat /\ MetBefore(walk, u) + 1 \in 1..size
    OBVIOUS
  <2>1. MetBefore(walk, u) \in 0..(size - 1)
    BY <1>2
  <2> HIDE DEF size, F
  <2> QED BY <1>1, <2>1
<1>5. \A u, v \in F : MetBefore(walk, u) = MetBefore(walk, v) => u = v
  <2> SUFFICES ASSUME NEW u \in F, NEW v \in F, MetBefore(walk, u) = MetBefore(walk, v), u # v
               PROVE  FALSE
    OBVIOUS
  <2>1. Before(u, v) \/ Before(v, u)
    BY <1>1
  <2>2. MetBefore(walk, u) < MetBefore(walk, v) \/ MetBefore(walk, v) < MetBefore(walk, u)
    BY <1>3, <2>1
  <2> QED BY <1>4, <2>2
<1>6. \A i \in 1..size : \E u \in F : MetBefore(walk, u) = i - 1
  <2>1. rank \in [F -> 1..size]
    <3> HIDE DEF size, F
    <3> QED BY <1>4
  <2>2. rank \in Injection(F, 1..size)
    <3>1. \A u, v \in F : rank[u] = rank[v] => u = v
      BY <1>4, <1>5
    <3> HIDE DEF rank
    <3> QED BY <2>1, <3>1 DEF Injection, IsInjective
  <2>3. IsFiniteSet(1..size) /\ Cardinality(1..size) = size
    BY <1>1, UpTo
  <2>4. rank \in Surjection(F, 1..size)
    <3> HIDE DEF rank
    <3> QED BY <1>1, <2>2, <2>3, FS_Injection
  <2>5. \A i \in 1..size : \E u \in F : rank[u] = i
    <3> HIDE DEF rank
    <3> QED BY <2>4 DEF Surjection
  <2> QED BY <1>1, <1>4, <2>5
<1> DEFINE at(i) == CHOOSE u \in F : MetBefore(walk, u) = i - 1
<1>7. \A i \in 1..size : at(i) \in F /\ MetBefore(walk, at(i)) = i - 1
  BY <1>6
<1>8. Dictionary(walk) = [i \in 1..size |-> walk[at(i)]]
  BY DEF Dictionary
<1>9. \A u \in F : walk[u] \in S
  BY <1>1
<1> HIDE DEF at, F
<1>10. Dictionary(walk) \in [1..size -> S]
  BY <1>7, <1>8, <1>9
<1>11. Dictionary(walk) \in Seq(S) /\ Len(Dictionary(walk)) = size
  BY <1>1, <1>10
<1>12. ASSUME NEW u \in W
       PROVE  /\ Index(walk[u], walk) \in 0..(size - 1)
              /\ Dictionary(walk)[Index(walk[u], walk) + 1] = walk[u]
  <2> DEFINE first == CHOOSE v \in F : walk[v] = walk[u]
  <2>1. first \in F /\ walk[first] = walk[u]
    BY <1>1
  <2>2. Index(walk[u], walk) = MetBefore(walk, first)
    BY DEF Index, F
  <2> HIDE DEF first
  <2>3. MetBefore(walk, first) \in 0..(size - 1)
    BY <1>2, <2>1
  <2>4. MetBefore(walk, first) + 1 \in 1..size
    BY <1>1, <2>3
  <2>5. PICK i \in 1..size : i = MetBefore(walk, first) + 1
    BY <2>4
  <2>6. at(i) \in F /\ MetBefore(walk, at(i)) = i - 1
    BY <1>7
  <2>7. at(i) = first
    <3>1. i - 1 = MetBefore(walk, first)
      BY <1>4, <2>1, <2>5
    <3> QED BY <1>5, <2>1, <2>6, <3>1
  <2>8. Dictionary(walk)[i] = walk[first]
    BY <1>8, <2>7
  <2> QED BY <2>1, <2>2, <2>3, <2>5, <2>8
<1> QED BY <1>11, <1>12 DEF Reads

\* What a selection may be: its structures, at places a piece may have.
Selection(scene) ==
  /\ scene \in Seq(Structure)
  /\ \A k \in DOMAIN scene : k \in Poses /\ (IsTurret(scene[k]) => Len(scene[k].ranges) = 3)

LEMMA CarriedFacts ==
  ASSUME NEW s \in Structure
  PROVE  /\ Carried(s) \in Seq(Stack)
         /\ Len(Carried(s)) \in Nat /\ DOMAIN Carried(s) = 1..Len(Carried(s))
         /\ \A n \in 1..Len(Carried(s)) : Carried(s)[n] \in Stack /\ Carried(s)[n].path \in Items
         /\ ~IsContainer(s) => Carried(s) = <<>>
<1> DEFINE q == s.inventory
           N == {n \in DOMAIN q : q[n].path # NoItem}
<1>1. CASE ~(IsContainer(s) /\ HasInventory(s))
  BY <1>1 DEF Carried
<1>2. CASE IsContainer(s) /\ HasInventory(s)
  <2>1. q \in Seq(Stack)
    BY <1>2 DEF Structure, HasInventory
  <2>2. Carried(s) = Picked(q, N)
    BY <1>2 DEF Carried
  <2>3. N \subseteq 1..Len(q) /\ Len(q) \in Nat
    BY <2>1
  <2>4. N \subseteq Int /\ IsFiniteSet(N)
    BY <2>3, UpTo, FS_Subset
  <2>5. \A n \in N : q[n] \in {it \in Stack : it.path \in Items}
    <3> TAKE n \in N
    <3>1. q[n] \in Stack
      BY <2>1, <2>3
    <3>2. q[n].path \in Items \cup {NoItem}
      BY <3>1 DEF Stack
    <3>3. q[n].path # NoItem
      OBVIOUS
    <3> HIDE DEF q
    <3> QED BY <3>1, <3>2, <3>3
  <2> HIDE DEF q, N
  <2>6. Picked(q, N) \in Seq({it \in Stack : it.path \in Items})
    BY <2>4, <2>5, PickedType
  <2> QED BY <1>2, <2>2, <2>6
<1> QED BY <1>1, <1>2

LEMMA SpotsFacts ==
  ASSUME NEW scene, Selection(scene)
  PROVE  /\ IsFiniteSet(Spots(scene))
         /\ \A k, n : <<k, n>> \in Spots(scene) <=> k \in DOMAIN scene /\ n \in DOMAIN Carried(scene[k])
         /\ \A u \in Spots(scene) : u = <<u[1], u[2]>>
<1> DEFINE rows == {{k} \X DOMAIN Carried(scene[k]) : k \in DOMAIN scene}
<1>1. scene \in Seq(Structure) /\ Len(scene) \in Nat /\ DOMAIN scene = 1..Len(scene)
  BY DEF Selection
<1>2. IsFiniteSet(DOMAIN scene)
  BY <1>1, UpTo
<1>3. IsFiniteSet(rows)
  <2> DEFINE f == [k \in DOMAIN scene |-> {k} \X DOMAIN Carried(scene[k])]
  <2>1. \A r : r \in rows <=> \E k \in DOMAIN scene : f[k] = r
    OBVIOUS
  <2>2. f \in Surjection(DOMAIN scene, rows)
    BY <2>1 DEF Surjection
  <2> HIDE DEF rows, f
  <2> QED BY <1>2, <2>2, FS_Surjection
<1>4. ASSUME NEW k \in DOMAIN scene PROVE IsFiniteSet({k} \X DOMAIN Carried(scene[k]))
  <2>1. scene[k] \in Structure
    BY <1>1
  <2>2. IsFiniteSet(DOMAIN Carried(scene[k]))
    BY <2>1, CarriedFacts, UpTo
  <2>3. IsFiniteSet({k})
    BY FS_Singleton
  <2> QED BY <2>2, <2>3, FS_Product
<1>5. IsFiniteSet(UNION rows)
  <2>1. \A r \in rows : IsFiniteSet(r)
    BY <1>4
  <2> HIDE DEF rows
  <2> QED BY <1>3, <2>1, FS_UNION
<1> QED BY <1>5 DEF Spots

LEMMA ClassesFacts ==
  ASSUME NEW scene, Selection(scene)
  PROVE  /\ Dictionary(ClassWalk(scene)) \in Seq(Classes)
         /\ \A k \in DOMAIN scene :
              LET i == Index(scene[k].class, ClassWalk(scene))
              IN  /\ i \in 0..(Len(Dictionary(ClassWalk(scene))) - 1)
                  /\ Dictionary(ClassWalk(scene))[i + 1] = scene[k].class
<1> DEFINE W == (DOMAIN scene) \X {1}
<1>1. scene \in Seq(Structure) /\ Len(scene) \in Nat /\ DOMAIN scene = 1..Len(scene)
  BY DEF Selection
<1>2. \A k \in DOMAIN scene : scene[k].class \in Classes
  <2>1. \A k \in DOMAIN scene : scene[k] \in Structure
    BY <1>1
  <2> QED BY <2>1 DEF Structure
<1>3. IsFiniteSet(W)
  <2>1. IsFiniteSet(DOMAIN scene)
    BY <1>1, UpTo
  <2>2. IsFiniteSet({1})
    BY FS_Singleton
  <2> QED BY <2>1, <2>2, FS_Product
<1>4. W \subseteq Nat \X Nat
  BY <1>1
<1>5. ClassWalk(scene) \in [W -> Classes]
  BY <1>2 DEF ClassWalk
<1>6. \A k \in DOMAIN scene : <<k, 1>> \in W /\ ClassWalk(scene)[<<k, 1>>] = scene[k].class
  BY DEF ClassWalk
<1> HIDE DEF W
<1>7. IsWalk(ClassWalk(scene), W, Classes)
  BY <1>3, <1>4, <1>5 DEF IsWalk
<1>8. Reads(ClassWalk(scene), W, Classes)
  BY <1>7, DictionaryFacts
<1> QED BY <1>6, <1>8 DEF Reads

LEMMA ItemWalkFacts ==
  ASSUME NEW scene, Selection(scene)
  PROVE  /\ ItemWalk(scene) \in [Spots(scene) -> Items]
         /\ \A k \in DOMAIN scene : \A n \in DOMAIN Carried(scene[k]) :
              /\ <<k, n>> \in Spots(scene)
              /\ ItemWalk(scene)[<<k, n>>] = Carried(scene[k])[n].path
<1>1. \A k \in DOMAIN scene : scene[k] \in Structure
  BY DEF Selection
<1>2. ASSUME NEW u \in Spots(scene) PROVE Carried(scene[u[1]])[u[2]].path \in Items
  <2>1. u[1] \in DOMAIN scene /\ u[2] \in DOMAIN Carried(scene[u[1]])
    BY SpotsFacts
  <2> QED BY <1>1, <2>1, CarriedFacts
<1>3. ItemWalk(scene) \in [Spots(scene) -> Items]
  BY <1>2 DEF ItemWalk
<1>4. ASSUME NEW k \in DOMAIN scene, NEW n \in DOMAIN Carried(scene[k])
      PROVE  /\ <<k, n>> \in Spots(scene)
             /\ ItemWalk(scene)[<<k, n>>] = Carried(scene[k])[n].path
  <2>1. <<k, n>> \in Spots(scene)
    BY SpotsFacts
  <2> QED BY <2>1 DEF ItemWalk
<1> QED BY <1>3, <1>4

LEMMA ItemClassesFacts ==
  ASSUME NEW scene, Selection(scene)
  PROVE  /\ Dictionary(ItemWalk(scene)) \in Seq(Items)
         /\ \A k \in DOMAIN scene : \A n \in DOMAIN Carried(scene[k]) :
              LET i == Index(Carried(scene[k])[n].path, ItemWalk(scene))
              IN  /\ i \in 0..(Len(Dictionary(ItemWalk(scene))) - 1)
                  /\ Dictionary(ItemWalk(scene))[i + 1] = Carried(scene[k])[n].path
<1> DEFINE W == Spots(scene)
<1>1. IsFiniteSet(W) /\ W \subseteq Nat \X Nat
  <2>1. scene \in Seq(Structure) /\ DOMAIN scene = 1..Len(scene) /\ Len(scene) \in Nat
    BY DEF Selection
  <2>2. \A k \in DOMAIN scene : DOMAIN Carried(scene[k]) \subseteq Nat
    <3> TAKE k \in DOMAIN scene
    <3>1. scene[k] \in Structure
      BY <2>1
    <3> QED BY <3>1, CarriedFacts
  <2>3. \A u \in W : u = <<u[1], u[2]>> /\ u[1] \in Nat /\ u[2] \in Nat
    <3> TAKE u \in W
    <3>1. u = <<u[1], u[2]>> /\ u[1] \in DOMAIN scene /\ u[2] \in DOMAIN Carried(scene[u[1]])
      BY SpotsFacts
    <3> QED BY <2>1, <2>2, <3>1
  <2> HIDE DEF W
  <2>4. W \subseteq Nat \X Nat
    BY <2>3
  <2> QED BY <2>4, SpotsFacts DEF W
<1>2. ItemWalk(scene) \in [W -> Items]
  BY ItemWalkFacts
<1>3. \A k \in DOMAIN scene : \A n \in DOMAIN Carried(scene[k]) :
        <<k, n>> \in W /\ ItemWalk(scene)[<<k, n>>] = Carried(scene[k])[n].path
  BY ItemWalkFacts
<1> HIDE DEF W
<1>4. IsWalk(ItemWalk(scene), W, Items)
  BY <1>1, <1>2 DEF IsWalk
<1>5. Reads(ItemWalk(scene), W, Items)
  BY <1>4, DictionaryFacts
<1> QED BY <1>3, <1>5 DEF Reads

\* An entry is what was read of its stack, and its index goes into the dictionary.
EntryFor(e, it, dictionary) ==
  /\ e.cls \in 0..(Len(dictionary) - 1)
  /\ dictionary[e.cls + 1] = it.path
  /\ e.quantity = it.quantity /\ e.durability = it.durability
  /\ e.blueprint = it.blueprint /\ e.stats = it.stats

\* A captured blueprint, piece by piece.
LEMMA CaptureFacts ==
  ASSUME NEW scene, Selection(scene), NEW items \in BOOLEAN
  PROVE  LET b == CaptureSelection(scene, items)
         IN  /\ b.classes \in Seq(Classes) /\ b.item_classes \in Seq(Items)
             /\ Len(b.pieces) = Len(scene) /\ Len(scene) \in Nat
             /\ DOMAIN b.pieces = 1..Len(scene) /\ DOMAIN scene = 1..Len(scene)
             /\ \A k \in 1..Len(scene) :
                  LET p == b.pieces[k] s == scene[k]
                  IN  /\ p.class_index \in 0..(Len(b.classes) - 1)
                      /\ b.classes[p.class_index + 1] = s.class
                      /\ DOMAIN p.items = IF items THEN DOMAIN Carried(s) ELSE {}
                      /\ Len(p.items) = IF items THEN Len(Carried(s)) ELSE 0
                      /\ \A n \in DOMAIN p.items : EntryFor(p.items[n], Carried(s)[n], b.item_classes)
                      /\ p.ranges = IF items /\ IsTurret(s) THEN s.ranges ELSE <<>>
                      /\ p.activated = IF items /\ IsContainer(s) THEN s.active ELSE -1
                      /\ p \in Piece /\ Normal(p)
<1> DEFINE b == CaptureSelection(scene, items)
           D == IF items THEN Dictionary(ItemWalk(scene)) ELSE <<>>
           walk == ItemWalk(scene)
<1>1. /\ b.classes = Dictionary(ClassWalk(scene)) /\ b.item_classes = D
      /\ b.pieces = [k \in DOMAIN scene |-> PieceOf(k, scene, items)]
  BY DEF CaptureSelection
<1>2. Len(scene) \in Nat /\ DOMAIN scene = 1..Len(scene) /\ scene \in Seq(Structure)
  BY DEF Selection
<1>3. b.classes \in Seq(Classes)
  BY <1>1, ClassesFacts
<1>4. D \in Seq(Items)
  BY ItemClassesFacts
<1>5. Len(b.pieces) = Len(scene) /\ DOMAIN b.pieces = 1..Len(scene)
  BY <1>1, <1>2
<1> HIDE DEF b, D
<1>6. ASSUME NEW k \in 1..Len(scene)
      PROVE  LET p == b.pieces[k] s == scene[k]
             IN  /\ p.class_index \in 0..(Len(b.classes) - 1)
                 /\ b.classes[p.class_index + 1] = s.class
                 /\ DOMAIN p.items = IF items THEN DOMAIN Carried(s) ELSE {}
                 /\ Len(p.items) = IF items THEN Len(Carried(s)) ELSE 0
                 /\ \A n \in DOMAIN p.items : EntryFor(p.items[n], Carried(s)[n], b.item_classes)
                 /\ p.ranges = IF items /\ IsTurret(s) THEN s.ranges ELSE <<>>
                 /\ p.activated = IF items /\ IsContainer(s) THEN s.active ELSE -1
                 /\ p \in Piece /\ Normal(p)
  <2> DEFINE s == scene[k]
             p == b.pieces[k]
             C == Carried(s)
             entries == [n \in DOMAIN C |-> EntryOf(C[n], walk)]
  <2>1. p = PieceOf(k, scene, items)
    BY <1>1, <1>2
  <2>2. s \in Structure /\ k \in Poses /\ (IsTurret(s) => Len(s.ranges) = 3)
    BY <1>2 DEF Selection
  <2>3. /\ p.class_index = Index(s.class, ClassWalk(scene)) /\ p.pose = k
        /\ p.links = s.links /\ p.floor = s.floor
        /\ p.items = IF items THEN entries ELSE <<>>
        /\ p.ranges = IF items /\ IsTurret(s) THEN s.ranges ELSE <<>>
        /\ p.range_setting = IF items /\ IsTurret(s) THEN s.setting ELSE -1
        /\ p.ammo = IF items /\ IsTurret(s) THEN s.bullets ELSE -1
        /\ p.activated = IF items /\ IsContainer(s) THEN s.active ELSE -1
    BY <2>1 DEF PieceOf
  <2>4. p = [class_index |-> p.class_index, pose |-> p.pose, links |-> p.links, floor |-> p.floor,
             items |-> p.items, ranges |-> p.ranges, range_setting |-> p.range_setting,
             ammo |-> p.ammo, activated |-> p.activated]
    BY <2>1 DEF PieceOf
  <2>5. p.class_index \in 0..(Len(b.classes) - 1) /\ b.classes[p.class_index + 1] = s.class
    BY <1>1, <1>2, <2>3, ClassesFacts
  <2>6. C \in Seq(Stack) /\ Len(C) \in Nat /\ DOMAIN C = 1..Len(C)
        /\ \A n \in 1..Len(C) : C[n] \in Stack
    BY <2>2, CarriedFacts
  <2>7. /\ DOMAIN p.items = IF items THEN DOMAIN C ELSE {}
        /\ Len(p.items) = IF items THEN Len(C) ELSE 0
        /\ \A n \in DOMAIN p.items : items /\ n \in DOMAIN C /\ p.items[n] = EntryOf(C[n], walk)
    <3> HIDE DEF p, C
    <3>1. CASE items
      <4>1. p.items = entries
        BY <2>3, <3>1
      <4>2. DOMAIN entries = DOMAIN C /\ Len(entries) = Len(C)
        BY <2>6
      <4>3. \A n \in DOMAIN C : entries[n] = EntryOf(C[n], walk)
        OBVIOUS
      <4> HIDE DEF entries
      <4> QED BY <3>1, <4>1, <4>2, <4>3
    <3>2. CASE ~items
      <4>1. p.items = <<>>
        BY <2>3, <3>2
      <4> QED BY <3>2, <4>1
    <3> QED BY <3>1, <3>2
  <2>8. ASSUME NEW n \in DOMAIN p.items
        PROVE  EntryFor(p.items[n], C[n], b.item_classes) /\ p.items[n] \in ItemEntry
    <3>1. items /\ n \in DOMAIN C /\ p.items[n] = EntryOf(C[n], walk)
      BY <2>7
    <3>2. D = Dictionary(walk)
      BY <3>1 DEF D
    <3> DEFINE e == p.items[n]
               it == C[n]
    <3>3. /\ e.cls = Index(it.path, walk) /\ e.quantity = it.quantity
          /\ e.durability = it.durability /\ e.blueprint = it.blueprint /\ e.stats = it.stats
          /\ e = [cls |-> e.cls, quantity |-> e.quantity, durability |-> e.durability,
                  blueprint |-> e.blueprint, stats |-> e.stats]
      BY <3>1 DEF EntryOf
    <3>4. Index(it.path, walk) \in 0..(Len(D) - 1) /\ D[Index(it.path, walk) + 1] = it.path
      BY <1>2, <3>1, <3>2, ItemClassesFacts
    <3>5. it \in Stack
      BY <2>6, <3>1
    <3>6. it.quantity \in Int /\ it.durability \in Int /\ it.blueprint \in BOOLEAN
          /\ it.stats \in [1..StatSlots -> Int]
      BY <3>5 DEF Stack
    <3>7. it.stats \in Seq(Int)
      BY <3>6, ContentsAssumption
    <3>8. Index(it.path, walk) \in Int
      BY <3>4
    <3> HIDE DEF it, e
    <3>9. e \in ItemEntry
      BY <3>3, <3>6, <3>7, <3>8 DEF ItemEntry
    <3>10. e.cls \in 0..(Len(b.item_classes) - 1) /\ b.item_classes[e.cls + 1] = it.path
      BY <1>1, <3>3, <3>4
    <3>11. EntryFor(e, it, b.item_classes)
      BY <3>3, <3>10 DEF EntryFor
    <3> QED BY <3>9, <3>11 DEF e, it
  <2>9. /\ s.links \in Seq(Nat) /\ s.floor \in Nat \cup {-1} /\ s.ranges \in Seq(Int)
        /\ s.setting \in Nat /\ s.bullets \in Nat /\ s.active \in 0..1
    BY <2>2 DEF Structure
  <2>10. p.items \in Seq(ItemEntry)
    <3>1. \A n \in DOMAIN p.items : p.items[n] \in ItemEntry
      BY <2>8
    <3>2. p.items = IF items THEN entries ELSE <<>>
      BY <2>3
    <3> HIDE DEF p, C
    <3>3. CASE items
      <4>1. entries \in [1..Len(C) -> ItemEntry]
        BY <2>6, <3>1, <3>2, <3>3
      <4> HIDE DEF entries
      <4> QED BY <2>6, <3>2, <3>3, <4>1
    <3> QED BY <3>2, <3>3
  <2> HIDE DEF p, s, C
  <2>11. /\ p.class_index \in Int /\ p.pose \in Poses /\ p.links \in Seq(Int) /\ p.floor \in Int
         /\ p.ranges \in Seq(Int) /\ p.range_setting \in Int /\ p.ammo \in Int /\ p.activated \in Int
         /\ p.floor >= -1 /\ p.range_setting >= -1 /\ p.ammo >= -1 /\ p.activated >= -1
    <3>1. p.links \in Seq(Int)
      BY <2>3, <2>9
    <3>2. p.ranges \in Seq(Int)
      BY <2>3, <2>9
    <3>3. p.pose \in Poses /\ p.class_index \in Int
      BY <2>2, <2>3, <2>5
    <3> QED BY <2>3, <2>9, <3>1, <3>2, <3>3
  <2>12. p \in Piece
    BY <2>4, <2>10, <2>11 DEF Piece
  <2>13. Normal(p)
    BY <2>11 DEF Normal
  <2> QED BY <2>3, <2>5, <2>7, <2>8, <2>12, <2>13 DEF p, s, C
<1> QED BY <1>1, <1>2, <1>3, <1>4, <1>5, <1>6 DEF b

----------------------------------------------------------------------------
(* The inductive invariant *)

Types ==
  /\ world \in Seq(Structure)
  /\ job \in Jobs \cup {NoJob}
  /\ with_items \in BOOLEAN
  /\ Selection(source)
  /\ job = NoJob => Selection(world)

\* The save is of the selection in source, or of a time before it.
FileInv ==
  /\ file # NoFile => \/ file \in OldFiles /\ source = <<>>
                      \/ file = ToJson(CaptureSelection(source, with_items))
  /\ source # <<>> => file = ToJson(CaptureSelection(source, with_items))

\* The indices of a blueprint's pieces go into its dictionary.
Sound(b) ==
  /\ b \in Blueprint
  /\ b.classes \in Seq(Classes)
  /\ b.item_classes \in Seq(Items)
  /\ \A k \in DOMAIN b.pieces : b.pieces[k].class_index \in 0..(Len(b.classes) - 1)

JobInv ==
  job # NoJob =>
    /\ Sound(job.bp)
    /\ LoadedAsSaved
    /\ job.next \in 1..(Len(job.bp.pieces) + 1)
    /\ job.entry >= 1
    /\ job.step = "piece" => job.entry = 1
    /\ job.step = "contents" => ~job.invulnerable /\ job.next <= Len(job.bp.pieces)
    /\ Len(world) = job.first + (job.next - 1) + (IF job.step = "contents" THEN 1 ELSE 0)

\* The pieces whose copies stand: those done with, and one still without its contents.
Begun ==
  IF job = NoJob THEN {} ELSE 1..(job.next - 1 + IF job.step = "contents" THEN 1 ELSE 0)

Whole == with_items /\ ~job.invulnerable

CopyInv ==
  source # <<>> =>
    /\ \A k \in Begun : Copy(k).class \in {source[k].class, NoClass}
    /\ job # NoJob /\ job.step = "contents" =>
         LET c == Copy(job.next)
         IN  /\ c.class = source[job.next].class
             /\ c.active = Bare(c.class).active /\ c.ranges = Bare(c.class).ranges
    /\ DevicesAsCaptured

\* The stacks the paste has come past whose class loads and whose copy can hold them.
Seen ==
  {u \in Spots(source) : /\ u[1] < job.next \/ (u[1] = job.next /\ u[2] < job.entry)
                         /\ ItemWalk(source)[u] \notin job.gone
                         /\ HasInventory(Copy(u[1]))}

StacksInv ==
  job # NoJob /\ source # <<>> /\ Whole =>
    /\ job.refused \subseteq Seen
    /\ job.stacks + Cardinality(job.refused) = Cardinality(Seen)

\* What has come through of the piece k, up to its stack n.
Kept(k, n) ==
  {m \in 1..n : /\ Carried(source[k])[m].path \notin job.gone
                /\ <<k, m>> \notin job.refused}

Through(k, n) == Picked(Carried(source[k]), Kept(k, n))

\* The copy whose contents are being restored holds what it should so far.
HeldInv ==
  job # NoJob /\ source # <<>> /\ Whole =>
    /\ \A k \in Done : HasInventory(Copy(k)) => IsPrefix(Expected(k), Copy(k).inventory)
    /\ job.step = "contents" /\ HasInventory(Copy(job.next)) =>
         /\ job.entry <= Len(Carried(source[job.next])) + 1
         /\ Copy(job.next).inventory = Through(job.next, job.entry - 1)

ContentsInv == Types /\ FileInv /\ JobInv /\ CopyInv /\ StacksInv

----------------------------------------------------------------------------
(* Steps *)

LEMMA BareFacts ==
  ASSUME NEW c \in Classes
  PROVE  /\ Bare(c) \in Structure /\ Bare(c).class = c
         /\ Bare(c).active = 1
         /\ Bare(c).inventory = IF IsContainer(Bare(c)) THEN <<>> ELSE NoInventory
         /\ Bare(c).inventory = <<>> => HasInventory(Bare(c))
<1>1. <<>> # NoInventory /\ <<>> \in Seq(Stack)
  <2>1. <<>> \in Seq(Stack) /\ NoInventory \notin Seq(Stack)
    BY ContentsAssumption
  <2> QED BY <2>1, Zenon
<1>2. /\ Bare(c).class = c /\ Bare(c).active = 1
      /\ Bare(c).inventory = IF IsContainer(Bare(c)) THEN <<>> ELSE NoInventory
  BY DEF Bare, IsContainer
<1>3. Bare(c).inventory = <<>> => HasInventory(Bare(c))
  BY <1>1 DEF HasInventory
<1>4. Bare(c) \in Structure
  <2>1. (IF Kind[c].turret THEN <<1, 1, 1>> ELSE <<>>) \in Seq(Int)
    OBVIOUS
  <2>2. (IF Kind[c].container THEN <<>> ELSE NoInventory) \in Seq(Stack) \cup {NoInventory}
    BY <1>1
  <2>3. <<>> \in Seq(Nat)
    OBVIOUS
  <2> QED BY <2>1, <2>2, <2>3 DEF Bare, Structure
<1> QED BY <1>2, <1>3, <1>4

\* What comes to stand where a piece is put is as the game makes it, and what
\* can hold something is empty; where nothing comes, nothing can hold anything.
LEMMA SpawnedFacts ==
  ASSUME NEW c \in Classes, NEW s \in Spawned(c)
  PROVE  /\ s \in Structure /\ s.class \in {c, NoClass}
         /\ s.active = Bare(s.class).active /\ s.ranges = Bare(s.class).ranges
         /\ HasInventory(s) => s.inventory = <<>>
         /\ s.class = NoClass => ~HasInventory(s) /\ ~IsContainer(s) /\ ~IsTurret(s)
<1>1. NoClass \in Classes /\ ~Kind[NoClass].container /\ ~Kind[NoClass].turret
  BY ContentsAssumption
<1>2. CASE s = Bare(NoClass)
  <2>1. /\ Bare(NoClass) \in Structure /\ Bare(NoClass).class = NoClass
        /\ Bare(NoClass).inventory = NoInventory
    BY <1>1, BareFacts DEF Bare
  <2> HIDE DEF Spawned
  <2> QED BY <1>1, <1>2, <2>1 DEF HasInventory, IsContainer, IsTurret
<1>3. CASE s = Bare(c)
  <2>1. /\ Bare(c) \in Structure /\ Bare(c).class = c
        /\ Bare(c).inventory = IF Kind[c].container THEN <<>> ELSE NoInventory
    BY BareFacts DEF Bare
  <2> QED BY <1>1, <1>3, <2>1 DEF HasInventory, IsContainer, IsTurret
<1>4. CASE s = [Bare(c) EXCEPT !.inventory = NoInventory]
  <2>1. Bare(c) \in Structure /\ Bare(c).class = c
    BY BareFacts
  <2>2. /\ s \in Structure /\ s.class = c /\ s.inventory = NoInventory
        /\ s.active = Bare(c).active /\ s.ranges = Bare(c).ranges
    BY <1>4, <2>1 DEF Structure
  <2> QED BY <1>1, <2>2 DEF HasInventory, IsContainer, IsTurret
<1> QED BY <1>2, <1>3, <1>4 DEF Spawned

\* A new stack is what its entry says.
LEMMA RestoredFacts ==
  ASSUME NEW entry \in ItemEntry, NEW made \in Stack
  PROVE  LET after == Restored(made, entry)
         IN  /\ after \in Stack
             /\ after.path = made.path /\ after.blueprint = made.blueprint
             /\ after.quantity = entry.quantity /\ after.durability = entry.durability
             /\ entry.stats \in [1..StatSlots -> Int] => after.stats = entry.stats
<1>1. /\ entry.quantity \in Int /\ entry.durability \in Int /\ entry.stats \in Seq(Int)
  BY DEF ItemEntry
<1>2. StatSlots \in Nat
  BY ContentsAssumption
<1>3. Len(entry.stats) = StatSlots => entry.stats \in [1..StatSlots -> Int]
  BY <1>1
<1>4. entry.stats \in [1..StatSlots -> Int] => Len(entry.stats) = StatSlots
  BY <1>1, <1>2
<1> DEFINE stats == IF Len(entry.stats) = StatSlots THEN entry.stats ELSE made.stats
<1>5. stats \in [1..StatSlots -> Int]
  BY <1>3 DEF Stack
<1>6. Restored(made, entry) = [made EXCEPT !.quantity = entry.quantity,
                                           !.durability = entry.durability, !.stats = stats]
  BY DEF Restored, Stack
<1>7. entry.stats \in [1..StatSlots -> Int] => stats = entry.stats
  BY <1>4
<1> HIDE DEF stats
<1> QED BY <1>1, <1>5, <1>6, <1>7 DEF Stack

LEMMA MadeFacts ==
  ASSUME NEW path \in Items, NEW quantity \in Int, NEW blueprint \in BOOLEAN
  PROVE  LET made == [NewItem(path, quantity) EXCEPT !.blueprint = blueprint]
         IN  /\ NewItem(path, quantity) \in Stack /\ made \in Stack
             /\ made.path = path /\ made.blueprint = blueprint
<1>1. [n \in 1..StatSlots |-> 0] \in [1..StatSlots -> Int]
  OBVIOUS
<1> QED BY <1>1 DEF NewItem, Stack

LEMMA AddedFacts ==
  ASSUME NEW inventory \in Seq(Stack), NEW entry \in ItemEntry, NEW path \in Items,
         NEW after \in AddedTo(inventory, entry, path)
  PROVE  /\ after \in Seq(Stack)
         /\ "merged" \notin Events =>
              \/ after = inventory
              \/ after # inventory
                 /\ after = Append(inventory,
                      Restored([NewItem(path, entry.quantity) EXCEPT !.blueprint = entry.blueprint],
                               entry))
<1> DEFINE made == [NewItem(path, entry.quantity) EXCEPT !.blueprint = entry.blueprint]
           same == {n \in DOMAIN inventory : inventory[n].path = path}
<1>1. entry.quantity \in Int /\ entry.blueprint \in BOOLEAN
  BY DEF ItemEntry
<1>2. made \in Stack
  BY <1>1, MadeFacts
<1>3. \/ after = Append(inventory, Restored(made, entry))
      \/ after = inventory
      \/ "merged" \in Events /\ \E n \in same : after = [inventory EXCEPT ![n] = Restored(@, entry)]
  BY DEF AddedTo
<1> HIDE DEF made
<1>4. Restored(made, entry) \in Stack
  BY <1>2, RestoredFacts
<1>5. CASE after = Append(inventory, Restored(made, entry))
  <2>1. after \in Seq(Stack)
    BY <1>4, <1>5
  <2>2. Len(after) = Len(inventory) + 1 /\ Len(inventory) \in Nat
    BY <1>4, <1>5
  <2>3. after # inventory
    BY <2>2
  <2> QED BY <1>5, <2>1, <2>3 DEF made
<1>6. CASE after = inventory
  BY <1>6
<1>7. CASE "merged" \in Events /\ \E n \in same : after = [inventory EXCEPT ![n] = Restored(@, entry)]
  <2>1. PICK n \in same : after = [inventory EXCEPT ![n] = Restored(@, entry)]
    BY <1>7
  <2>2. n \in DOMAIN inventory /\ inventory[n] \in Stack
    OBVIOUS
  <2>3. Restored(inventory[n], entry) \in Stack
    BY <2>2, RestoredFacts
  <2>4. after = [inventory EXCEPT ![n] = Restored(inventory[n], entry)]
    BY <2>1
  <2>5. after \in Seq(Stack)
    BY <2>2, <2>3, <2>4
  <2> QED BY <1>7, <2>5
<1> QED BY <1>3, <1>5, <1>6, <1>7

\* What is known while a piece is being pasted.
LEMMA RunningFacts ==
  ASSUME Types, JobInv, Running
  PROVE  /\ job \in Jobs /\ job # NoJob
         /\ Sound(job.bp)
         /\ job.first \in Nat /\ job.next \in Nat /\ job.next >= 1 /\ job.entry \in Nat
         /\ job.entry >= 1 /\ job.stacks \in Nat /\ job.devices \in Nat
         /\ job.invulnerable \in BOOLEAN /\ job.refused \in SUBSET (Nat \X Nat)
         /\ Len(job.bp.pieces) \in Nat /\ job.next \in 1..Len(job.bp.pieces)
         /\ DOMAIN job.bp.pieces = 1..Len(job.bp.pieces)
         /\ PieceNow \in Piece /\ PieceNow.class_index \in 0..(Len(job.bp.classes) - 1)
         /\ world \in Seq(Structure) /\ Len(world) \in Nat /\ DOMAIN world = 1..Len(world)
<1>1. job # NoJob /\ job \in Jobs /\ job.next <= Len(job.bp.pieces)
  BY DEF Types, Running
<1>2. /\ job.first \in Nat /\ job.next \in Nat /\ job.entry \in Nat /\ job.stacks \in Nat
      /\ job.devices \in Nat /\ job.invulnerable \in BOOLEAN /\ job.refused \in SUBSET (Nat \X Nat)
  BY <1>1 DEF Jobs
<1>3. Sound(job.bp) /\ job.next \in 1..(Len(job.bp.pieces) + 1) /\ job.entry >= 1
  BY <1>1 DEF JobInv
<1>4. job.bp.pieces \in Seq(Piece)
  BY <1>3 DEF Sound, Blueprint
<1>5. Len(job.bp.pieces) \in Nat /\ DOMAIN job.bp.pieces = 1..Len(job.bp.pieces)
  BY <1>4
<1>6. job.next \in 1..Len(job.bp.pieces) /\ job.next >= 1
  BY <1>1, <1>2, <1>3, <1>5
<1>7. PieceNow \in Piece /\ PieceNow.class_index \in 0..(Len(job.bp.classes) - 1)
  BY <1>3, <1>4, <1>5, <1>6 DEF Sound, PieceNow
<1>8. world \in Seq(Structure)
  BY DEF Types
<1> QED BY <1>1, <1>2, <1>3, <1>5, <1>6, <1>7, <1>8

\* Where the copy is whose contents are being restored.
LEMMA RestoringFacts ==
  ASSUME Types, JobInv, Restoring
  PROVE  /\ At = job.first + job.next /\ At \in DOMAIN world
         /\ world[At] \in Structure /\ world[At] = Copy(job.next)
         /\ ~job.invulnerable /\ job.step = "contents" /\ Running
<1>1. Running /\ job.step = "contents"
  BY DEF Restoring
<1>2. /\ job # NoJob /\ job.first \in Nat /\ job.next \in Nat /\ job.next >= 1
      /\ world \in Seq(Structure) /\ Len(world) \in Nat /\ DOMAIN world = 1..Len(world)
  BY <1>1, RunningFacts
<1>3. Len(world) = job.first + (job.next - 1) + 1 /\ ~job.invulnerable
  BY <1>1, <1>2 DEF JobInv
<1>4. At = job.first + job.next
  BY <1>2, <1>3 DEF At
<1>5. At \in DOMAIN world
  BY <1>2, <1>3 DEF At
<1> QED BY <1>1, <1>2, <1>3, <1>4, <1>5 DEF Copy

\* What a turret is after a pass of fill: itself, with ammunition after what it
\* held, to its last slot at the most.
Topped(s, ammo, after) ==
  /\ ammo \in Items /\ HasInventory(s)
  /\ s.inventory \in Seq(Stack) /\ after.inventory \in Seq(Stack)
  /\ after = [s EXCEPT !.inventory = after.inventory]
  /\ Len(s.inventory) <= Len(after.inventory)
  /\ Len(after.inventory) <= Kind[s.class].slots
  /\ \A n \in 1..Len(after.inventory) :
       IF n <= Len(s.inventory) THEN after.inventory[n] = s.inventory[n]
       ELSE after.inventory[n].path = ammo

LEMMA OutcomeFacts ==
  ASSUME NEW s \in Structure, NEW ammo \in Items \cup {NoItem}, NEW per_stack \in Nat,
         NEW o \in Outcomes(s, ammo, per_stack)
  PROVE  o.after = s \/ Topped(s, ammo, o.after)
<1> DEFINE free == FreeSlots(s)
           old == s.inventory
<1>1. CASE ~HasInventory(s) \/ ammo = NoItem \/ free = 0
  BY <1>1 DEF Outcomes
<1>2. CASE HasInventory(s) /\ ammo # NoItem /\ free # 0
  <2>1. PICK n \in Takes(free), quantity \in Quantities(ammo, StackFor(ammo, per_stack)) :
          o.after = Filled(s, ammo, n, quantity)
    BY <1>2 DEF Outcomes
  <2>2. ammo \in Items /\ s.class \in Classes
    BY <1>2 DEF Structure
  <2>3. old \in Seq(Stack) /\ Len(old) \in Nat /\ DOMAIN old = 1..Len(old)
    BY <1>2 DEF HasInventory, Structure
  <2>4. Kind[s.class].slots \in Nat
    BY <2>2, ContentsAssumption DEF Kinds
  <2>5. free = Kind[s.class].slots - Len(old) /\ free \in Nat
    BY <1>2, <2>3, <2>4 DEF FreeSlots
  <2> HIDE DEF free, old
  <2>6. n \in Nat /\ n <= free
    BY <2>5 DEF Takes
  <2>7. MaxStack[ammo] \in Nat
    BY <2>2, ContentsAssumption
  <2>8. StackFor(ammo, per_stack) \in Int
    BY <2>7 DEF StackFor
  <2>9. quantity \in Int
    BY <2>7, <2>8 DEF Quantities
  <2> DEFINE more == [k \in 1..n |-> NewItem(ammo, quantity)]
             new == old \o more
  <2>10. NewItem(ammo, quantity) \in Stack /\ NewItem(ammo, quantity).path = ammo
    <3>1. FALSE \in BOOLEAN
      OBVIOUS
    <3> QED BY <2>2, <2>9, <3>1, MadeFacts DEF NewItem
  <2>11. more \in Seq(Stack) /\ Len(more) = n /\ \A k \in 1..n : more[k].path = ammo
    BY <2>6, <2>10
  <2> HIDE DEF more
  <2>12. /\ new \in Seq(Stack) /\ Len(new) = Len(old) + n
         /\ \A k \in 1..Len(new) : IF k <= Len(old) THEN new[k] = old[k]
                                   ELSE new[k] = more[k - Len(old)]
    BY <2>3, <2>6, <2>11
  <2>13. Filled(s, ammo, n, quantity) = [s EXCEPT !.inventory = new]
    BY DEF Filled, more, old
  <2> HIDE DEF new
  <2>14. o.after.inventory = new /\ o.after = [s EXCEPT !.inventory = new]
    BY <2>1, <2>13 DEF Structure
  <2>15. \A k \in 1..Len(new) : k > Len(old) => new[k].path = ammo
    <3> SUFFICES ASSUME NEW k \in 1..Len(new), k > Len(old) PROVE new[k].path = ammo
      OBVIOUS
    <3>1. k \in Int /\ k - Len(old) \in 1..n
      BY <2>3, <2>6, <2>12
    <3>2. new[k] = more[k - Len(old)]
      BY <2>3, <2>12, <3>1
    <3> QED BY <2>11, <3>1, <3>2
  <2>16. \A k \in 1..Len(new) : IF k <= Len(old) THEN new[k] = old[k] ELSE new[k].path = ammo
    BY <2>3, <2>12, <2>15
  <2>17. Len(old) <= Len(new) /\ Len(new) <= Kind[s.class].slots
    BY <2>3, <2>4, <2>5, <2>6, <2>12
  <2> QED BY <1>2, <2>2, <2>3, <2>12, <2>14, <2>16, <2>17 DEF Topped, old
<1> QED BY <1>1, <1>2

LEMMA FillFacts ==
  ASSUME Types,
         NEW turrets \in SUBSET {k \in DOMAIN world : LooksLikeTurret(world[k])},
         NEW per_stack \in StackArgs, HandleFill(turrets, per_stack)
  PROVE  /\ DOMAIN world' = DOMAIN world /\ Len(world') = Len(world) /\ Len(world) \in Nat
         /\ world' \in Seq(Structure) /\ DOMAIN world = 1..Len(world)
         /\ \A k \in DOMAIN world :
              \/ world'[k] = world[k]
              \/ /\ k \in turrets
                 /\ \E ammo \in Templates(world[k]) : Topped(world[k], ammo, world'[k])
         /\ \A k \in DOMAIN world :
              /\ world'[k].class = world[k].class /\ world'[k].active = world[k].active
              /\ world'[k].ranges = world[k].ranges
              /\ HasInventory(world'[k]) <=> HasInventory(world[k])
<1>1. PICK done \in [turrets -> UNION {OutcomesFor(k, per_stack) : k \in turrets}] :
        /\ \A k \in turrets : done[k] \in OutcomesFor(k, per_stack)
        /\ world' = [k \in DOMAIN world |-> IF k \in turrets THEN done[k].after ELSE world[k]]
  BY DEF HandleFill
<1>2. world \in Seq(Structure) /\ Len(world) \in Nat /\ DOMAIN world = 1..Len(world)
  BY DEF Types
<1>3. per_stack \in Nat
  BY ContentsAssumption
<1>4. DOMAIN world' = DOMAIN world
  BY <1>1
<1>5. ASSUME NEW k \in DOMAIN world
      PROVE  \/ world'[k] = world[k]
             \/ /\ k \in turrets
                /\ \E ammo \in Templates(world[k]) : Topped(world[k], ammo, world'[k])
  <2>1. CASE k \notin turrets
    BY <1>1, <2>1
  <2>2. CASE k \in turrets
    <3>1. world'[k] = done[k].after /\ done[k] \in OutcomesFor(k, per_stack)
      BY <1>1, <2>2
    <3>2. PICK ammo \in Templates(world[k]) : done[k] \in Outcomes(world[k], ammo, per_stack)
      BY <3>1 DEF OutcomesFor
    <3>3. world[k] \in Structure
      BY <1>2
    <3>4. Kind[world[k].class].template \in Items \cup {NoItem}
      BY <3>3, ContentsAssumption DEF Structure, Kinds
    <3>5. ammo \in Items \cup {NoItem}
      BY <3>2, <3>4 DEF Templates
    <3>6. done[k].after = world[k] \/ Topped(world[k], ammo, done[k].after)
      BY <1>3, <3>2, <3>3, <3>5, OutcomeFacts
    <3> QED BY <2>2, <3>1, <3>2, <3>6
  <2> QED BY <2>1, <2>2
<1>6. ASSUME NEW k \in DOMAIN world
      PROVE  /\ world'[k] \in Structure
             /\ world'[k].class = world[k].class /\ world'[k].active = world[k].active
             /\ world'[k].ranges = world[k].ranges
             /\ HasInventory(world'[k]) <=> HasInventory(world[k])
  <2>1. world[k] \in Structure
    BY <1>2
  <2>2. CASE world'[k] = world[k]
    BY <2>1, <2>2
  <2>3. ASSUME NEW ammo \in Templates(world[k]), Topped(world[k], ammo, world'[k])
        PROVE  /\ world'[k] \in Structure
               /\ world'[k].class = world[k].class /\ world'[k].active = world[k].active
               /\ world'[k].ranges = world[k].ranges
               /\ HasInventory(world'[k]) <=> HasInventory(world[k])
    <3> DEFINE new == world'[k].inventory
    <3>1. /\ world'[k] = [world[k] EXCEPT !.inventory = new] /\ new \in Seq(Stack)
          /\ HasInventory(world[k])
      BY <2>3 DEF Topped
    <3>2. HasInventory(world'[k])
      BY <3>1, ContentsAssumption DEF HasInventory
    <3> HIDE DEF new
    <3> QED BY <2>1, <3>1, <3>2 DEF Structure
  <2> QED BY <1>5, <2>2, <2>3
<1>7. world' \in [1..Len(world) -> Structure]
  BY <1>1, <1>2, <1>4, <1>6
<1>8. world' \in Seq(Structure) /\ Len(world') = Len(world)
  BY <1>2, <1>7
<1> QED BY <1>2, <1>4, <1>5, <1>6, <1>8

LEMMA NextPieceFacts ==
  ASSUME NEW j \in Jobs, NEW devices \in Nat
  PROVE  LET after == [[j EXCEPT !.next = @ + 1, !.step = "piece", !.entry = 1]
                         EXCEPT !.devices = devices]
             next == [j EXCEPT !.next = @ + 1, !.step = "piece", !.entry = 1]
         IN  /\ after \in Jobs /\ next \in Jobs
             /\ \A m \in {after, next} :
                  /\ m.bp = j.bp /\ m.invulnerable = j.invulnerable /\ m.first = j.first
                  /\ m.stacks = j.stacks /\ m.refused = j.refused /\ m.gone = j.gone
                  /\ m.entry = 1 /\ m.next = j.next + 1 /\ m.step = "piece"
<1>1. j.next \in Nat
  BY DEF Jobs
<1>2. j.next + 1 \in Nat /\ 1 \in Nat
  BY <1>1
<1> QED BY <1>2, ZenonT(40) DEF Jobs

\* The job goes on to the next stack.
Onward(j, after) ==
  /\ after \in Jobs /\ after.bp = j.bp /\ after.invulnerable = j.invulnerable
  /\ after.first = j.first /\ after.gone = j.gone /\ after.next = j.next /\ after.step = j.step
  /\ after.entry = j.entry + 1

LEMMA EntryDoneFacts ==
  ASSUME NEW j \in Jobs
  PROVE  LET skipped == [j EXCEPT !.entry = @ + 1]
             denied == [j EXCEPT !.entry = @ + 1, !.refused = @ \cup {<<j.next, j.entry>>}]
             restored == [j EXCEPT !.entry = @ + 1, !.stacks = @ + 1]
         IN  /\ Onward(j, skipped) /\ Onward(j, denied) /\ Onward(j, restored)
             /\ skipped.stacks = j.stacks /\ skipped.refused = j.refused
             /\ denied.stacks = j.stacks /\ denied.refused = j.refused \cup {<<j.next, j.entry>>}
             /\ restored.stacks = j.stacks + 1 /\ restored.refused = j.refused
<1>1. j.next \in Nat /\ j.entry \in Nat /\ j.stacks \in Nat /\ j.refused \in SUBSET (Nat \X Nat)
  BY DEF Jobs
<1>2. j.entry + 1 \in Nat /\ j.stacks + 1 \in Nat
  BY <1>1
<1> DEFINE refused == j.refused \cup {<<j.next, j.entry>>}
           skipped == [j EXCEPT !.entry = @ + 1]
           denied == [j EXCEPT !.entry = @ + 1, !.refused = @ \cup {<<j.next, j.entry>>}]
           restored == [j EXCEPT !.entry = @ + 1, !.stacks = @ + 1]
<1>3. refused \in SUBSET (Nat \X Nat)
  BY <1>1
<1>4. denied = [j EXCEPT !.entry = j.entry + 1, !.refused = refused]
  BY DEF Jobs
<1> HIDE DEF refused
<1>5. /\ Onward(j, denied)
      /\ denied.stacks = j.stacks /\ denied.refused = refused
  <2> HIDE DEF denied
  <2> QED BY <1>2, <1>3, <1>4 DEF Jobs, Onward
<1>6. /\ Onward(j, restored)
      /\ restored.stacks = j.stacks + 1 /\ restored.refused = j.refused
  BY <1>2 DEF Jobs, Onward
<1>7. /\ Onward(j, skipped)
      /\ skipped.stacks = j.stacks /\ skipped.refused = j.refused
  BY <1>2 DEF Jobs, Onward
<1> HIDE DEF skipped, denied, restored
<1> QED BY <1>5, <1>6, <1>7 DEF skipped, denied, restored, refused

LEMMA PlaceFacts ==
  ASSUME Types, JobInv, PlacePiece
  PROVE  LET c == job.bp.classes[PieceNow.class_index + 1]
             s == world'[Len(world) + 1]
         IN  /\ Running /\ job.step = "piece" /\ c \in Classes
             /\ world' \in Seq(Structure) /\ Len(world') = Len(world) + 1
             /\ \A k \in 1..Len(world) : world'[k] = world[k]
             /\ s \in Structure /\ s.class \in {c, NoClass}
             /\ s.active = Bare(s.class).active /\ s.ranges = Bare(s.class).ranges
             /\ HasInventory(s) => s.inventory = <<>>
             /\ s.class = NoClass => ~HasInventory(s) /\ ~IsContainer(s) /\ ~IsTurret(s)
             /\ job' \in Jobs /\ job' # NoJob
             /\ job'.bp = job.bp /\ job'.invulnerable = job.invulnerable /\ job'.first = job.first
             /\ job'.gone = job.gone /\ job'.stacks = job.stacks /\ job'.refused = job.refused
             /\ job'.entry = 1
             /\ IF s.class = NoClass \/ job.invulnerable
                THEN job'.next = job.next + 1 /\ job'.step = "piece"
                ELSE job'.next = job.next /\ job'.step = "contents"
             /\ UNCHANGED <<file, source, with_items>>
<1> DEFINE c == job.bp.classes[PieceNow.class_index + 1]
<1>1. Running /\ job.step = "piece" /\ UNCHANGED <<file, source, with_items>>
  BY DEF PlacePiece
<1>2. PICK s \in Spawned(c) :
        /\ world' = Append(world, s)
        /\ job' = IF s.class = NoClass \/ job.invulnerable THEN NextPiece
                  ELSE [job EXCEPT !.step = "contents"]
  BY DEF PlacePiece
<1>3. /\ job \in Jobs /\ job # NoJob /\ job.next \in Nat /\ Sound(job.bp)
      /\ PieceNow.class_index \in 0..(Len(job.bp.classes) - 1)
      /\ world \in Seq(Structure)
  BY <1>1, RunningFacts
<1>4. c \in Classes
  <2>1. job.bp.classes \in Seq(Classes)
    BY <1>3 DEF Sound
  <2>2. PieceNow.class_index + 1 \in 1..Len(job.bp.classes)
    BY <1>3, <2>1
  <2> QED BY <2>1, <2>2
<1>5. job.entry = 1
  BY <1>1, <1>3 DEF JobInv
<1> HIDE DEF c
<1>6. /\ s \in Structure /\ s.class \in {c, NoClass}
      /\ s.active = Bare(s.class).active /\ s.ranges = Bare(s.class).ranges
      /\ HasInventory(s) => s.inventory = <<>>
      /\ s.class = NoClass => ~HasInventory(s) /\ ~IsContainer(s) /\ ~IsTurret(s)
  BY <1>4, SpawnedFacts
<1>7. /\ world' \in Seq(Structure) /\ Len(world') = Len(world) + 1
      /\ \A k \in 1..Len(world) : world'[k] = world[k]
      /\ world'[Len(world) + 1] = s
  BY <1>2, <1>3, <1>6
<1>8. /\ job' \in Jobs /\ job'.bp = job.bp /\ job'.invulnerable = job.invulnerable
      /\ job'.first = job.first /\ job'.gone = job.gone /\ job'.stacks = job.stacks
      /\ job'.refused = job.refused /\ job'.entry = 1
      /\ IF s.class = NoClass \/ job.invulnerable
         THEN job'.next = job.next + 1 /\ job'.step = "piece"
         ELSE job'.next = job.next /\ job'.step = "contents"
  <2>1. CASE s.class = NoClass \/ job.invulnerable
    <3>1. 0 \in Nat /\ job' = NextPiece
      BY <1>2, <2>1
    <3> QED BY <1>3, <2>1, <3>1, NextPieceFacts DEF NextPiece
  <2>2. CASE ~(s.class = NoClass \/ job.invulnerable)
    BY <1>2, <1>3, <1>5, <2>2 DEF Jobs
  <2> QED BY <2>1, <2>2
<1>9. job' # NoJob
  BY <1>8, ContentsAssumption
<1> QED BY <1>1, <1>4, <1>6, <1>7, <1>8, <1>9 DEF c

\* An entry is dealt with: passed over, for its class does not load, or refused
\* by the game, or restored into the copy.
LEMMA EntryFacts ==
  ASSUME Types, JobInv, SkipEntry \/ RestoreEntry
  PROVE  LET old == world[At].inventory
             new == world'[At].inventory
             path == PathOf(EntryNow)
             over == /\ path = NoItem
                     /\ job'.stacks = job.stacks /\ job'.refused = job.refused
             told == /\ job'.stacks = job.stacks + 1 /\ job'.refused = job.refused
             untold == /\ job'.stacks = job.stacks
                       /\ job'.refused = job.refused \cup {<<job.next, job.entry>>}
         IN  /\ Unrestored /\ Restoring /\ EntryNow \in ItemEntry
             /\ old \in Seq(Stack) /\ new \in Seq(Stack)
             /\ HasInventory(world[At]) /\ HasInventory(world'[At])
             /\ world' \in Seq(Structure) /\ Len(world') = Len(world)
             /\ world'[At] = [world[At] EXCEPT !.inventory = new]
             /\ world'[At] \in Structure /\ world[At] \in Structure
             /\ \A k \in DOMAIN world : k # At => world'[k] = world[k]
             /\ job' \in Jobs /\ job' # NoJob
             /\ job'.bp = job.bp /\ job'.invulnerable = job.invulnerable /\ job'.first = job.first
             /\ job'.gone = job.gone /\ job'.next = job.next /\ job'.step = job.step
             /\ job'.entry = job.entry + 1
             /\ \/ over /\ new = old
                \/ path \in Items /\ untold /\ new = old
                \/ /\ path \in Items /\ told /\ new # old
                   /\ new \in AddedTo(old, EntryNow, path)
             /\ UNCHANGED <<file, source, with_items>>
<1> DEFINE old == world[At].inventory
           new == world'[At].inventory
           path == PathOf(EntryNow)
           over == path = NoItem /\ job'.stacks = job.stacks /\ job'.refused = job.refused
           told == job'.stacks = job.stacks + 1 /\ job'.refused = job.refused
           untold == /\ job'.stacks = job.stacks
                     /\ job'.refused = job.refused \cup {<<job.next, job.entry>>}
           skipped == [job EXCEPT !.entry = @ + 1]
           denied == [job EXCEPT !.entry = @ + 1, !.refused = @ \cup {<<job.next, job.entry>>}]
           restored == [job EXCEPT !.entry = @ + 1, !.stacks = @ + 1]
<1>1. Unrestored /\ Restoring /\ Running /\ HasInventory(world[At])
      /\ job.entry <= Len(PieceNow.items) /\ UNCHANGED <<file, source, with_items>>
  BY DEF SkipEntry, RestoreEntry, Unrestored, Restoring
<1>2. /\ job \in Jobs /\ job # NoJob /\ job.next \in Nat /\ job.entry \in Nat /\ job.entry >= 1
      /\ job.stacks \in Nat /\ job.refused \in SUBSET (Nat \X Nat) /\ Sound(job.bp)
      /\ PieceNow \in Piece /\ world \in Seq(Structure) /\ Len(world) \in Nat
      /\ DOMAIN world = 1..Len(world)
  BY <1>1, RunningFacts
<1>3. At \in DOMAIN world /\ world[At] \in Structure
  BY <1>1, RestoringFacts
<1>4. old \in Seq(Stack)
  BY <1>1, <1>3 DEF Structure, HasInventory
<1>5. EntryNow \in ItemEntry
  <2>1. PieceNow.items \in Seq(ItemEntry)
    BY <1>2 DEF Piece
  <2>2. job.entry \in 1..Len(PieceNow.items)
    BY <1>1, <1>2, <2>1
  <2> QED BY <2>1, <2>2 DEF EntryNow
<1>6. \A m \in {skipped, denied, restored} :
        /\ m \in Jobs /\ m # NoJob /\ m.bp = job.bp /\ m.invulnerable = job.invulnerable
        /\ m.first = job.first /\ m.gone = job.gone /\ m.next = job.next /\ m.step = job.step
        /\ m.entry = job.entry + 1
  <2>1. Onward(job, skipped) /\ Onward(job, denied) /\ Onward(job, restored)
    BY <1>2, EntryDoneFacts
  <2> HIDE DEF skipped, denied, restored
  <2> QED BY <2>1, ContentsAssumption DEF Onward
<1>7. /\ skipped.stacks = job.stacks /\ skipped.refused = job.refused
      /\ denied.stacks = job.stacks /\ denied.refused = job.refused \cup {<<job.next, job.entry>>}
      /\ restored.stacks = job.stacks + 1 /\ restored.refused = job.refused
  BY <1>2, EntryDoneFacts
<1> HIDE DEF skipped, denied, restored
<1>8. CASE SkipEntry
  <2>1. job' = skipped /\ world' = world /\ path = NoItem
    BY <1>8 DEF SkipEntry, skipped
  <2>2. world'[At] = [world[At] EXCEPT !.inventory = new]
    BY <1>3, <2>1 DEF Structure
  <2>3. over
    BY <1>7, <2>1
  <2> QED BY <1>1, <1>2, <1>3, <1>4, <1>5, <1>6, <2>1, <2>2, <2>3
<1>9. CASE RestoreEntry
  <2>1. path # NoItem
    BY <1>9 DEF RestoreEntry
  <2>2. PICK after \in AddedTo(old, EntryNow, path) :
          /\ world' = [world EXCEPT ![At].inventory = after]
          /\ job' = IF after = old THEN denied ELSE restored
    BY <1>9 DEF RestoreEntry, denied, restored
  <2>3. path \in Items
    <3>1. /\ EntryNow.cls \in 0..(Len(job.bp.item_classes) - 1)
          /\ path = job.bp.item_classes[EntryNow.cls + 1]
      BY <2>1 DEF PathOf
    <3>2. job.bp.item_classes \in Seq(Items)
      BY <1>2 DEF Sound
    <3>3. EntryNow.cls + 1 \in 1..Len(job.bp.item_classes)
      BY <3>1, <3>2
    <3> QED BY <3>1, <3>2, <3>3
  <2> HIDE DEF path
  <2>4. after \in Seq(Stack)
    BY <1>4, <1>5, <2>3, AddedFacts
  <2>5. [world[At] EXCEPT !.inventory = after] \in Structure
        /\ [world[At] EXCEPT !.inventory = after].inventory = after
    BY <1>3, <2>4 DEF Structure
  <2>6. world' = [world EXCEPT ![At] = [world[At] EXCEPT !.inventory = after]]
    BY <1>2, <1>3, <2>2
  <2>7. world' \in Seq(Structure) /\ Len(world') = Len(world)
        /\ world'[At] = [world[At] EXCEPT !.inventory = after]
        /\ \A k \in DOMAIN world : k # At => world'[k] = world[k]
    BY <1>2, <1>3, <2>5, <2>6
  <2>8. new = after
    BY <2>5, <2>7
  <2>9. world'[At] = [world[At] EXCEPT !.inventory = new] /\ world'[At] \in Structure
    BY <2>5, <2>7, <2>8
  <2>10. HasInventory(world'[At])
    BY <2>4, <2>8, ContentsAssumption DEF HasInventory
  <2> HIDE DEF new, old, told, untold, over
  <2>11. CASE after = old
    <3>1. job' = denied /\ new = old
      BY <2>2, <2>8, <2>11
    <3>2. untold
      BY <1>7, <3>1 DEF untold
    <3> QED BY <1>1, <1>3, <1>4, <1>5, <1>6, <2>3, <2>4, <2>7, <2>8, <2>9, <2>10, <3>1, <3>2
            DEF old, new, told, untold, over, path
  <2>12. CASE after # old
    <3>1. job' = restored /\ new # old /\ new \in AddedTo(old, EntryNow, path)
      BY <2>2, <2>8, <2>12
    <3>2. told
      BY <1>7, <3>1 DEF told
    <3> QED BY <1>1, <1>3, <1>4, <1>5, <1>6, <2>3, <2>4, <2>7, <2>8, <2>9, <2>10, <3>1, <3>2
            DEF old, new, told, untold, over, path
  <2> QED BY <2>11, <2>12
<1> QED BY <1>8, <1>9

\* The copy's device is set, and the paste goes on to the next piece.
LEMMA DeviceFacts ==
  ASSUME Types, JobInv, RestoreDevice
  PROVE  LET s == world[At]
             t == world'[At]
         IN  /\ Restoring /\ ~Unrestored /\ s \in Structure /\ t \in Structure
             /\ world' \in Seq(Structure) /\ Len(world') = Len(world)
             /\ t.class = s.class /\ t.inventory = s.inventory
             /\ t.active = IF DeviceKnown(PieceNow) /\ IsContainer(s)
                           THEN IF PieceNow.activated = 1 THEN 1 ELSE 0 ELSE s.active
             /\ t.ranges = IF Len(PieceNow.ranges) = 3 /\ IsTurret(s) THEN PieceNow.ranges
                           ELSE s.ranges
             /\ \A k \in DOMAIN world : k # At => world'[k] = world[k]
             /\ job' \in Jobs /\ job' # NoJob
             /\ job'.bp = job.bp /\ job'.invulnerable = job.invulnerable /\ job'.first = job.first
             /\ job'.gone = job.gone /\ job'.stacks = job.stacks /\ job'.refused = job.refused
             /\ job'.entry = 1 /\ job'.next = job.next + 1 /\ job'.step = "piece"
             /\ UNCHANGED <<file, source, with_items>>
<1> DEFINE s == world[At]
           on == DeviceKnown(PieceNow) /\ IsContainer(s)
           active == IF on THEN IF PieceNow.activated = 1 THEN 1 ELSE 0 ELSE s.active
           ranges == IF Len(PieceNow.ranges) = 3 /\ IsTurret(s) THEN PieceNow.ranges ELSE s.ranges
           t == [s EXCEPT !.active = active, !.ranges = ranges]
<1>1. /\ Restoring /\ ~Unrestored /\ Running
      /\ world' = [world EXCEPT ![At].active = active, ![At].ranges = ranges]
      /\ job' = [NextPiece EXCEPT !.devices = @ + (IF on THEN 1 ELSE 0)]
      /\ UNCHANGED <<file, source, with_items>>
  BY DEF RestoreDevice, Restoring
<1>2. /\ job \in Jobs /\ job.next \in Nat /\ job.devices \in Nat
      /\ PieceNow \in Piece /\ world \in Seq(Structure) /\ Len(world) \in Nat
      /\ DOMAIN world = 1..Len(world)
  BY <1>1, RunningFacts
<1>3. At \in DOMAIN world /\ s \in Structure
  BY <1>1, RestoringFacts
<1>4. active \in 0..1 /\ ranges \in Seq(Int)
  BY <1>2, <1>3 DEF Structure, Piece
<1> HIDE DEF active, ranges, on
<1>5. t \in Structure /\ t.class = s.class /\ t.inventory = s.inventory /\ t.active = active
      /\ t.ranges = ranges
  BY <1>3, <1>4 DEF Structure
<1>6. world' = [world EXCEPT ![At] = t]
  BY <1>1, <1>2, <1>3
<1>7. /\ world' \in Seq(Structure) /\ Len(world') = Len(world) /\ world'[At] = t
      /\ \A k \in DOMAIN world : k # At => world'[k] = world[k]
  <2> HIDE DEF t, s
  <2> QED BY <1>2, <1>3, <1>5, <1>6
<1>8. /\ job' \in Jobs /\ job'.bp = job.bp /\ job'.invulnerable = job.invulnerable
      /\ job'.first = job.first /\ job'.gone = job.gone /\ job'.stacks = job.stacks
      /\ job'.refused = job.refused
      /\ job'.entry = 1 /\ job'.next = job.next + 1 /\ job'.step = "piece"
  <2>1. job.devices + (IF on THEN 1 ELSE 0) \in Nat
    BY <1>2
  <2>2. NextPiece.devices = job.devices
    BY <1>2 DEF NextPiece, Jobs
  <2> DEFINE devices == job.devices + (IF on THEN 1 ELSE 0)
  <2>3. job' = [NextPiece EXCEPT !.devices = devices]
    BY <1>1, <2>2
  <2>4. devices \in Nat /\ job \in Jobs
    BY <1>2, <2>1
  <2> HIDE DEF devices
  <2>5. job' = [[job EXCEPT !.next = @ + 1, !.step = "piece", !.entry = 1]
                   EXCEPT !.devices = devices]
    BY <2>3 DEF NextPiece
  <2> QED BY <2>4, <2>5, NextPieceFacts
<1>9. job' # NoJob
  BY <1>8, ContentsAssumption
<1> HIDE DEF t
<1> QED BY <1>1, <1>3, <1>5, <1>7, <1>8, <1>9 DEF active, ranges, on

LEMMA LoadedFacts ==
  ASSUME Types, FileInv, file # NoFile
  PROVE  LET b == FromJson(file)
         IN  /\ Sound(b)
             /\ source # <<>> => b = CaptureSelection(source, with_items)
             /\ source = <<>> =>
                  \A k \in DOMAIN b.pieces :
                    b.pieces[k].links =
                      LET j == file.pieces[k]
                      IN  IF "f" \in DOMAIN j /\ j["f"] >= 0 THEN <<j["f"]>>
                          ELSE Value(j, "l", <<>>)
<1> DEFINE b == FromJson(file)
<1>1. CASE file \in OldFiles /\ source = <<>>
  <2>1. AsFormerlySaved(file)
    BY <1>1, ContentsAssumption
  <2>2. Sound(b)
    BY <2>1 DEF AsFormerlySaved, Sound
  <2>3. ASSUME NEW k \in DOMAIN b.pieces
        PROVE  b.pieces[k].links =
                 LET j == file.pieces[k]
                 IN  IF "f" \in DOMAIN j /\ j["f"] >= 0 THEN <<j["f"]>> ELSE Value(j, "l", <<>>)
    <3>1. ~({"f", "l"} \subseteq DOMAIN file.pieces[k])
      BY <2>1 DEF AsFormerlySaved
    <3>2. b.pieces[k].links = LinksFromJson(file.pieces[k])
      BY DEF FromJson, PieceFromJson
    <3> QED BY <3>1, <3>2 DEF LinksFromJson, Value
  <2> QED BY <1>1, <2>2, <2>3
<1>2. CASE file = ToJson(CaptureSelection(source, with_items))
  <2> DEFINE c == CaptureSelection(source, with_items)
  <2>1. Selection(source) /\ with_items \in BOOLEAN
    BY DEF Types
  <2>2. /\ c.classes \in Seq(Classes) /\ c.item_classes \in Seq(Items)
        /\ DOMAIN c.pieces = 1..Len(source) /\ Len(source) \in Nat
        /\ \A k \in 1..Len(source) :
             /\ c.pieces[k].class_index \in 0..(Len(c.classes) - 1)
             /\ c.pieces[k] \in Piece /\ Normal(c.pieces[k])
    BY <2>1, CaptureFacts
  <2>3. c = [format |-> c.format, classes |-> c.classes, item_classes |-> c.item_classes,
             pieces |-> c.pieces]
        /\ c.format = kFormatVersion /\ c.pieces = [k \in DOMAIN source |-> c.pieces[k]]
    BY DEF CaptureSelection
  <2> HIDE DEF c
  <2>4. c.pieces \in [1..Len(source) -> Piece]
    BY <2>2, <2>3
  <2>5. c.pieces \in Seq(Piece)
    <3>1. Len(source) \in Nat
      BY <2>2
    <3> QED BY <2>4, <3>1
  <2>6. c.classes \in Seq(Paths) /\ c.item_classes \in Seq(Paths)
    BY <2>2, ContentsAssumption
  <2>7. c \in Blueprint
    BY <2>3, <2>5, <2>6 DEF Blueprint, kFormatVersion
  <2>8. b = c
    BY <1>2, <2>2, <2>7, RoundTrip DEF c
  <2>9. Sound(c)
    BY <2>2, <2>7 DEF Sound
  <2>10. source = <<>> => DOMAIN c.pieces = {}
    BY <2>2
  <2> HIDE DEF b
  <2> QED BY <2>8, <2>9, <2>10 DEF b, c
<1> QED BY <1>1, <1>2 DEF FileInv

LEMMA InitInv ==
  ASSUME Init
  PROVE  ContentsInv /\ HeldInv
<1>1. job = NoJob /\ source = <<>> /\ with_items = FALSE /\ file \in {NoFile} \cup OldFiles
  BY DEF Init
<1>2. Selection(source)
  BY <1>1 DEF Selection
<1>3. Selection(world) /\ world \in Seq(Structure)
  BY ContentsAssumption DEF Init, Selection, IsTurret
<1> QED BY <1>1, <1>2, <1>3
        DEF ContentsInv, Types, FileInv, JobInv, CopyInv, StacksInv, HeldInv

\* Everything but the paste itself: the selection, its save, and the place
\* the paste is at.
BaseInv == Types /\ FileInv /\ JobInv

LEMMA SaveBase ==
  ASSUME BaseInv, NEW items \in BOOLEAN, HandleSave(items)
  PROVE  BaseInv'
<1>1. /\ job = NoJob /\ job' = job /\ world' = world /\ source' = world /\ with_items' = items
      /\ file' = ToJson(CaptureSelection(world, items))
  BY DEF HandleSave
<1>2. Types'
  BY <1>1 DEF BaseInv, Types, Selection, IsTurret
<1>3. FileInv'
  BY <1>1 DEF FileInv
<1> QED BY <1>1, <1>2, <1>3 DEF BaseInv, JobInv

LEMMA PasteBase ==
  ASSUME BaseInv, NEW invulnerable \in BOOLEAN, NEW gone \in Missing,
         HandlePaste(invulnerable, gone)
  PROVE  /\ BaseInv'
         /\ job' \in Jobs /\ job' # NoJob /\ job'.next = 1 /\ job'.entry = 1
         /\ job'.step = "piece" /\ job'.stacks = 0 /\ job'.refused = {}
<1>1. /\ job = NoJob /\ file # NoFile
      /\ job' = [bp |-> FromJson(file), invulnerable |-> invulnerable, gone |-> gone,
                 first |-> Len(world), next |-> 1, step |-> "piece", entry |-> 1,
                 stacks |-> 0, devices |-> 0, refused |-> {}]
      /\ world' = world /\ file' = file /\ source' = source /\ with_items' = with_items
  BY DEF HandlePaste
<1> DEFINE b == FromJson(file)
<1>2. Sound(b)
  BY <1>1, LoadedFacts DEF BaseInv
<1>3. world \in Seq(Structure) /\ Len(world) \in Nat
  BY DEF BaseInv, Types
<1>4. b \in Blueprint /\ Len(b.pieces) \in Nat
  <2>1. b \in Blueprint
    BY <1>2 DEF Sound
  <2> HIDE DEF b
  <2>2. b.pieces \in Seq(Piece)
    BY <2>1 DEF Blueprint
  <2> QED BY <2>1, <2>2
<1>5. /\ source # <<>> => b = CaptureSelection(source, with_items)
      /\ source = <<>> =>
           \A k \in DOMAIN b.pieces :
             b.pieces[k].links =
               LET j == file.pieces[k]
               IN  IF "f" \in DOMAIN j /\ j["f"] >= 0 THEN <<j["f"]>> ELSE Value(j, "l", <<>>)
  BY <1>1, LoadedFacts DEF BaseInv
<1> HIDE DEF b
<1>6. /\ job'.bp = b /\ job'.first = Len(world) /\ job'.next = 1 /\ job'.step = "piece"
      /\ job'.entry = 1 /\ job'.stacks = 0 /\ job'.refused = {}
  BY <1>1 DEF b
<1>7. job' \in Jobs
  <2>1. /\ {} \in SUBSET (Nat \X Nat) /\ 0 \in Nat /\ 1 \in Nat
        /\ gone \in SUBSET (Items \cup Classes)
    BY ContentsAssumption
  <2> QED BY <1>1, <1>3, <1>4, <2>1 DEF Jobs, b
<1>8. job' # NoJob
  BY <1>7, ContentsAssumption
<1>9. Types'
  <2>1. Selection(source)'
    BY <1>1 DEF BaseInv, Types, Selection, IsTurret
  <2> QED BY <1>1, <1>3, <1>7, <1>8, <2>1 DEF BaseInv, Types
<1>10. FileInv'
  BY <1>1 DEF BaseInv, FileInv
<1>11. LoadedAsSaved'
  BY <1>1, <1>5, <1>6 DEF LoadedAsSaved
<1>12. JobInv'
  <2>1. Sound(job'.bp)
    BY <1>2, <1>6
  <2>2. Len(world') = job'.first + (job'.next - 1) + 0
    BY <1>1, <1>3, <1>6
  <2>3. job'.next \in 1..(Len(job'.bp.pieces) + 1)
    BY <1>4, <1>6
  <2>4. job'.entry >= 1 /\ job'.step # "contents"
    BY <1>6
  <2> QED BY <1>6, <1>11, <2>1, <2>2, <2>3, <2>4 DEF JobInv, Sound
<1> QED BY <1>6, <1>7, <1>8, <1>9, <1>10, <1>12 DEF BaseInv

\* What a paste works from stays what it was.
LEMMA SameBlueprint ==
  ASSUME BaseInv, job # NoJob, job' \in Jobs, job' # NoJob, job'.bp = job.bp,
         UNCHANGED <<file, source, with_items>>
  PROVE  Sound(job'.bp) /\ LoadedAsSaved' /\ FileInv' /\ Selection(source)'
         /\ (with_items \in BOOLEAN)'
<1>1. Sound(job'.bp)
  BY DEF BaseInv, JobInv
<1>2. LoadedAsSaved'
  <2>1. LoadedAsSaved
    BY DEF BaseInv, JobInv
  <2> QED BY <2>1 DEF LoadedAsSaved
<1>3. FileInv'
  BY DEF BaseInv, FileInv
<1>4. Selection(source)'
  BY DEF BaseInv, Types, Selection, IsTurret
<1> QED BY <1>1, <1>2, <1>3, <1>4 DEF BaseInv, Types

LEMMA PlaceBase ==
  ASSUME BaseInv, PlacePiece
  PROVE  BaseInv'
<1>1. Types /\ JobInv
  BY DEF BaseInv
<1>2. /\ Running /\ job.step = "piece"
      /\ world' \in Seq(Structure) /\ Len(world') = Len(world) + 1
      /\ job' \in Jobs /\ job' # NoJob
      /\ job'.bp = job.bp /\ job'.invulnerable = job.invulnerable /\ job'.first = job.first
      /\ job'.entry = 1
      /\ \/ job'.next = job.next + 1 /\ job'.step = "piece"
         \/ ~job.invulnerable /\ job'.next = job.next /\ job'.step = "contents"
      /\ UNCHANGED <<file, source, with_items>>
  BY <1>1, PlaceFacts
<1>3. /\ job # NoJob /\ job.first \in Nat /\ job.next \in Nat /\ Len(job.bp.pieces) \in Nat
      /\ job.next \in 1..Len(job.bp.pieces) /\ Len(world) \in Nat
  BY <1>1, <1>2, RunningFacts
<1>4. Len(world) = job.first + (job.next - 1) + 0
  BY <1>1, <1>2, <1>3 DEF JobInv
<1>5. Sound(job'.bp) /\ LoadedAsSaved' /\ FileInv' /\ Selection(source)'
      /\ (with_items \in BOOLEAN)'
  BY <1>2, <1>3, SameBlueprint
<1>6. /\ job'.next \in 1..(Len(job'.bp.pieces) + 1) /\ job'.entry >= 1
      /\ job'.step = "piece" => job'.entry = 1
      /\ job'.step = "contents" => ~job'.invulnerable /\ job'.next <= Len(job'.bp.pieces)
      /\ Len(world') = job'.first + (job'.next - 1) + (IF job'.step = "contents" THEN 1 ELSE 0)
  <2>1. CASE job'.next = job.next + 1 /\ job'.step = "piece"
    <3>1. job'.next = job.next + 1 /\ job'.step = "piece" /\ job'.entry = 1
      BY <1>2, <2>1
    <3>2. job.next + 1 \in 1..(Len(job.bp.pieces) + 1)
      BY <1>3
    <3>3. Len(world) + 1 = job.first + (job.next + 1 - 1) + 0
      BY <1>3, <1>4
    <3>4. job'.next \in 1..(Len(job'.bp.pieces) + 1)
      BY <1>2, <3>1, <3>2
    <3>5. Len(world') = job'.first + (job'.next - 1) + 0
      BY <1>2, <1>3, <3>1, <3>3
    <3> QED BY <3>1, <3>4, <3>5
  <2>2. CASE ~job.invulnerable /\ job'.next = job.next /\ job'.step = "contents"
    <3>1. job'.next = job.next /\ job'.step = "contents" /\ job'.entry = 1
      BY <1>2, <2>2
    <3>2. job.next \in 1..(Len(job.bp.pieces) + 1) /\ job.next <= Len(job.bp.pieces)
      BY <1>3
    <3>3. Len(world) + 1 = job.first + (job.next - 1) + 1
      BY <1>3, <1>4
    <3> QED BY <1>2, <2>2, <3>1, <3>2, <3>3
  <2> QED BY <1>2, <2>1, <2>2
<1>7. JobInv'
  BY <1>5, <1>6 DEF JobInv, Sound
<1> QED BY <1>2, <1>5, <1>7 DEF BaseInv, Types

LEMMA EntryBase ==
  ASSUME BaseInv, SkipEntry \/ RestoreEntry
  PROVE  BaseInv'
<1>1. Types /\ JobInv
  BY DEF BaseInv
<1>2. /\ Restoring
      /\ world' \in Seq(Structure) /\ Len(world') = Len(world)
      /\ job' \in Jobs /\ job' # NoJob
      /\ job'.bp = job.bp /\ job'.invulnerable = job.invulnerable /\ job'.first = job.first
      /\ job'.next = job.next /\ job'.step = job.step /\ job'.entry = job.entry + 1
      /\ UNCHANGED <<file, source, with_items>>
  BY <1>1, EntryFacts
<1>3. /\ Running /\ job.step = "contents"
  BY <1>1, <1>2, RestoringFacts
<1>4. /\ job # NoJob /\ job.entry \in Nat
  BY <1>1, <1>3, RunningFacts
<1>5. Sound(job'.bp) /\ LoadedAsSaved' /\ FileInv' /\ Selection(source)'
      /\ (with_items \in BOOLEAN)'
  BY <1>2, <1>4, SameBlueprint
<1>6. /\ job'.next \in 1..(Len(job'.bp.pieces) + 1) /\ job'.entry >= 1
      /\ job'.step = "piece" => job'.entry = 1
      /\ job'.step = "contents" => ~job'.invulnerable /\ job'.next <= Len(job'.bp.pieces)
      /\ Len(world') = job'.first + (job'.next - 1) + (IF job'.step = "contents" THEN 1 ELSE 0)
  BY <1>1, <1>2, <1>3, <1>4 DEF JobInv
<1>7. JobInv'
  BY <1>5, <1>6 DEF JobInv, Sound
<1> QED BY <1>2, <1>5, <1>7 DEF BaseInv, Types

LEMMA DeviceBase ==
  ASSUME BaseInv, RestoreDevice
  PROVE  BaseInv'
<1>1. Types /\ JobInv
  BY DEF BaseInv
<1>2. /\ Restoring
      /\ world' \in Seq(Structure) /\ Len(world') = Len(world)
      /\ job' \in Jobs /\ job' # NoJob
      /\ job'.bp = job.bp /\ job'.invulnerable = job.invulnerable /\ job'.first = job.first
      /\ job'.entry = 1 /\ job'.next = job.next + 1 /\ job'.step = "piece"
      /\ UNCHANGED <<file, source, with_items>>
  BY <1>1, DeviceFacts
<1>3. Running /\ job.step = "contents" /\ At = job.first + job.next
  BY <1>1, <1>2, RestoringFacts
<1>4. /\ job # NoJob /\ job.first \in Nat /\ job.next \in Nat /\ Len(job.bp.pieces) \in Nat
      /\ job.next \in 1..Len(job.bp.pieces) /\ Len(world) \in Nat
  BY <1>1, <1>3, RunningFacts
<1>5. Sound(job'.bp) /\ LoadedAsSaved' /\ FileInv' /\ Selection(source)'
      /\ (with_items \in BOOLEAN)'
  BY <1>2, <1>4, SameBlueprint
<1>6. /\ job'.next \in 1..(Len(job'.bp.pieces) + 1) /\ job'.entry >= 1 /\ job'.step # "contents"
      /\ Len(world') = job'.first + (job'.next - 1) + 0
  <2>1. job.next + 1 \in 1..(Len(job.bp.pieces) + 1)
    BY <1>4
  <2>2. Len(world) = job.first + (job.next + 1 - 1) + 0
    BY <1>3, <1>4 DEF At
  <2>3. job'.next \in 1..(Len(job'.bp.pieces) + 1)
    BY <1>2, <2>1
  <2>4. Len(world') = job'.first + (job'.next - 1) + 0
    BY <1>2, <1>4, <2>2
  <2> QED BY <1>2, <2>3, <2>4
<1>7. JobInv'
  BY <1>2, <1>5, <1>6 DEF JobInv, Sound
<1> QED BY <1>2, <1>5, <1>7 DEF BaseInv, Types

LEMMA FillBase ==
  ASSUME BaseInv, NEW turrets \in SUBSET {k \in DOMAIN world : LooksLikeTurret(world[k])},
         NEW per_stack \in StackArgs, HandleFill(turrets, per_stack)
  PROVE  BaseInv'
<1>1. job' = job /\ UNCHANGED <<file, source, with_items>>
  BY DEF HandleFill
<1>2. /\ DOMAIN world' = DOMAIN world /\ Len(world') = Len(world) /\ world' \in Seq(Structure)
      /\ \A k \in DOMAIN world : world'[k].class = world[k].class /\ world'[k].ranges = world[k].ranges
  BY FillFacts DEF BaseInv
<1>3. Types'
  <2>1. Selection(world) => Selection(world)'
    BY <1>2 DEF Selection, IsTurret
  <2>2. Selection(source)'
    BY <1>1 DEF BaseInv, Types, Selection, IsTurret
  <2> QED BY <1>1, <1>2, <2>1, <2>2 DEF BaseInv, Types
<1>4. FileInv'
  BY <1>1 DEF BaseInv, FileInv
<1>5. JobInv'
  BY <1>1, <1>2 DEF BaseInv, JobInv, LoadedAsSaved
<1> QED BY <1>3, <1>4, <1>5 DEF BaseInv

LEMMA EmptyBase ==
  ASSUME BaseInv, NEW k \in DOMAIN world, Empty(k)
  PROVE  BaseInv'
<1>1. /\ job = NoJob /\ job' = job /\ UNCHANGED <<file, source, with_items>>
      /\ world' = [world EXCEPT ![k].inventory = <<>>]
  BY DEF Empty
<1>2. world \in Seq(Structure) /\ Selection(world)
  BY <1>1 DEF BaseInv, Types
<1> DEFINE s == [world[k] EXCEPT !.inventory = <<>>]
<1>3. s \in Structure /\ s.class = world[k].class /\ s.ranges = world[k].ranges
  <2>1. world[k] \in Structure /\ <<>> \in Seq(Stack)
    BY <1>2
  <2> QED BY <2>1 DEF Structure
<1>4. world' = [world EXCEPT ![k] = s]
  BY <1>1, <1>2
<1> HIDE DEF s
<1>5. world' \in Seq(Structure) /\ DOMAIN world' = DOMAIN world
      /\ \A n \in DOMAIN world : world'[n].class = world[n].class /\ world'[n].ranges = world[n].ranges
  BY <1>2, <1>3, <1>4
<1>6. Selection(world)'
  BY <1>2, <1>5 DEF Selection, IsTurret
<1>7. Selection(source)'
  BY <1>1 DEF BaseInv, Types, Selection, IsTurret
<1> QED BY <1>1, <1>5, <1>6, <1>7 DEF BaseInv, Types, FileInv, JobInv

----------------------------------------------------------------------------
(* Copies and their devices *)

LEMMA StackList ==
  ASSUME NEW inventory \in Seq(Stack)
  PROVE  inventory # NoInventory
BY ContentsAssumption

LEMMA BegunFacts ==
  ASSUME BaseInv, NEW k \in Begun
  PROVE  /\ job # NoJob /\ job \in Jobs /\ job.first \in Nat /\ job.next \in Nat
         /\ k \in Nat /\ k >= 1 /\ k <= job.next
         /\ job.first + k \in DOMAIN world /\ Copy(k) \in Structure
         /\ source # <<>> => k \in DOMAIN source
<1>1. job # NoJob /\ k \in 1..(job.next - 1 + IF job.step = "contents" THEN 1 ELSE 0)
  BY DEF Begun
<1>2. job \in Jobs /\ world \in Seq(Structure) /\ Selection(source) /\ with_items \in BOOLEAN
  BY <1>1 DEF BaseInv, Types
<1>3. job.first \in Nat /\ job.next \in Nat /\ Len(world) \in Nat /\ DOMAIN world = 1..Len(world)
  BY <1>2 DEF Jobs
<1>4. /\ Sound(job.bp) /\ LoadedAsSaved
      /\ job.next \in 1..(Len(job.bp.pieces) + 1)
      /\ job.step = "contents" => job.next <= Len(job.bp.pieces)
      /\ Len(world) = job.first + (job.next - 1) + (IF job.step = "contents" THEN 1 ELSE 0)
  BY <1>1 DEF BaseInv, JobInv
<1>5. Len(job.bp.pieces) \in Nat
  BY <1>4 DEF Sound, Blueprint
<1>6. k \in Nat /\ k >= 1 /\ k <= job.next /\ k <= Len(job.bp.pieces)
      /\ job.first + k \in 1..Len(world)
  <2>1. CASE job.step = "contents"
    BY <1>1, <1>3, <1>4, <1>5, <2>1, SMTT(30)
  <2>2. CASE job.step # "contents"
    BY <1>1, <1>3, <1>4, <1>5, <2>2
  <2> QED BY <2>1, <2>2
<1>7. Copy(k) \in Structure
  BY <1>2, <1>3, <1>6 DEF Copy
<1>8. ASSUME source # <<>> PROVE k \in DOMAIN source
  <2>1. job.bp = CaptureSelection(source, with_items)
    BY <1>1, <1>4, <1>8 DEF LoadedAsSaved
  <2>2. Len(job.bp.pieces) = Len(source) /\ DOMAIN source = 1..Len(source)
    BY <1>2, <2>1, CaptureFacts
  <2> QED BY <1>5, <1>6, <2>2
<1> QED BY <1>1, <1>2, <1>3, <1>6, <1>7, <1>8

\* The piece being pasted is what was captured of its original.
LEMMA PieceFacts ==
  ASSUME BaseInv, Running, source # <<>>
  PROVE  LET s == source[job.next]
         IN  /\ job.next \in DOMAIN source /\ s \in Structure
             /\ IsTurret(s) => Len(s.ranges) = 3 /\ IsContainer(s)
             /\ Len(job.bp.pieces) = Len(source) /\ DOMAIN source = 1..Len(source)
             /\ job.bp.classes[PieceNow.class_index + 1] = s.class
             /\ Len(PieceNow.items) = IF with_items THEN Len(Carried(s)) ELSE 0
             /\ \A n \in 1..Len(PieceNow.items) :
                  EntryFor(PieceNow.items[n], Carried(s)[n], job.bp.item_classes)
             /\ PieceNow.ranges = IF with_items /\ IsTurret(s) THEN s.ranges ELSE <<>>
             /\ PieceNow.activated = IF with_items /\ IsContainer(s) THEN s.active ELSE -1
<1>1. /\ job # NoJob /\ job.next \in 1..Len(job.bp.pieces) /\ PieceNow \in Piece
  BY RunningFacts DEF BaseInv
<1>2. Selection(source) /\ with_items \in BOOLEAN
  BY DEF BaseInv, Types
<1>3. job.bp = CaptureSelection(source, with_items)
  BY <1>1 DEF BaseInv, JobInv, LoadedAsSaved
<1>4. Len(job.bp.pieces) = Len(source) /\ DOMAIN source = 1..Len(source)
  BY <1>2, <1>3, CaptureFacts
<1>5. job.next \in 1..Len(source) /\ job.next \in DOMAIN source
  BY <1>1, <1>4
<1>6. source[job.next] \in Structure /\ (IsTurret(source[job.next]) => Len(source[job.next].ranges) = 3)
  BY <1>2, <1>5 DEF Selection
<1>7. IsTurret(source[job.next]) => IsContainer(source[job.next])
  BY <1>6, ContentsAssumption DEF Structure, IsTurret, IsContainer
<1>8. LET s == source[job.next]
      IN  /\ job.bp.classes[PieceNow.class_index + 1] = s.class
          /\ DOMAIN PieceNow.items = IF with_items THEN DOMAIN Carried(s) ELSE {}
          /\ Len(PieceNow.items) = IF with_items THEN Len(Carried(s)) ELSE 0
          /\ \A n \in DOMAIN PieceNow.items :
               EntryFor(PieceNow.items[n], Carried(s)[n], job.bp.item_classes)
          /\ PieceNow.ranges = IF with_items /\ IsTurret(s) THEN s.ranges ELSE <<>>
          /\ PieceNow.activated = IF with_items /\ IsContainer(s) THEN s.active ELSE -1
  <2> DEFINE s == source[job.next]
             b == CaptureSelection(source, with_items)
             p == b.pieces[job.next]
  <2>1. /\ b.classes[p.class_index + 1] = s.class
        /\ DOMAIN p.items = IF with_items THEN DOMAIN Carried(s) ELSE {}
        /\ Len(p.items) = IF with_items THEN Len(Carried(s)) ELSE 0
        /\ p.ranges = IF with_items /\ IsTurret(s) THEN s.ranges ELSE <<>>
        /\ p.activated = IF with_items /\ IsContainer(s) THEN s.active ELSE -1
    BY <1>2, <1>5, CaptureFacts, SMTT(30)
  <2>2. \A n \in DOMAIN p.items : EntryFor(p.items[n], Carried(s)[n], b.item_classes)
    BY <1>2, <1>5, CaptureFacts
  <2>3. PieceNow = p /\ job.bp = b
    BY <1>3 DEF PieceNow
  <2> HIDE DEF p, b, s
  <2> QED BY <2>1, <2>2, <2>3 DEF s
<1>9. 1..Len(PieceNow.items) = DOMAIN PieceNow.items
  <2>1. PieceNow.items \in Seq(ItemEntry)
    BY <1>1 DEF Piece
  <2> QED BY <2>1
<1> QED BY <1>4, <1>5, <1>6, <1>7, <1>8, <1>9

\* A copy is set as its original was, when contents are pasted, and as the game
\* made it when they are not.
AsSet(c, s, whole) ==
  /\ IsContainer(c) => c.active = IF whole THEN s.active ELSE Bare(c.class).active
  /\ IsTurret(c) => c.ranges = IF whole THEN s.ranges ELSE Bare(c.class).ranges

\* CopyInv, for one copy.
Good(c, s) == c.class \in {s.class, NoClass}

AsMadeByTheGame(c, s) ==
  c.class = s.class /\ c.active = Bare(c.class).active /\ c.ranges = Bare(c.class).ranges

LEMMA CopyInvParts ==
  CopyInv <=>
    (source # <<>> =>
       /\ \A k \in Begun : Good(Copy(k), source[k])
       /\ job # NoJob /\ job.step = "contents" =>
            AsMadeByTheGame(Copy(job.next), source[job.next])
       /\ \A k \in Done : AsSet(Copy(k), source[k], Whole))
BY DEF CopyInv, DevicesAsCaptured, Good, AsMadeByTheGame, AsSet, Whole

LEMMA LikeTheOld ==
  ASSUME NEW c, NEW d, NEW s, NEW whole,
         d.class = c.class, d.active = c.active, d.ranges = c.ranges
  PROVE  /\ Good(c, s) => Good(d, s)
         /\ AsMadeByTheGame(c, s) => AsMadeByTheGame(d, s)
         /\ AsSet(c, s, whole) => AsSet(d, s, whole)
BY DEF Good, AsMadeByTheGame, AsSet, IsContainer, IsTurret

\* The copies' part of the invariant, from what a step makes of each copy.
LEMMA CopiesKept ==
  ASSUME CopyInv, BaseInv, BaseInv', job # NoJob, job' # NoJob,
         job'.first = job.first, job'.invulnerable = job.invulnerable,
         source' = source, with_items' = with_items,
         NEW kept, \A k \in kept : /\ k \in Begun
                                   /\ LET c == world[job.first + k]
                                          d == world'[job.first + k]
                                      IN  /\ d.class = c.class /\ d.active = c.active
                                          /\ d.ranges = c.ranges,
         source # <<>> =>
           \A k \in Begun' \ kept : Good(world'[job.first + k], source[k]),
         source # <<>> =>
           (job'.step = "contents" =>
              \/ AsMadeByTheGame(world'[job.first + job'.next], source[job'.next])
              \/ job.step = "contents" /\ job'.next = job.next /\ job.next \in kept),
         source # <<>> =>
           \A k \in Done' : \/ k \in kept /\ k \in Done
                            \/ AsSet(world'[job.first + k], source[k], Whole)
  PROVE  CopyInv'
<1>1. Whole' = Whole
  BY DEF Whole
<1>2. \A k : Copy(k)' = world'[job.first + k]
  BY DEF Copy
<1>3. \A k : Copy(k) = world[job.first + k]
  BY DEF Copy
<1> SUFFICES ASSUME source # <<>> PROVE CopyInv'
  BY DEF CopyInv
<1>4. /\ \A k \in Begun : Good(Copy(k), source[k])
      /\ job.step = "contents" => AsMadeByTheGame(Copy(job.next), source[job.next])
      /\ \A k \in Done : AsSet(Copy(k), source[k], Whole)
  BY CopyInvParts
<1>5. ASSUME NEW k \in Begun' PROVE Good(world'[job.first + k], source[k])
  <2>1. CASE k \in kept
    <3>1. Good(world[job.first + k], source[k])
      BY <1>3, <1>4, <2>1
    <3> QED BY <2>1, <3>1, LikeTheOld
  <2>2. CASE k \notin kept
    BY <2>2
  <2> QED BY <2>1, <2>2
<1>6. ASSUME job'.step = "contents" PROVE AsMadeByTheGame(world'[job.first + job'.next], source[job'.next])
  <2>1. CASE job.step = "contents" /\ job'.next = job.next /\ job.next \in kept
    <3>1. AsMadeByTheGame(world[job.first + job.next], source[job.next])
      BY <1>3, <1>4, <2>1
    <3>2. AsMadeByTheGame(world'[job.first + job.next], source[job.next])
      BY <2>1, <3>1, LikeTheOld
    <3> QED BY <2>1, <3>2
  <2> QED BY <1>6, <2>1
<1>7. ASSUME NEW k \in Done' PROVE AsSet(world'[job.first + k], source[k], Whole)
  <2>1. CASE k \in kept /\ k \in Done
    <3>1. AsSet(world[job.first + k], source[k], Whole)
      BY <1>3, <1>4, <2>1
    <3> QED BY <2>1, <3>1, LikeTheOld
  <2> QED BY <1>7, <2>1
<1>8. \A k \in Begun' : world'[job'.first + k].class \in {source'[k].class, NoClass}
  BY <1>5 DEF Good
<1>9. job'.step = "contents" =>
        LET c == world'[job'.first + job'.next]
        IN  /\ c.class = source'[job'.next].class
            /\ c.active = Bare(c.class).active /\ c.ranges = Bare(c.class).ranges
  BY <1>6 DEF AsMadeByTheGame
<1>10. \A k \in Done' :
         LET c == world'[job'.first + k]
             whole == with_items' /\ ~job'.invulnerable
         IN  /\ IsContainer(c) => c.active = IF whole THEN source'[k].active ELSE Bare(c.class).active
             /\ IsTurret(c) => c.ranges = IF whole THEN source'[k].ranges ELSE Bare(c.class).ranges
  BY <1>7 DEF AsSet, Whole
<1>11. DevicesAsCaptured'
  BY <1>10, Zenon DEF DevicesAsCaptured, Copy, IsContainer, IsTurret
<1> QED BY <1>8, <1>9, <1>11, Zenon DEF CopyInv, Copy

LEMMA PlaceCopies ==
  ASSUME BaseInv, CopyInv, PlacePiece
  PROVE  CopyInv'
<1> DEFINE c == job.bp.classes[PieceNow.class_index + 1]
           s == world'[Len(world) + 1]
           failed == s.class = NoClass \/ job.invulnerable
<1>0. BaseInv' /\ Types /\ JobInv
  BY PlaceBase DEF BaseInv
<1>1. /\ Running /\ job.step = "piece"
      /\ \A k \in 1..Len(world) : world'[k] = world[k]
      /\ s.class \in {c, NoClass}
      /\ s.active = Bare(s.class).active /\ s.ranges = Bare(s.class).ranges
      /\ s.class = NoClass => ~IsContainer(s) /\ ~IsTurret(s)
      /\ job' # NoJob /\ job'.first = job.first /\ job'.invulnerable = job.invulnerable
      /\ IF failed THEN job'.next = job.next + 1 /\ job'.step = "piece"
         ELSE job'.next = job.next /\ job'.step = "contents"
      /\ source' = source /\ with_items' = with_items
  BY <1>0, PlaceFacts
<1>2. /\ job # NoJob /\ job.first \in Nat /\ job.next \in Nat /\ job.next >= 1
      /\ Len(world) \in Nat /\ DOMAIN world = 1..Len(world)
  BY <1>0, <1>1, RunningFacts
<1>3. Len(world) = job.first + (job.next - 1) + 0
  BY <1>0, <1>1, <1>2 DEF JobInv
<1>4. Len(world) + 1 = job.first + job.next
  BY <1>2, <1>3
<1>5. source # <<>> => c = source[job.next].class
  BY <1>1, PieceFacts
<1>6. world'[job.first + job.next] = s
  BY <1>4
<1> HIDE DEF c, s
<1> DEFINE kept == 1..(job.next - 1)
<1>8. kept = Begun /\ kept = Done
  <2>1. Begun = 1..(job.next - 1 + 0)
    BY <1>1, <1>2 DEF Begun
  <2> QED BY <1>2, <2>1 DEF Done
<1>9. \A k \in kept : /\ job.first + k \in DOMAIN world
                      /\ world'[job.first + k] = world[job.first + k]
  BY <1>1, <1>2, <1>4, SMTT(30)
<1>10. Begun' = 1..job.next
  <2>1. CASE failed
    <3>1. job'.next = job.next + 1 /\ job'.step # "contents"
      BY <1>1, <2>1
    <3>2. Begun' = 1..(job.next + 1 - 1 + 0)
      BY <1>1, <1>2, <3>1 DEF Begun
    <3> QED BY <1>2, <3>2
  <2>2. CASE ~failed
    <3>1. job'.next = job.next /\ job'.step = "contents"
      BY <1>1, <2>2
    <3>2. Begun' = 1..(job.next - 1 + 1)
      BY <1>1, <3>1 DEF Begun
    <3> QED BY <1>2, <3>2
  <2> QED BY <2>1, <2>2
<1> HIDE DEF kept
<1>11. ASSUME source # <<>>, NEW k \in Begun' \ kept PROVE Good(world'[job.first + k], source[k])
  <2>1. k = job.next
    BY <1>2, <1>10, <1>11 DEF kept
  <2> QED BY <1>1, <1>5, <1>6, <1>11, <2>1 DEF Good
<1>12. ASSUME source # <<>>, job'.step = "contents"
       PROVE  AsMadeByTheGame(world'[job.first + job'.next], source[job'.next])
  <2>1. job'.next = job.next /\ s.class # NoClass
    BY <1>1, <1>12
  <2>2. AsMadeByTheGame(s, source[job.next])
    BY <1>1, <1>5, <1>12, <2>1 DEF AsMadeByTheGame
  <2> QED BY <1>6, <2>1, <2>2
<1>13. ASSUME NEW k \in Done'
       PROVE  \/ k \in kept /\ k \in Done
              \/ AsSet(world'[job.first + k], source[k], Whole)
  <2>1. CASE failed
    <3>1. Done' = 1..job.next
      BY <1>1, <1>2, <2>1 DEF Done
    <3>2. k \in kept \/ k = job.next
      BY <1>2, <3>1 DEF kept
    <3>3. AsSet(s, source[job.next], Whole)
      BY <1>1, <2>1 DEF AsSet, Whole
    <3> QED BY <1>6, <1>8, <3>2, <3>3
  <2>2. CASE ~failed
    <3>1. Done' = kept
      BY <1>1, <2>2 DEF Done, kept
    <3> QED BY <1>8, <3>1
  <2> QED BY <2>1, <2>2
<1> QED BY <1>0, <1>1, <1>2, <1>8, <1>9, <1>11, <1>12, <1>13, CopiesKept

LEMMA EntryCopies ==
  ASSUME BaseInv, CopyInv, SkipEntry \/ RestoreEntry
  PROVE  CopyInv'
<1>0. BaseInv' /\ Types /\ JobInv
  BY EntryBase DEF BaseInv
<1>1. /\ Restoring /\ world'[At] = [world[At] EXCEPT !.inventory = world'[At].inventory]
      /\ world'[At].inventory \in Seq(Stack) /\ world[At] \in Structure
      /\ \A k \in DOMAIN world : k # At => world'[k] = world[k]
      /\ job' # NoJob /\ job'.first = job.first /\ job'.invulnerable = job.invulnerable
      /\ job'.next = job.next /\ job'.step = job.step
      /\ source' = source /\ with_items' = with_items
  BY <1>0, EntryFacts
<1>2. Running /\ job.step = "contents" /\ At = job.first + job.next
  BY <1>0, <1>1, RestoringFacts
<1>3. job # NoJob /\ job.next \in Nat /\ job.next >= 1
  BY <1>0, <1>2, RunningFacts
<1>4. Begun' = Begun /\ Done' = Done
  BY <1>1, <1>3 DEF Begun, Done
<1>5. job.next \in Begun
  <2>1. Begun = 1..(job.next - 1 + 1)
    BY <1>2, <1>3 DEF Begun
  <2> QED BY <1>3, <2>1
<1>6. Done \subseteq Begun
  <2>1. Begun = 1..(job.next - 1 + 1) /\ Done = 1..(job.next - 1)
    BY <1>2, <1>3 DEF Begun, Done
  <2> QED BY <1>3, <2>1
<1>7. ASSUME NEW k \in Begun
      PROVE  LET c == world[job.first + k]
                 d == world'[job.first + k]
             IN  d.class = c.class /\ d.active = c.active /\ d.ranges = c.ranges
  <2>1. job.first + k \in DOMAIN world
    BY BegunFacts
  <2>2. CASE job.first + k = At
    <3> DEFINE c == world[At]
               new == world'[At].inventory
               d == world'[At]
    <3>1. d = [c EXCEPT !.inventory = new] /\ c \in Structure /\ new \in Seq(Stack)
      BY <1>1
    <3> HIDE DEF c
    <3>2. d.class = c.class /\ d.active = c.active /\ d.ranges = c.ranges
      <4> HIDE DEF new, d
      <4> QED BY <3>1 DEF Structure
    <3> HIDE DEF new, d
    <3> QED BY <2>2, <3>2 DEF c, d
  <2>3. CASE job.first + k # At
    BY <1>1, <2>1, <2>3
  <2> QED BY <2>2, <2>3
<1> QED BY <1>0, <1>1, <1>2, <1>3, <1>4, <1>5, <1>6, <1>7, CopiesKept

LEMMA DeviceCopies ==
  ASSUME BaseInv, CopyInv, RestoreDevice
  PROVE  CopyInv'
<1> DEFINE s == world[At]
           t == world'[At]
           o == source[job.next]
<1>0. BaseInv' /\ Types /\ JobInv
  BY DeviceBase DEF BaseInv
<1>1. /\ Restoring /\ s \in Structure
      /\ t.class = s.class /\ t.inventory = s.inventory
      /\ t.active = IF DeviceKnown(PieceNow) /\ IsContainer(s)
                    THEN IF PieceNow.activated = 1 THEN 1 ELSE 0 ELSE s.active
      /\ t.ranges = IF Len(PieceNow.ranges) = 3 /\ IsTurret(s) THEN PieceNow.ranges ELSE s.ranges
      /\ \A k \in DOMAIN world : k # At => world'[k] = world[k]
      /\ job' # NoJob /\ job'.first = job.first /\ job'.invulnerable = job.invulnerable
      /\ job'.next = job.next + 1 /\ job'.step = "piece"
      /\ source' = source /\ with_items' = with_items
  BY <1>0, DeviceFacts
<1>2. /\ Running /\ job.step = "contents" /\ At = job.first + job.next /\ ~job.invulnerable
      /\ s = Copy(job.next)
  BY <1>0, <1>1, RestoringFacts
<1>3. job # NoJob /\ job.first \in Nat /\ job.next \in Nat /\ job.next >= 1
  BY <1>0, <1>2, RunningFacts
<1> DEFINE kept == 1..(job.next - 1)
<1>4. Begun = 1..job.next /\ Begun' = 1..job.next /\ Done = kept /\ Done' = 1..job.next
  <2>1. Begun = 1..(job.next - 1 + 1)
    BY <1>2, <1>3 DEF Begun
  <2>2. Begun' = 1..(job.next + 1 - 1 + 0) /\ Done' = 1..(job.next + 1 - 1)
    BY <1>1, <1>3 DEF Begun, Done
  <2> QED BY <1>3, <2>1, <2>2 DEF Done
<1>5. kept \subseteq Begun /\ \A k \in 1..job.next : k \notin kept => k = job.next
  BY <1>3, <1>4
<1>6. ASSUME NEW k \in kept PROVE world'[job.first + k] = world[job.first + k]
  <2>1. job.first + k \in DOMAIN world /\ k \in Nat
    BY <1>5, BegunFacts
  <2>2. job.first + k # At
    BY <1>2, <1>3, <2>1
  <2> QED BY <1>1, <2>1, <2>2
<1>7. ASSUME source # <<>> PROVE Good(t, o) /\ AsSet(t, o, Whole)
  <2>1. Good(s, o) /\ AsMadeByTheGame(s, o)
    <3>1. job.next \in Begun
      BY <1>3, <1>4
    <3> QED BY <1>2, <1>3, <1>7, <3>1, CopyInvParts
  <2>2. /\ o \in Structure /\ (IsTurret(o) => Len(o.ranges) = 3)
        /\ PieceNow.ranges = IF with_items /\ IsTurret(o) THEN o.ranges ELSE <<>>
        /\ PieceNow.activated = IF with_items /\ IsContainer(o) THEN o.active ELSE -1
    BY <1>2, <1>7, PieceFacts
  <2>3. /\ IsContainer(s) <=> IsContainer(o)
        /\ IsTurret(s) <=> IsTurret(o)
        /\ IsContainer(t) <=> IsContainer(o)
        /\ IsTurret(t) <=> IsTurret(o)
    BY <1>1, <2>1 DEF AsMadeByTheGame, IsContainer, IsTurret
  <2>4. Good(t, o)
    BY <1>1, <2>1 DEF Good
  <2>5. o.active \in 0..1
    BY <2>2 DEF Structure
  <2> HIDE DEF s, t, o
  <2>6. IsContainer(t) => t.active = IF Whole THEN o.active ELSE Bare(t.class).active
    <3> SUFFICES ASSUME IsContainer(t)
                 PROVE  t.active = IF Whole THEN o.active ELSE Bare(t.class).active
      OBVIOUS
    <3>1. CASE with_items
      <4>1. PieceNow.activated = o.active /\ Whole
        BY <1>2, <2>2, <2>3, <3>1 DEF Whole
      <4>2. DeviceKnown(PieceNow)
        BY <2>5, <4>1 DEF DeviceKnown
      <4> QED BY <1>1, <2>3, <2>5, <4>1, <4>2
    <3>2. CASE ~with_items
      <4>1. PieceNow.activated = -1 /\ ~Whole
        BY <2>2, <3>2 DEF Whole
      <4>2. ~DeviceKnown(PieceNow)
        BY <4>1 DEF DeviceKnown
      <4> QED BY <1>1, <2>1, <4>1, <4>2 DEF AsMadeByTheGame
    <3> QED BY <3>1, <3>2
  <2>7. IsTurret(t) => t.ranges = IF Whole THEN o.ranges ELSE Bare(t.class).ranges
    <3> SUFFICES ASSUME IsTurret(t)
                 PROVE  t.ranges = IF Whole THEN o.ranges ELSE Bare(t.class).ranges
      OBVIOUS
    <3>1. CASE with_items
      <4>1. PieceNow.ranges = o.ranges /\ Whole
        BY <1>2, <2>2, <2>3, <3>1 DEF Whole
      <4> QED BY <1>1, <2>2, <2>3, <4>1
    <3>2. CASE ~with_items
      <4>1. PieceNow.ranges = <<>> /\ ~Whole
        BY <2>2, <3>2 DEF Whole
      <4> QED BY <1>1, <2>1, <4>1 DEF AsMadeByTheGame
    <3> QED BY <3>1, <3>2
  <2> QED BY <2>4, <2>6, <2>7 DEF AsSet
<1> HIDE DEF kept, t, o
<1>8. source # <<>> => \A k \in Begun' \ kept : Good(world'[job.first + k], source[k])
  BY <1>2, <1>4, <1>5, <1>7 DEF t, o
<1>9. source # <<>> => \A k \in Done' : \/ k \in kept /\ k \in Done
                                       \/ AsSet(world'[job.first + k], source[k], Whole)
  BY <1>2, <1>4, <1>5, <1>7 DEF t, o
<1>10. job'.step # "contents"
  BY <1>1
<1> QED BY <1>0, <1>1, <1>3, <1>5, <1>6, <1>8, <1>9, <1>10, CopiesKept

LEMMA FillCopies ==
  ASSUME BaseInv, CopyInv, NEW turrets \in SUBSET {k \in DOMAIN world : LooksLikeTurret(world[k])},
         NEW per_stack \in StackArgs, HandleFill(turrets, per_stack)
  PROVE  CopyInv'
<1>1. job' = job /\ source' = source /\ with_items' = with_items
  BY DEF HandleFill
<1>2. BaseInv'
  BY FillBase
<1>3. CASE job = NoJob
  <2>1. Begun' = {} /\ Done' = {}
    BY <1>1, <1>3 DEF Begun, Done
  <2> QED BY <1>1, <1>3, <2>1 DEF CopyInv, DevicesAsCaptured
<1>4. CASE job # NoJob
  <2>1. Begun' = Begun /\ Done' = Done /\ job.step = "piece"
    BY <1>1, <1>4 DEF Begun, Done, HandleFill
  <2>2. Begun = Done
    <3>1. job \in Jobs
      BY <1>4 DEF BaseInv, Types
    <3>2. job.next \in Nat
      BY <3>1 DEF Jobs
    <3>3. Begun = 1..(job.next - 1 + 0)
      BY <1>4, <2>1 DEF Begun
    <3> QED BY <1>4, <3>2, <3>3 DEF Done
  <2>3. ASSUME NEW k \in Begun
        PROVE  LET c == world[job.first + k]
                   d == world'[job.first + k]
               IN  d.class = c.class /\ d.active = c.active /\ d.ranges = c.ranges
    <3>1. job.first + k \in DOMAIN world
      BY BegunFacts
    <3> DEFINE n == job.first + k
    <3>2. /\ world'[n].class = world[n].class /\ world'[n].active = world[n].active
          /\ world'[n].ranges = world[n].ranges
      BY <3>1, FillFacts DEF BaseInv
    <3> HIDE DEF n
    <3> QED BY <3>2 DEF n
  <2> QED BY <1>1, <1>2, <1>4, <2>1, <2>2, <2>3, CopiesKept
<1> QED BY <1>3, <1>4

LEMMA CopiesStep ==
  ASSUME BaseInv, CopyInv, [Next]_vars
  PROVE  BaseInv' /\ CopyInv'
<1>1. ASSUME NEW items \in BOOLEAN, HandleSave(items) PROVE BaseInv' /\ CopyInv'
  <2>1. job' = NoJob
    BY <1>1 DEF HandleSave
  <2>2. Begun' = {} /\ Done' = {}
    BY <2>1 DEF Begun, Done
  <2> QED BY <1>1, <2>1, <2>2, SaveBase DEF CopyInv, DevicesAsCaptured
<1>2. ASSUME NEW invulnerable \in BOOLEAN, NEW gone \in Missing,
             HandlePaste(invulnerable, gone)
      PROVE  BaseInv' /\ CopyInv'
  <2>1. BaseInv' /\ job' # NoJob /\ job'.next = 1 /\ job'.step = "piece"
    BY <1>2, PasteBase
  <2>2. Begun' = {} /\ Done' = {}
    <3>1. Begun' = 1..(1 - 1 + 0) /\ Done' = 1..(1 - 1)
      BY <2>1 DEF Begun, Done
    <3> QED BY <3>1
  <2> QED BY <2>1, <2>2 DEF CopyInv, DevicesAsCaptured
<1>3. CASE PlacePiece
  BY <1>3, PlaceBase, PlaceCopies
<1>4. CASE SkipEntry
  BY <1>4, EntryBase, EntryCopies
<1>5. CASE RestoreEntry
  BY <1>5, EntryBase, EntryCopies
<1>6. CASE RestoreDevice
  BY <1>6, DeviceBase, DeviceCopies
<1>7. ASSUME NEW turrets \in SUBSET {k \in DOMAIN world : LooksLikeTurret(world[k])},
             NEW per_stack \in StackArgs, HandleFill(turrets, per_stack)
      PROVE  BaseInv' /\ CopyInv'
  BY <1>7, FillBase, FillCopies
<1>8. ASSUME NEW k \in DOMAIN world, Empty(k) PROVE BaseInv' /\ CopyInv'
  <2>1. job' = NoJob
    BY <1>8 DEF Empty
  <2>2. Begun' = {} /\ Done' = {}
    BY <2>1 DEF Begun, Done
  <2> QED BY <1>8, <2>1, <2>2, EmptyBase DEF CopyInv, DevicesAsCaptured
<1>9. CASE UNCHANGED vars
  BY <1>9 DEF vars, BaseInv, Types, FileInv, JobInv, LoadedAsSaved, CopyInv, DevicesAsCaptured,
              Begun, Done, Copy, Selection, Sound, HasInventory, IsContainer, IsTurret
<1> QED BY <1>1, <1>2, <1>3, <1>4, <1>5, <1>6, <1>7, <1>8, <1>9 DEF Next

----------------------------------------------------------------------------
(* Stacks told *)

\* Of a whole paste, an entry is of a stack of the original, and its class is
\* missing when that stack's is.
LEMMA EntryPath ==
  ASSUME BaseInv, Unrestored, source # <<>>, Whole
  PROVE  LET carried == Carried(source[job.next])
             it == carried[job.entry]
             u == <<job.next, job.entry>>
         IN  /\ job.next \in DOMAIN source /\ source[job.next] \in Structure
             /\ carried \in Seq(Stack) /\ Len(carried) \in Nat
             /\ job.entry \in 1..Len(carried) /\ it \in Stack /\ it.path \in Items
             /\ EntryFor(EntryNow, it, job.bp.item_classes)
             /\ PathOf(EntryNow) = IF it.path \in job.gone THEN NoItem ELSE it.path
             /\ u \in Spots(source) /\ ItemWalk(source)[u] = it.path
<1> DEFINE carried == Carried(source[job.next])
           it == carried[job.entry]
<1>0. Types /\ JobInv /\ Running /\ job.entry <= Len(PieceNow.items)
  BY DEF BaseInv, Unrestored, Restoring
<1>1. job.entry \in Nat /\ job.entry >= 1
  BY <1>0, RunningFacts
<1>2. /\ job.next \in DOMAIN source /\ source[job.next] \in Structure
      /\ Len(PieceNow.items) = Len(carried)
      /\ \A n \in 1..Len(PieceNow.items) :
           EntryFor(PieceNow.items[n], carried[n], job.bp.item_classes)
  BY <1>0, PieceFacts DEF Whole
<1>3. carried \in Seq(Stack) /\ Len(carried) \in Nat /\ DOMAIN carried = 1..Len(carried)
  BY <1>2, CarriedFacts
<1>4. \A n \in 1..Len(carried) : carried[n] \in Stack /\ carried[n].path \in Items
  BY <1>2, CarriedFacts
<1>5. job.entry \in 1..Len(carried)
  BY <1>0, <1>1, <1>2, <1>3
<1>6. it \in Stack /\ it.path \in Items /\ EntryFor(EntryNow, it, job.bp.item_classes)
  BY <1>2, <1>4, <1>5 DEF EntryNow
<1>7. <<job.next, job.entry>> \in Spots(source)
      /\ ItemWalk(source)[<<job.next, job.entry>>] = it.path
  BY <1>0, <1>2, <1>3, <1>5, ItemWalkFacts DEF Types
<1> HIDE DEF it, carried
<1>8. PathOf(EntryNow) = IF it.path \in job.gone THEN NoItem ELSE it.path
  BY <1>6 DEF PathOf, EntryFor
<1> QED BY <1>2, <1>3, <1>5, <1>6, <1>7, <1>8 DEF it, carried

LEMMA SpotTypes ==
  ASSUME Selection(source), NEW v \in Spots(source)
  PROVE  /\ v = <<v[1], v[2]>> /\ v[1] \in DOMAIN source /\ source[v[1]] \in Structure
         /\ v[1] \in Nat /\ v[1] >= 1 /\ v[2] \in Nat /\ v[2] >= 1
         /\ v[2] <= Len(Carried(source[v[1]])) /\ Len(Carried(source[v[1]])) \in Nat
<1>1. v = <<v[1], v[2]>> /\ v[1] \in DOMAIN source /\ v[2] \in DOMAIN Carried(source[v[1]])
  BY SpotsFacts
<1>2. source[v[1]] \in Structure /\ v[1] \in Nat /\ v[1] >= 1
  BY <1>1 DEF Selection
<1>3. v[2] \in 1..Len(Carried(source[v[1]])) /\ Len(Carried(source[v[1]])) \in Nat
  BY <1>1, <1>2, CarriedFacts
<1> QED BY <1>1, <1>2, <1>3

\* The paste has come past it.
Past(v) == v[1] < job.next \/ (v[1] = job.next /\ v[2] < job.entry)

LEMMA PastFacts ==
  ASSUME BaseInv, job # NoJob, NEW v \in Spots(source), Past(v)
  PROVE  v[1] \in Begun /\ job.first + v[1] \in DOMAIN world
<1>1. Selection(source) /\ job \in Jobs
  BY DEF BaseInv, Types
<1>2. job.next \in Nat /\ job.entry \in Nat
  BY <1>1 DEF Jobs
<1>3. v[1] \in Nat /\ v[1] >= 1 /\ v[2] \in Nat /\ v[2] >= 1
  BY <1>1, SpotTypes
<1>4. job.step = "contents" \/ v[1] < job.next
  <2>1. job.step \in {"piece", "contents"} /\ (job.step = "piece" => job.entry = 1)
    BY <1>1 DEF BaseInv, JobInv, Jobs
  <2> QED BY <1>2, <1>3, <2>1 DEF Past
<1>5. v[1] \in Begun
  <2>1. CASE job.step = "contents"
    <3>1. Begun = 1..(job.next - 1 + 1)
      BY <2>1 DEF Begun
    <3> QED BY <1>2, <1>3, <3>1 DEF Past
  <2>2. CASE job.step # "contents"
    <3>1. Begun = 1..(job.next - 1 + 0)
      BY <2>2 DEF Begun
    <3> QED BY <1>2, <1>3, <1>4, <2>2, <3>1
  <2> QED BY <2>1, <2>2
<1> QED BY <1>5, BegunFacts

LEMMA SeenFacts ==
  \A v : v \in Seen <=> /\ v \in Spots(source) /\ Past(v)
                        /\ ItemWalk(source)[v] \notin job.gone
                        /\ HasInventory(world[job.first + v[1]])
BY DEF Seen, Past, Copy

LEMMA StacksKept ==
  ASSUME StacksInv, job # NoJob, source' = source, Whole' => Whole,
         source # <<>> /\ Whole => Seen' = Seen, job'.refused = job.refused, job'.stacks = job.stacks
  PROVE  StacksInv'
BY DEF StacksInv

LEMMA EntrySeen ==
  ASSUME BaseInv, SkipEntry \/ RestoreEntry, source # <<>>, Whole
  PROVE  LET u == <<job.next, job.entry>>
         IN  /\ u \in Spots(source) /\ u \notin Seen
             /\ Seen' = IF PathOf(EntryNow) = NoItem THEN Seen ELSE Seen \cup {u}
<1> DEFINE u == <<job.next, job.entry>>
<1>0. Types /\ JobInv /\ Selection(source)
  BY DEF BaseInv, Types
<1>1. /\ Unrestored /\ Restoring /\ HasInventory(world[At]) /\ HasInventory(world'[At])
      /\ \A k \in DOMAIN world : k # At => world'[k] = world[k]
      /\ job'.first = job.first /\ job'.gone = job.gone
      /\ job'.next = job.next /\ job'.entry = job.entry + 1
      /\ source' = source
  BY <1>0, EntryFacts
<1>2. Running /\ At = job.first + job.next
  BY <1>0, <1>1, RestoringFacts
<1>3. job # NoJob /\ job.next \in Nat /\ job.entry \in Nat
  BY <1>0, <1>2, RunningFacts
<1>4. u \in Spots(source) /\ (PathOf(EntryNow) = NoItem <=> ItemWalk(source)[u] \in job.gone)
  BY <1>1, EntryPath, ContentsAssumption
<1>5. u \notin Seen
  BY <1>3, SeenFacts DEF Past
<1>6. ASSUME NEW v \in Spots(source)
      PROVE  Past(v)' <=> Past(v) \/ v = u
  <2>1. v = <<v[1], v[2]>> /\ v[2] \in Nat
    BY <1>0, SpotTypes
  <2> HIDE DEF u
  <2>2. v = u <=> v[1] = job.next /\ v[2] = job.entry
    BY <2>1 DEF u
  <2> QED BY <1>1, <1>3, <2>1, <2>2 DEF Past
<1>7. ASSUME NEW v \in Spots(source), Past(v)
      PROVE  HasInventory(world'[job.first + v[1]]) <=> HasInventory(world[job.first + v[1]])
  <2>1. job.first + v[1] \in DOMAIN world
    BY <1>3, <1>7, PastFacts
  <2>2. CASE job.first + v[1] = At
    BY <1>1, <2>2
  <2>3. CASE job.first + v[1] # At
    BY <1>1, <2>1, <2>3
  <2> QED BY <2>2, <2>3
<1>8. HasInventory(world'[job.first + u[1]])
  BY <1>1, <1>2
<1> HIDE DEF u
<1>9. \A v : v \in Seen' <=> /\ v \in Spots(source) /\ Past(v)'
                             /\ ItemWalk(source)[v] \notin job.gone
                             /\ HasInventory(world'[job.first + v[1]])
  BY <1>1 DEF Seen, Past, Copy
<1>10. \A v : v \in Seen' <=> v \in Seen \/ (v = u /\ ItemWalk(source)[u] \notin job.gone)
  BY <1>4, <1>6, <1>7, <1>8, <1>9, SeenFacts
<1> QED BY <1>4, <1>5, <1>10 DEF u

LEMMA EntryStacks ==
  ASSUME BaseInv, StacksInv, SkipEntry \/ RestoreEntry
  PROVE  StacksInv'
<1> DEFINE u == <<job.next, job.entry>>
<1>0. Types /\ JobInv /\ Selection(source)
  BY DEF BaseInv, Types
<1>1. /\ Restoring
      /\ job' # NoJob /\ job'.invulnerable = job.invulnerable
      /\ \/ PathOf(EntryNow) = NoItem /\ job'.stacks = job.stacks /\ job'.refused = job.refused
         \/ PathOf(EntryNow) \in Items /\ job'.stacks = job.stacks + 1 /\ job'.refused = job.refused
         \/ PathOf(EntryNow) \in Items /\ job'.stacks = job.stacks /\ job'.refused = job.refused \cup {u}
      /\ source' = source /\ with_items' = with_items
  BY <1>0, EntryFacts
<1>2. job # NoJob /\ job.stacks \in Nat
  BY <1>0, <1>1, RunningFacts DEF Restoring
<1> SUFFICES ASSUME source # <<>>, Whole
             PROVE  job'.refused \subseteq Seen' /\ job'.stacks + Cardinality(job'.refused) = Cardinality(Seen')
  BY <1>1 DEF StacksInv, Whole
<1>4. job.refused \subseteq Seen /\ job.stacks + Cardinality(job.refused) = Cardinality(Seen)
  BY <1>2 DEF StacksInv
<1>5. u \notin Seen /\ Seen' = IF PathOf(EntryNow) = NoItem THEN Seen ELSE Seen \cup {u}
  BY EntrySeen
<1>6. IsFiniteSet(Seen) /\ Cardinality(Seen) \in Nat
  <2>1. Seen \subseteq Spots(source) /\ IsFiniteSet(Spots(source))
    BY <1>0, SpotsFacts DEF Seen
  <2> QED BY <2>1, FS_Subset, FS_CardinalityType
<1>7. IsFiniteSet(job.refused) /\ Cardinality(job.refused) \in Nat /\ u \notin job.refused
  BY <1>4, <1>5, <1>6, FS_Subset, FS_CardinalityType
<1> HIDE DEF u
<1>8. Cardinality(Seen \cup {u}) = Cardinality(Seen) + 1
  BY <1>5, <1>6, FS_AddElement
<1>9. Cardinality(job.refused \cup {u}) = Cardinality(job.refused) + 1
  BY <1>7, FS_AddElement
<1>10. CASE PathOf(EntryNow) = NoItem /\ job'.stacks = job.stacks /\ job'.refused = job.refused
  BY <1>4, <1>5, <1>10
<1>11. CASE PathOf(EntryNow) \in Items /\ job'.stacks = job.stacks + 1 /\ job'.refused = job.refused
  <2>1. Seen' = Seen \cup {u}
    BY <1>5, <1>11, ContentsAssumption
  <2> QED BY <1>2, <1>4, <1>6, <1>7, <1>8, <1>11, <2>1
<1>12. CASE PathOf(EntryNow) \in Items /\ job'.stacks = job.stacks /\ job'.refused = job.refused \cup {u}
  <2>1. Seen' = Seen \cup {u}
    BY <1>5, <1>12, ContentsAssumption
  <2> QED BY <1>2, <1>4, <1>6, <1>7, <1>8, <1>9, <1>12, <2>1
<1> QED BY <1>1, <1>10, <1>11, <1>12 DEF u

\* When the device of a copy is set, all its stacks have been dealt with.
LEMMA AllDealtWith ==
  ASSUME BaseInv, Restoring, ~Unrestored, source # <<>>, Whole, HasInventory(world[At])
  PROVE  job.entry > Len(Carried(source[job.next]))
<1>0. Types /\ JobInv /\ Running
  BY DEF BaseInv, Restoring
<1>1. job.entry \in Nat
  BY <1>0, RunningFacts
<1>2. source[job.next] \in Structure /\ Len(PieceNow.items) = Len(Carried(source[job.next]))
  BY <1>0, PieceFacts DEF Whole
<1>3. Len(Carried(source[job.next])) \in Nat
  BY <1>2, CarriedFacts
<1> QED BY <1>1, <1>2, <1>3 DEF Unrestored

LEMMA DeviceStacks ==
  ASSUME BaseInv, StacksInv, RestoreDevice
  PROVE  StacksInv'
<1>0. Types /\ JobInv /\ Selection(source)
  BY DEF BaseInv, Types
<1>1. /\ Restoring /\ ~Unrestored
      /\ world'[At].inventory = world[At].inventory
      /\ \A k \in DOMAIN world : k # At => world'[k] = world[k]
      /\ job'.invulnerable = job.invulnerable /\ job'.stacks = job.stacks /\ job'.refused = job.refused
      /\ job'.first = job.first /\ job'.gone = job.gone
      /\ job'.entry = 1 /\ job'.next = job.next + 1
      /\ source' = source /\ with_items' = with_items
  BY <1>0, DeviceFacts
<1>2. Running /\ job.step = "contents" /\ At = job.first + job.next /\ At \in DOMAIN world
  BY <1>0, <1>1, RestoringFacts
<1>3. job # NoJob /\ job.next \in Nat /\ job.entry \in Nat
  BY <1>0, <1>2, RunningFacts
<1>4. ASSUME source # <<>>, Whole PROVE Seen' = Seen
  <2>1. \A v : v \in Seen' <=> /\ v \in Spots(source) /\ Past(v)'
                               /\ ItemWalk(source)[v] \notin job.gone
                               /\ HasInventory(world'[job.first + v[1]])
    BY <1>1 DEF Seen, Past, Copy
  <2>2. ASSUME NEW v \in Spots(source)
        PROVE  (Past(v)' /\ HasInventory(world'[job.first + v[1]]))
                 <=> (Past(v) /\ HasInventory(world[job.first + v[1]]))
    <3>1. v[1] \in Nat /\ v[2] \in Nat /\ v[2] >= 1 /\ v[2] <= Len(Carried(source[v[1]]))
          /\ Len(Carried(source[v[1]])) \in Nat
      BY <1>0, SpotTypes
    <3>2. Past(v)' <=> v[1] < job.next \/ v[1] = job.next
      BY <1>1, <1>3, <3>1 DEF Past
    <3>3. CASE v[1] = job.next
      <4>1. /\ job.first + v[1] = At
            /\ HasInventory(world'[At]) <=> HasInventory(world[At])
        BY <1>1, <1>2, <3>3 DEF HasInventory
      <4>2. HasInventory(world[At]) => job.entry > Len(Carried(source[job.next]))
        BY <1>1, <1>4, AllDealtWith
      <4>3. HasInventory(world[At]) => Past(v)
        BY <1>3, <3>1, <3>3, <4>2 DEF Past
      <4> QED BY <3>2, <3>3, <4>1, <4>3
    <3>4. CASE v[1] < job.next
      <4>1. Past(v) /\ job.first + v[1] \in DOMAIN world
        BY <1>3, <3>4, PastFacts DEF Past
      <4>2. job.first + v[1] # At
        <5>1. job.first \in Nat
          BY <1>0, <1>2, RunningFacts
        <5> QED BY <1>2, <1>3, <3>1, <3>4, <5>1
      <4> QED BY <1>1, <3>2, <3>4, <4>1, <4>2
    <3>5. CASE ~(v[1] = job.next \/ v[1] < job.next)
      BY <3>2, <3>5 DEF Past
    <3> QED BY <3>3, <3>4, <3>5
  <2>3. \A v : v \in Seen' <=> v \in Seen
    BY <2>1, <2>2, SeenFacts
  <2> QED BY <2>3
<1>5. Whole' = Whole
  BY <1>1 DEF Whole
<1> QED BY <1>1, <1>3, <1>4, <1>5, StacksKept

LEMMA PlaceStacks ==
  ASSUME BaseInv, StacksInv, PlacePiece
  PROVE  StacksInv'
<1> DEFINE s == world'[Len(world) + 1]
<1>0. Types /\ JobInv /\ Selection(source)
  BY DEF BaseInv, Types
<1>1. /\ Running /\ job.step = "piece"
      /\ \A k \in 1..Len(world) : world'[k] = world[k]
      /\ s.class = NoClass => ~HasInventory(s)
      /\ job'.invulnerable = job.invulnerable /\ job'.stacks = job.stacks /\ job'.refused = job.refused
      /\ job'.first = job.first /\ job'.gone = job.gone /\ job'.entry = 1
      /\ IF s.class = NoClass \/ job.invulnerable THEN job'.next = job.next + 1
         ELSE job'.next = job.next
      /\ source' = source /\ with_items' = with_items
  BY <1>0, PlaceFacts
<1>2. /\ job # NoJob /\ job.entry = 1 /\ job.first \in Nat /\ job.next \in Nat
      /\ Len(world) \in Nat /\ DOMAIN world = 1..Len(world)
  BY <1>0, <1>1, RunningFacts DEF JobInv
<1>3. Len(world) + 1 = job.first + job.next
  <2>1. Len(world) = job.first + (job.next - 1) + 0
    BY <1>0, <1>1, <1>2 DEF JobInv
  <2> QED BY <1>2, <2>1
<1>4. ASSUME Whole PROVE Seen' = Seen
  <2>1. \A v : v \in Seen' <=> /\ v \in Spots(source) /\ Past(v)'
                               /\ ItemWalk(source)[v] \notin job.gone
                               /\ HasInventory(world'[job.first + v[1]])
    BY <1>1 DEF Seen, Past, Copy
  <2>2. ASSUME NEW v \in Spots(source)
        PROVE  (Past(v)' /\ HasInventory(world'[job.first + v[1]]))
                 <=> (Past(v) /\ HasInventory(world[job.first + v[1]]))
    <3>1. v[1] \in Nat /\ v[2] \in Nat /\ v[2] >= 1
      BY <1>0, SpotTypes
    <3>2. Past(v) <=> v[1] < job.next
      BY <1>2, <3>1 DEF Past
    <3>3. CASE v[1] < job.next
      <4>1. Past(v)'
        BY <1>1, <1>2, <3>1, <3>3 DEF Past
      <4>2. job.first + v[1] \in DOMAIN world
        BY <1>2, <3>2, <3>3, PastFacts
      <4> QED BY <1>1, <1>2, <3>2, <3>3, <4>1, <4>2
    <3>4. CASE v[1] = job.next
      <4>1. CASE s.class = NoClass
        <5>1. world'[job.first + v[1]] = s
          BY <1>3, <3>4
        <5> QED BY <1>1, <1>2, <3>2, <3>4, <4>1, <5>1
      <4>2. CASE s.class # NoClass
        <5>1. job'.next = job.next /\ job'.entry = 1
          BY <1>1, <1>4, <4>2 DEF Whole
        <5>2. ~(Past(v)')
          BY <1>2, <3>1, <3>4, <5>1 DEF Past
        <5> QED BY <1>2, <3>2, <3>4, <5>2
      <4> QED BY <4>1, <4>2
    <3>5. CASE v[1] > job.next
      <4>1. ~(Past(v)')
        BY <1>1, <1>2, <3>1, <3>5 DEF Past
      <4> QED BY <1>2, <3>1, <3>2, <3>5, <4>1
    <3> QED BY <1>2, <3>1, <3>3, <3>4, <3>5
  <2> HIDE DEF s
  <2>3. \A v : v \in Seen' <=> v \in Seen
    BY <2>1, <2>2, SeenFacts
  <2> QED BY <2>3
<1>5. Whole' = Whole
  BY <1>1 DEF Whole
<1> QED BY <1>1, <1>2, <1>4, <1>5, StacksKept

LEMMA FillStacks ==
  ASSUME BaseInv, StacksInv,
         NEW turrets \in SUBSET {k \in DOMAIN world : LooksLikeTurret(world[k])},
         NEW per_stack \in StackArgs, HandleFill(turrets, per_stack)
  PROVE  StacksInv'
<1>1. job' = job /\ source' = source /\ with_items' = with_items
  BY DEF HandleFill
<1>2. CASE job = NoJob
  BY <1>1, <1>2 DEF StacksInv
<1>3. CASE job # NoJob
  <2>1. \A k \in DOMAIN world : HasInventory(world'[k]) <=> HasInventory(world[k])
    BY FillFacts DEF BaseInv
  <2>2. \A v : v \in Seen' <=> /\ v \in Spots(source) /\ Past(v)
                               /\ ItemWalk(source)[v] \notin job.gone
                               /\ HasInventory(world'[job.first + v[1]])
    BY <1>1 DEF Seen, Past, Copy
  <2>3. \A v \in Spots(source) : Past(v) => job.first + v[1] \in DOMAIN world
    BY <1>3, PastFacts
  <2>4. \A v : v \in Seen' <=> v \in Seen
    BY <2>1, <2>2, <2>3, SeenFacts
  <2>5. Seen' = Seen /\ Whole' = Whole
    BY <1>1, <2>4 DEF Whole
  <2> QED BY <1>1, <1>3, <2>5, StacksKept
<1> QED BY <1>2, <1>3

LEMMA PasteStacks ==
  ASSUME BaseInv, NEW invulnerable \in BOOLEAN, NEW gone \in Missing,
         HandlePaste(invulnerable, gone)
  PROVE  StacksInv'
<1>1. job'.next = 1 /\ job'.entry = 1 /\ job'.stacks = 0 /\ job'.refused = {}
  BY PasteBase
<1>2. source' = source /\ Selection(source)
  BY DEF HandlePaste, BaseInv, Types
<1>3. Seen' = {}
  <2> SUFFICES ASSUME NEW v \in Spots(source), v[1] < 1 \/ (v[1] = 1 /\ v[2] < 1) PROVE FALSE
    BY <1>1, <1>2 DEF Seen
  <2>1. v[1] \in DOMAIN source /\ v[2] \in DOMAIN Carried(source[v[1]]) /\ v = <<v[1], v[2]>>
    BY <1>2, SpotsFacts
  <2>2. source[v[1]] \in Structure /\ v[1] \in Nat /\ v[1] >= 1
    BY <1>2, <2>1 DEF Selection
  <2>3. v[2] \in Nat /\ v[2] >= 1
    BY <2>1, <2>2, CarriedFacts
  <2> QED BY <2>2, <2>3
<1>4. Cardinality({}) = 0
  BY FS_EmptySet
<1> QED BY <1>1, <1>3, <1>4 DEF StacksInv

LEMMA ContentsStep ==
  ASSUME ContentsInv, [Next]_vars
  PROVE  ContentsInv'
<1>0. BaseInv /\ CopyInv /\ StacksInv
  BY DEF ContentsInv, BaseInv
<1>1. BaseInv' /\ CopyInv'
  BY <1>0, CopiesStep
<1>2. ASSUME NEW items \in BOOLEAN, HandleSave(items) PROVE StacksInv'
  BY <1>2 DEF HandleSave, StacksInv
<1>3. ASSUME NEW invulnerable \in BOOLEAN, NEW gone \in Missing,
             HandlePaste(invulnerable, gone)
      PROVE  StacksInv'
  BY <1>0, <1>3, PasteStacks
<1>4. ASSUME PlacePiece PROVE StacksInv'
  BY <1>0, <1>4, PlaceStacks
<1>5. ASSUME SkipEntry PROVE StacksInv'
  BY <1>0, <1>5, EntryStacks
<1>6. ASSUME RestoreEntry PROVE StacksInv'
  BY <1>0, <1>6, EntryStacks
<1>7. ASSUME RestoreDevice PROVE StacksInv'
  BY <1>0, <1>7, DeviceStacks
<1>8. ASSUME NEW turrets \in SUBSET {k \in DOMAIN world : LooksLikeTurret(world[k])},
             NEW per_stack \in StackArgs, HandleFill(turrets, per_stack)
      PROVE  StacksInv'
  BY <1>0, <1>8, FillStacks
<1>9. ASSUME NEW k \in DOMAIN world, Empty(k) PROVE StacksInv'
  BY <1>0, <1>9 DEF Empty, StacksInv
<1>10. ASSUME UNCHANGED vars PROVE StacksInv'
  BY <1>0, <1>10 DEF vars, StacksInv, Whole, Seen, Copy
<1>11. StacksInv'
  BY <1>2, <1>3, <1>4, <1>5, <1>6, <1>7, <1>8, <1>9, <1>10 DEF Next
<1> QED BY <1>1, <1>11 DEF ContentsInv, BaseInv

LEMMA ContentsInvariant ==
  Spec => []ContentsInv
<1>1. Init => ContentsInv
  BY InitInv
<1>2. ContentsInv /\ [Next]_vars => ContentsInv'
  BY ContentsStep
<1> QED BY <1>1, <1>2, PTL DEF Spec

\* What a paste works from is what was captured, whatever the selection holds,
\* and a save of an earlier format is loaded with its links (Model.h:80-173).
THEOREM AlwaysLoadedAsSaved ==
  Spec => []LoadedAsSaved
<1>1. ContentsInv => LoadedAsSaved
  BY DEF ContentsInv, JobInv, LoadedAsSaved
<1> QED BY <1>1, ContentsInvariant, PTL

\* A device of the copy is set as its original was when it was saved, whatever
\* its piece holds and whatever is filled while the paste goes on
\* (Capture.cpp:324-381, Paste.cpp:381-393).
THEOREM DevicesAlwaysAsCaptured ==
  Spec => []DevicesAsCaptured
<1>1. ContentsInv => DevicesAsCaptured
  BY DEF ContentsInv, CopyInv, DevicesAsCaptured
<1> QED BY <1>1, ContentsInvariant, PTL

LEMMA SameLength ==
  ASSUME BaseInv, job # NoJob, source # <<>>
  PROVE  Len(job.bp.pieces) = Len(source) /\ DOMAIN source = 1..Len(source)
<1>1. Selection(source) /\ with_items \in BOOLEAN
  BY DEF BaseInv, Types
<1>2. job.bp = CaptureSelection(source, with_items)
  BY DEF BaseInv, JobInv, LoadedAsSaved
<1> QED BY <1>1, <1>2, CaptureFacts

\* When a paste is through, every stack that can be restored has been counted or
\* was refused by the game (Paste.cpp:268-273), whichever pieces failed
\* (Paste.cpp:298, 315), came without an inventory (346) or were filled since.
THEOREM StacksAlwaysAsTold ==
  Spec => []StacksAsTold
<1>1. ASSUME ContentsInv PROVE StacksAsTold
  <2> SUFFICES ASSUME job # NoJob, ~Running, source # <<>>, with_items, ~job.invulnerable
               PROVE  job.stacks + Cardinality(job.refused) = Cardinality(Restorable)
    BY DEF StacksAsTold
  <2>0. BaseInv
    BY <1>1 DEF ContentsInv, BaseInv
  <2>1. job \in Jobs /\ Selection(source) /\ with_items \in BOOLEAN
    BY <2>0 DEF BaseInv, Types
  <2>2. job.next > Len(job.bp.pieces)
    <3>1. Sound(job.bp)
      BY <2>0 DEF BaseInv, JobInv
    <3>2. job.next \in Nat /\ Len(job.bp.pieces) \in Nat
      BY <2>1, <3>1 DEF Jobs, Sound, Blueprint
    <3> QED BY <3>2 DEF Running
  <2>4. Len(job.bp.pieces) = Len(source) /\ DOMAIN source = 1..Len(source)
    BY <2>0, SameLength
  <2>5. \A v \in Spots(source) : v[1] < job.next
    <3> TAKE v \in Spots(source)
    <3>1. v[1] \in DOMAIN source
      BY <2>1, SpotsFacts
    <3>2. job.next \in Nat
      BY <2>1 DEF Jobs
    <3> QED BY <2>2, <2>4, <3>1, <3>2
  <2>6. Seen = Restorable
    BY <2>5 DEF Seen, Restorable
  <2> QED BY <1>1, <2>6 DEF ContentsInv, StacksInv, Whole
<1> QED BY <1>1, ContentsInvariant, PTL

\* Fill puts ammunition of its own kind into turrets, and never more than there
\* is room for, in the midst of a paste too (Fill.cpp:17-18, Main.cpp:276-277),
\* provided that only turrets have a path that looks like a turret's.
THEOREM FillAlwaysFits ==
  ASSUME \A c \in Classes : Kind[c].named => Kind[c].turret
  PROVE  Spec => FillFits
<1>1. ASSUME ContentsInv, [Next]_vars, reply' # NoReply,
             NEW k \in DOMAIN world, world'[k] # world[k]
      PROVE  LET s == world[k] new == world'[k].inventory
             IN  /\ IsTurret(s)
                 /\ Len(new) <= Kind[s.class].slots
                 /\ \A n \in DOMAIN new :
                      IF n <= Len(s.inventory) THEN new[n] = s.inventory[n]
                      ELSE new[n].path = Kind[s.class].template
  <2>1. Types
    BY <1>1 DEF ContentsInv
  <2>2. \E turrets \in SUBSET {i \in DOMAIN world : LooksLikeTurret(world[i])},
           per_stack \in StackArgs : HandleFill(turrets, per_stack)
    BY <1>1 DEF Next, vars, HandleSave, HandlePaste, PlacePiece, SkipEntry, RestoreEntry,
                RestoreDevice, Empty
  <2>3. PICK turrets \in SUBSET {i \in DOMAIN world : LooksLikeTurret(world[i])},
             per_stack \in StackArgs : HandleFill(turrets, per_stack)
    BY <2>2
  <2>4. k \in turrets /\ \E ammo \in Templates(world[k]) : Topped(world[k], ammo, world'[k])
    BY <1>1, <2>1, <2>3, FillFacts
  <2>5. world[k] \in Structure
    BY <2>1 DEF Types
  <2>6. IsTurret(world[k])
    BY <2>4, <2>5 DEF LooksLikeTurret, IsTurret, Structure
  <2>7. Topped(world[k], Kind[world[k].class].template, world'[k])
    BY <2>4, <2>6 DEF Templates
  <2> DEFINE s == world[k]
             new == world'[k].inventory
  <2>8. /\ new \in Seq(Stack) /\ Len(new) <= Kind[s.class].slots
        /\ \A n \in 1..Len(new) : IF n <= Len(s.inventory) THEN new[n] = s.inventory[n]
                                  ELSE new[n].path = Kind[s.class].template
    BY <2>7 DEF Topped
  <2>9. DOMAIN new = 1..Len(new)
    BY <2>8
  <2> HIDE DEF new, s
  <2> QED BY <2>6, <2>8, <2>9 DEF new, s
<1>2. ContentsInv /\ [Next]_vars =>
        [reply' # NoReply =>
           \A k \in DOMAIN world : world'[k] # world[k] =>
             LET s == world[k] new == world'[k].inventory
             IN  /\ IsTurret(s)
                 /\ Len(new) <= Kind[s.class].slots
                 /\ \A n \in DOMAIN new :
                      IF n <= Len(s.inventory) THEN new[n] = s.inventory[n]
                      ELSE new[n].path = Kind[s.class].template]_vars
  BY <1>1
<1> QED BY <1>2, ContentsInvariant, PTL DEF Spec, FillFits

----------------------------------------------------------------------------
(* What copies hold *)

LEMMA PrefixGrows ==
  ASSUME NEW s \in Seq(Stack), NEW t \in Seq(Stack), NEW more \in Seq(Stack), IsPrefix(s, t),
         Len(t) <= Len(more), \A n \in 1..Len(t) : more[n] = t[n]
  PROVE  IsPrefix(s, more)
<1>1. Len(s) <= Len(t) /\ SubSeq(s, 1, Len(s)) = SubSeq(t, 1, Len(s))
  BY DEF IsPrefix
<1>2. Len(s) \in Nat /\ Len(t) \in Nat /\ Len(more) \in Nat
  OBVIOUS
<1>3. \A n \in 1..Len(s) : more[n] = t[n]
  BY <1>1, <1>2
<1>4. SubSeq(more, 1, Len(s)) = SubSeq(t, 1, Len(s))
  BY <1>1, <1>2, <1>3
<1> QED BY <1>1, <1>2, <1>4 DEF IsPrefix

\* The stack that is made for an entry is the one that was captured.
LEMMA StackRestored ==
  ASSUME NEW e \in ItemEntry, NEW it \in Stack, it.path \in Items, NEW dictionary,
         EntryFor(e, it, dictionary)
  PROVE  Restored([NewItem(it.path, e.quantity) EXCEPT !.blueprint = e.blueprint], e) = it
<1>1. /\ e.quantity = it.quantity /\ e.durability = it.durability
      /\ e.blueprint = it.blueprint /\ e.stats = it.stats
  BY DEF EntryFor
<1>2. e.quantity \in Int /\ e.blueprint \in BOOLEAN /\ it.stats \in [1..StatSlots -> Int]
  BY DEF ItemEntry, Stack
<1> DEFINE made == [NewItem(it.path, e.quantity) EXCEPT !.blueprint = e.blueprint]
           after == Restored(made, e)
<1>3. made \in Stack /\ made.path = it.path /\ made.blueprint = e.blueprint
  BY <1>2, MadeFacts
<1> HIDE DEF made
<1>4. /\ after \in Stack /\ after.path = made.path /\ after.blueprint = made.blueprint
      /\ after.quantity = e.quantity /\ after.durability = e.durability
      /\ after.stats = e.stats
  BY <1>1, <1>2, <1>3, RestoredFacts
<1> HIDE DEF after
<1>5. after = it
  BY <1>1, <1>3, <1>4 DEF Stack
<1> QED BY <1>5 DEF after, made

\* What a copy should hold is a list of stacks, and all of it has come through
\* when the paste is past its last one.
LEMMA ExpectedFacts ==
  ASSUME Types, NEW k \in DOMAIN source
  PROVE  /\ Expected(k) \in Seq(Stack)
         /\ Expected(k) = Through(k, Len(Carried(source[k])))
<1> DEFINE carried == Carried(source[k])
           N == {n \in DOMAIN carried : /\ carried[n].path \notin job.gone
                                         /\ <<k, n>> \notin job.refused}
<1>1. source[k] \in Structure
  BY DEF Types, Selection
<1>2. carried \in Seq(Stack) /\ Len(carried) \in Nat /\ DOMAIN carried = 1..Len(carried)
      /\ \A n \in 1..Len(carried) : carried[n] \in Stack
  BY <1>1, CarriedFacts
<1>3. N \subseteq Int /\ IsFiniteSet(N) /\ \A n \in N : carried[n] \in Stack
  <2>1. N \subseteq 1..Len(carried) /\ IsFiniteSet(1..Len(carried))
    BY <1>2, UpTo
  <2> HIDE DEF N, carried
  <2>2. N \subseteq Int
    BY <1>2, <2>1
  <2> QED BY <1>2, <2>1, <2>2, FS_Subset
<1>4. Expected(k) = Picked(carried, N)
  BY DEF Expected
<1>5. N = Kept(k, Len(carried))
  BY <1>2 DEF Kept
<1>6. Expected(k) = Through(k, Len(carried))
  BY <1>4, <1>5 DEF Through
<1> HIDE DEF N
<1>7. Picked(carried, N) \in Seq(Stack)
  BY <1>3, PickedType
<1> QED BY <1>4, <1>6, <1>7

\* The copies done with, from what a step makes of each.
LEMMA DoneKept ==
  ASSUME ContentsInv, HeldInv, job # NoJob, source # <<>>, Whole, job'.first = job.first,
         source' = source, job'.gone = job.gone,
         \A k, n : k < job.next => (<<k, n>> \in job'.refused <=> <<k, n>> \in job.refused),
         NEW k \in Done,
         LET c == world[job.first + k]
             d == world'[job.first + k]
         IN  \/ d = c
             \/ /\ HasInventory(c) /\ d.inventory \in Seq(Stack)
                /\ Len(c.inventory) <= Len(d.inventory)
                /\ \A n \in 1..Len(c.inventory) : d.inventory[n] = c.inventory[n]
  PROVE  HasInventory(Copy(k)') => IsPrefix(Expected(k)', Copy(k)'.inventory)
<1> DEFINE c == world[job.first + k]
           d == world'[job.first + k]
<1>1. Copy(k) = c /\ Copy(k)' = d
  BY DEF Copy
<1>2. BaseInv /\ Types /\ CopyInv
  BY DEF ContentsInv, BaseInv
<1>3. k \in Begun /\ k < job.next
  <2>1. job \in Jobs
    BY <1>2 DEF Types
  <2>2. job.next \in Nat
    BY <2>1 DEF Jobs
  <2> QED BY <2>2 DEF Begun, Done
<1>4. k \in DOMAIN source /\ c \in Structure
  BY <1>1, <1>2, <1>3, BegunFacts
<1>5. Expected(k)' = Expected(k)
  <2>1. \A n : <<k, n>> \in job'.refused <=> <<k, n>> \in job.refused
    BY <1>3
  <2> QED BY <2>1 DEF Expected
<1>6. Expected(k) \in Seq(Stack)
  BY <1>2, <1>4, ExpectedFacts
<1>7. HasInventory(c) => IsPrefix(Expected(k), c.inventory)
  BY <1>1 DEF HeldInv
<1>8. ASSUME HasInventory(d) PROVE IsPrefix(Expected(k), d.inventory)
  <2>1. CASE d = c
    BY <1>7, <1>8, <2>1
  <2>2. CASE d # c
    <3>1. /\ HasInventory(c) /\ d.inventory \in Seq(Stack)
          /\ Len(c.inventory) <= Len(d.inventory)
          /\ \A n \in 1..Len(c.inventory) : d.inventory[n] = c.inventory[n]
      BY <2>2
    <3>2. IsPrefix(Expected(k), c.inventory)
      BY <1>7, <3>1
    <3>3. c.inventory \in Seq(Stack)
      BY <1>4, <3>1 DEF HasInventory, Structure
    <3> HIDE DEF c, d
    <3> QED BY <1>6, <3>1, <3>2, <3>3, PrefixGrows
  <2> QED BY <2>1, <2>2
<1> HIDE DEF c, d
<1> QED BY <1>1, <1>5, <1>8

\* The part of the invariant on what copies hold, from its two halves.
LEMMA HeldFrom ==
  ASSUME job # NoJob, source' = source, with_items' = with_items,
         job'.invulnerable = job.invulnerable,
         source # <<>> /\ Whole =>
           /\ \A k \in Done' : HasInventory(Copy(k)') => IsPrefix(Expected(k)', Copy(k)'.inventory)
           /\ LET d == world'[job'.first + job'.next]
                  carried == Carried(source[job'.next])
              IN  job'.step = "contents" /\ HasInventory(d) =>
                    /\ job'.entry <= Len(carried) + 1
                    /\ d.inventory = Picked(carried, {n \in 1..(job'.entry - 1) :
                                                        /\ carried[n].path \notin job'.gone
                                                        /\ <<job'.next, n>> \notin job'.refused})
  PROVE  HeldInv'
<1>1. Whole' = Whole
  BY DEF Whole
<1> QED BY <1>1 DEF HeldInv, Copy, Through, Kept

LEMMA PlaceHeld ==
  ASSUME ContentsInv, HeldInv, PlacePiece
  PROVE  HeldInv'
<1> DEFINE s == world'[Len(world) + 1]
<1>0. Types /\ JobInv /\ BaseInv
  BY DEF ContentsInv, BaseInv
<1>1. /\ Running /\ job.step = "piece"
      /\ \A k \in 1..Len(world) : world'[k] = world[k]
      /\ HasInventory(s) => s.inventory = <<>>
      /\ s.class = NoClass => ~HasInventory(s)
      /\ job'.first = job.first /\ job'.invulnerable = job.invulnerable /\ job'.gone = job.gone
      /\ job' # NoJob /\ job'.refused = job.refused /\ job'.entry = 1
      /\ IF s.class = NoClass \/ job.invulnerable
         THEN job'.next = job.next + 1 /\ job'.step = "piece"
         ELSE job'.next = job.next /\ job'.step = "contents"
      /\ source' = source /\ with_items' = with_items
  BY <1>0, PlaceFacts
<1>2. /\ job # NoJob /\ job.first \in Nat /\ job.next \in Nat /\ job.next >= 1
      /\ Len(world) \in Nat
  BY <1>0, <1>1, RunningFacts
<1>3. Len(world) = job.first + (job.next - 1) + 0
  BY <1>0, <1>1, <1>2 DEF JobInv
<1>4. Len(world) + 1 = job.first + job.next
  BY <1>2, <1>3
<1> HIDE DEF s
<1>5. world'[job.first + job.next] = s
  BY <1>4 DEF s
<1>6. ASSUME source # <<>>, Whole, NEW k \in Done'
      PROVE  HasInventory(Copy(k)') => IsPrefix(Expected(k)', Copy(k)'.inventory)
  <2>1. Done = 1..(job.next - 1) /\ Done' = 1..(job'.next - 1)
    BY <1>1, <1>2 DEF Done
  <2>2. k \in Done \/ (k = job.next /\ job'.next = job.next + 1)
    BY <1>1, <1>2, <1>6, <2>1
  <2>3. CASE k \in Done
    <3>1. job.first + k \in 1..Len(world)
      BY <1>2, <1>4, <2>1, <2>3
    <3>2. world'[job.first + k] = world[job.first + k]
      BY <1>1, <3>1
    <3> QED BY <1>1, <1>2, <1>6, <2>3, <3>2, DoneKept
  <2>4. CASE k = job.next /\ job'.next = job.next + 1
    <3>1. s.class = NoClass
      BY <1>1, <1>2, <1>6, <2>4 DEF Whole
    <3>2. Copy(k)' = s
      BY <1>1, <1>5, <2>4 DEF Copy
    <3> QED BY <1>1, <3>1, <3>2
  <2> QED BY <2>2, <2>3, <2>4
<1>7. ASSUME source # <<>>, Whole, job'.step = "contents",
             HasInventory(world'[job'.first + job'.next])
      PROVE  LET carried == Carried(source[job'.next])
             IN  /\ job'.entry <= Len(carried) + 1
                 /\ world'[job'.first + job'.next].inventory
                      = Picked(carried, {n \in 1..(job'.entry - 1) :
                                           /\ carried[n].path \notin job'.gone
                                           /\ <<job'.next, n>> \notin job'.refused})
  <2>1. job'.next = job.next
    BY <1>1, <1>7
  <2>2. world'[job'.first + job'.next].inventory = <<>>
    BY <1>1, <1>5, <1>7, <2>1
  <2>3. job.next \in DOMAIN source /\ source[job.next] \in Structure
    BY <1>0, <1>1, <1>7, PieceFacts
  <2>4. Len(Carried(source[job.next])) \in Nat
    BY <2>3, CarriedFacts
  <2> DEFINE carried == Carried(source[job'.next])
             N == {n \in 1..(job'.entry - 1) : /\ carried[n].path \notin job'.gone
                                               /\ <<job'.next, n>> \notin job'.refused}
  <2>5. N = {}
    BY <1>1
  <2> HIDE DEF N, carried
  <2>6. Picked(carried, N) = <<>>
    BY <2>5, FS_EmptySet DEF Picked
  <2>7. job'.entry <= Len(carried) + 1
    BY <1>1, <2>1, <2>4 DEF carried
  <2> QED BY <2>2, <2>6, <2>7 DEF N, carried
<1> QED BY <1>1, <1>2, <1>6, <1>7, HeldFrom

LEMMA EntryHeld ==
  ASSUME ContentsInv, HeldInv, SkipEntry \/ RestoreEntry, "merged" \notin Events
  PROVE  HeldInv'
<1> DEFINE old == world[At].inventory
           new == world'[At].inventory
           path == PathOf(EntryNow)
           u == <<job.next, job.entry>>
<1>0. Types /\ JobInv /\ BaseInv
  BY DEF ContentsInv, BaseInv
<1>1. /\ Unrestored /\ Restoring /\ EntryNow \in ItemEntry /\ old \in Seq(Stack)
      /\ HasInventory(world[At])
      /\ \A k \in DOMAIN world : k # At => world'[k] = world[k]
      /\ job'.first = job.first /\ job'.invulnerable = job.invulnerable /\ job'.gone = job.gone
      /\ job' # NoJob /\ job'.next = job.next /\ job'.entry = job.entry + 1
      /\ source' = source /\ with_items' = with_items
  BY <1>0, EntryFacts
<1>2. \/ path = NoItem /\ job'.refused = job.refused /\ new = old
      \/ path \in Items /\ job'.refused = job.refused \cup {u} /\ new = old
      \/ /\ path \in Items /\ job'.refused = job.refused /\ new # old
         /\ new \in AddedTo(old, EntryNow, path)
  BY <1>0, EntryFacts
<1>3. /\ Running /\ job.step = "contents" /\ At = job.first + job.next
      /\ world[At] = Copy(job.next)
  BY <1>0, <1>1, RestoringFacts
<1>4. /\ job # NoJob /\ job.first \in Nat /\ job.next \in Nat /\ job.entry \in Nat
      /\ job.entry >= 1
  BY <1>0, <1>3, RunningFacts
<1>5. \A k, n : k < job.next => (<<k, n>> \in job'.refused <=> <<k, n>> \in job.refused)
  <2> TAKE k, n
  <2> SUFFICES ASSUME k < job.next PROVE <<k, n>> \in job'.refused <=> <<k, n>> \in job.refused
    OBVIOUS
  <2>1. k # job.next
    BY <1>4
  <2>2. <<k, n>> # u
    BY <2>1
  <2> HIDE DEF u
  <2> QED BY <1>2, <2>2
<1>6. ASSUME source # <<>>, Whole
      PROVE  \A k \in Done' : HasInventory(Copy(k)') => IsPrefix(Expected(k)', Copy(k)'.inventory)
  <2>1. Done' = Done
    BY <1>1, <1>4 DEF Done
  <2> SUFFICES ASSUME NEW k \in Done
               PROVE  HasInventory(Copy(k)') => IsPrefix(Expected(k)', Copy(k)'.inventory)
    BY <2>1
  <2>2. k \in 1..(job.next - 1)
    BY <1>4 DEF Done
  <2>3. k \in Begun
    <3>1. Begun = 1..(job.next - 1 + 1)
      BY <1>3, <1>4 DEF Begun
    <3> QED BY <1>4, <2>2, <3>1
  <2>4. job.first + k \in DOMAIN world
    BY <1>0, <2>3, BegunFacts
  <2>5. world'[job.first + k] = world[job.first + k]
    BY <1>1, <1>3, <1>4, <2>2, <2>4
  <2> QED BY <1>1, <1>4, <1>5, <1>6, <2>5, DoneKept
<1>7. ASSUME source # <<>>, Whole
      PROVE  LET carried == Carried(source[job.next])
             IN  /\ job.entry + 1 <= Len(carried) + 1
                 /\ new = Picked(carried, {n \in 1..job.entry : /\ carried[n].path \notin job.gone
                                                                /\ <<job.next, n>> \notin job'.refused})
  <2> DEFINE carried == Carried(source[job.next])
             it == carried[job.entry]
             N == {n \in 1..(job.entry - 1) : /\ carried[n].path \notin job.gone
                                              /\ <<job.next, n>> \notin job.refused}
             M == {n \in 1..job.entry : /\ carried[n].path \notin job.gone
                                        /\ <<job.next, n>> \notin job'.refused}
  <2>1. old = Picked(carried, N)
    <3>1. Copy(job.next).inventory = Through(job.next, job.entry - 1)
      BY <1>1, <1>3, <1>4, <1>7 DEF HeldInv
    <3> QED BY <1>3, <3>1 DEF Through, Kept
  <2>2. /\ carried \in Seq(Stack) /\ Len(carried) \in Nat
        /\ job.entry \in 1..Len(carried) /\ it \in Stack /\ it.path \in Items
        /\ EntryFor(EntryNow, it, job.bp.item_classes)
        /\ path = IF it.path \in job.gone THEN NoItem ELSE it.path
    BY <1>0, <1>1, <1>7, EntryPath
  <2>3. u \notin job.refused
    <3>1. job.refused \subseteq Seen
      BY <1>4, <1>7 DEF ContentsInv, StacksInv
    <3> QED BY <1>0, <1>7, <3>1, EntrySeen
  <2>4. 1..job.entry = (1..(job.entry - 1)) \cup {job.entry}
    BY <1>4
  <2>5. \A n \in 1..(job.entry - 1) : <<job.next, n>> \in job'.refused <=> <<job.next, n>> \in job.refused
    <3>1. \A n \in 1..(job.entry - 1) : <<job.next, n>> # u
      BY <1>4
    <3> HIDE DEF u
    <3> QED BY <1>2, <3>1
  <2>6. M = N \cup (IF it.path \notin job.gone /\ u \notin job'.refused THEN {job.entry} ELSE {})
    BY <2>4, <2>5
  <2> HIDE DEF M, N, carried, it, old, new, path
  <2>7. CASE path = NoItem /\ new = old
    <3>1. it.path \in job.gone
      BY <2>2, <2>7, ContentsAssumption
    <3>2. M = N
      BY <2>6, <3>1
    <3>3. new = Picked(carried, M)
      BY <2>1, <2>7, <3>2
    <3> QED BY <1>4, <2>2, <3>3 DEF M, carried
  <2>8. CASE path \in Items /\ job'.refused = job.refused \cup {u} /\ new = old
    <3>1. M = N
      BY <2>6, <2>8
    <3>2. new = Picked(carried, M)
      BY <2>1, <2>8, <3>1
    <3> QED BY <1>4, <2>2, <3>2 DEF M, carried
  <2>9. CASE /\ path \in Items /\ job'.refused = job.refused /\ new # old
             /\ new \in AddedTo(old, EntryNow, path)
    <3> DEFINE e == EntryNow
    <3>1. path = it.path /\ it.path \notin job.gone
      BY <2>2, <2>9, ContentsAssumption
    <3> HIDE DEF e
    <3>2. Restored([NewItem(it.path, e.quantity) EXCEPT !.blueprint = e.blueprint], e) = it
      BY <1>1, <2>2, StackRestored DEF e
    <3>3. new = Append(old, Restored([NewItem(it.path, e.quantity) EXCEPT !.blueprint = e.blueprint], e))
      <4>1. e \in ItemEntry /\ it.path \in Items /\ new \in AddedTo(old, e, it.path) /\ new # old
        BY <1>1, <2>2, <2>9, <3>1 DEF e
      <4>2. old \in Seq(Stack)
        BY <1>1
      <4> QED BY <4>1, <4>2, AddedFacts
    <3>4. M = N \cup {job.entry}
      BY <2>3, <2>6, <2>9, <3>1
    <3>5. N \subseteq 1..Len(carried) /\ \A m \in N : m < job.entry
      BY <1>4, <2>2 DEF N
    <3>6. carried[job.entry] = it
      BY DEF it
    <3>7. Picked(carried, N \cup {job.entry}) = Append(Picked(carried, N), carried[job.entry])
      BY <2>2, <3>5, PickedGrows
    <3>8. new = Picked(carried, M)
      BY <2>1, <3>2, <3>3, <3>4, <3>6, <3>7
    <3> QED BY <1>4, <2>2, <3>8 DEF M, carried
  <2> QED BY <1>2, <2>7, <2>8, <2>9 DEF old, new, path
<1>8. ASSUME source # <<>>, Whole, job'.step = "contents",
             HasInventory(world'[job'.first + job'.next])
      PROVE  LET carried == Carried(source[job'.next])
             IN  /\ job'.entry <= Len(carried) + 1
                 /\ world'[job'.first + job'.next].inventory
                      = Picked(carried, {n \in 1..(job'.entry - 1) :
                                           /\ carried[n].path \notin job'.gone
                                           /\ <<job'.next, n>> \notin job'.refused})
  <2>1. /\ job'.first + job'.next = At /\ job'.next = job.next /\ job'.entry = job.entry + 1
        /\ job'.gone = job.gone
    BY <1>1, <1>3
  <2>2. job'.entry - 1 = job.entry
    BY <1>4, <2>1
  <2> QED BY <1>7, <1>8, <2>1, <2>2
<1> QED BY <1>1, <1>4, <1>6, <1>8, HeldFrom

LEMMA DeviceHeld ==
  ASSUME ContentsInv, HeldInv, RestoreDevice
  PROVE  HeldInv'
<1>0. Types /\ JobInv /\ BaseInv /\ CopyInv
  BY DEF ContentsInv, BaseInv
<1>1. /\ Restoring /\ ~Unrestored
      /\ world'[At].class = world[At].class /\ world'[At].inventory = world[At].inventory
      /\ \A k \in DOMAIN world : k # At => world'[k] = world[k]
      /\ job'.first = job.first /\ job'.invulnerable = job.invulnerable /\ job'.gone = job.gone
      /\ job' # NoJob /\ job'.refused = job.refused /\ job'.entry = 1
      /\ job'.next = job.next + 1 /\ job'.step = "piece"
      /\ source' = source /\ with_items' = with_items
  BY <1>0, DeviceFacts
<1>2. /\ Running /\ job.step = "contents" /\ At = job.first + job.next
      /\ world[At] = Copy(job.next)
  BY <1>0, <1>1, RestoringFacts
<1>3. /\ job # NoJob /\ job.first \in Nat /\ job.next \in Nat /\ job.next >= 1
      /\ job.entry \in Nat
  BY <1>0, <1>2, RunningFacts
<1>4. Done' = 1..job.next /\ Done = 1..(job.next - 1)
  <2>1. Done' = 1..(job.next + 1 - 1)
    BY <1>1, <1>3 DEF Done
  <2> QED BY <1>3, <2>1 DEF Done
<1>5. ASSUME source # <<>>, Whole, NEW k \in Done
      PROVE  HasInventory(Copy(k)') => IsPrefix(Expected(k)', Copy(k)'.inventory)
  <2>1. k \in Begun /\ k \in Nat /\ k < job.next
    <3>1. Begun = 1..(job.next - 1 + 1)
      BY <1>2, <1>3 DEF Begun
    <3> QED BY <1>3, <1>4, <3>1
  <2>2. job.first + k \in DOMAIN world
    BY <1>0, <2>1, BegunFacts
  <2>3. world'[job.first + k] = world[job.first + k]
    BY <1>1, <1>2, <1>3, <2>1, <2>2
  <2> QED BY <1>1, <1>3, <1>5, <2>3, DoneKept
<1>6. ASSUME source # <<>>, Whole
      PROVE  HasInventory(world'[At]) => IsPrefix(Expected(job.next), world'[At].inventory)
  <2> SUFFICES ASSUME HasInventory(world'[At])
               PROVE  IsPrefix(Expected(job.next), world'[At].inventory)
    OBVIOUS
  <2>1. HasInventory(Copy(job.next)) /\ HasInventory(world[At])
    BY <1>1, <1>2 DEF HasInventory
  <2>2. /\ job.entry <= Len(Carried(source[job.next])) + 1
        /\ Copy(job.next).inventory = Through(job.next, job.entry - 1)
    BY <1>2, <1>3, <1>6, <2>1 DEF HeldInv
  <2>3. job.entry > Len(Carried(source[job.next]))
    BY <1>0, <1>1, <1>6, <2>1, AllDealtWith
  <2>4. job.next \in DOMAIN source /\ source[job.next] \in Structure
    BY <1>0, <1>2, <1>6, PieceFacts
  <2>5. Len(Carried(source[job.next])) \in Nat
    BY <2>4, CarriedFacts
  <2>6. job.entry - 1 = Len(Carried(source[job.next]))
    BY <1>3, <2>2, <2>3, <2>5
  <2>7. /\ Expected(job.next) \in Seq(Stack)
        /\ Expected(job.next) = Through(job.next, Len(Carried(source[job.next])))
    BY <1>0, <2>4, ExpectedFacts
  <2>8. world'[At].inventory = Expected(job.next)
    BY <1>1, <1>2, <2>2, <2>6, <2>7
  <2> QED BY <2>7, <2>8 DEF IsPrefix
<1>7. Copy(job.next)' = world'[job'.first + job'.next] 
  BY DEF Copy
<1>8. \A k : Expected(k)' = Expected(k)
  BY <1>1 DEF Expected
<1>9. \A k : Copy(k)' = world'[job.first + k]
  BY <1>1 DEF Copy
<1>10. ASSUME source # <<>>, Whole, NEW k \in Done'
       PROVE  HasInventory(Copy(k)') => IsPrefix(Expected(k)', Copy(k)'.inventory)
  <2>1. k \in Done \/ k = job.next
    BY <1>3, <1>4
  <2>2. CASE k \in Done
    BY <1>5, <1>10, <2>2
  <2>3. CASE k = job.next
    BY <1>2, <1>6, <1>8, <1>9, <1>10, <2>3
  <2> QED BY <2>1, <2>2, <2>3
<1> QED BY <1>1, <1>3, <1>10, HeldFrom

LEMMA FillHeld ==
  ASSUME ContentsInv, HeldInv,
         NEW turrets \in SUBSET {k \in DOMAIN world : LooksLikeTurret(world[k])},
         NEW per_stack \in StackArgs, HandleFill(turrets, per_stack)
  PROVE  HeldInv'
<1>1. /\ job' = job /\ source' = source /\ with_items' = with_items
      /\ (job # NoJob => job.step = "piece")
  BY DEF HandleFill
<1>2. BaseInv /\ Types
  BY DEF ContentsInv, BaseInv
<1>3. CASE job = NoJob
  BY <1>1, <1>3 DEF HeldInv
<1>4. CASE job # NoJob
  <2>1. Done' = Done
    BY <1>1 DEF Done
  <2>2. ASSUME source # <<>>, Whole, NEW k \in Done
        PROVE  HasInventory(Copy(k)') => IsPrefix(Expected(k)', Copy(k)'.inventory)
    <3>1. k \in Begun
      <4>1. job \in Jobs
        BY <1>2, <1>4 DEF Types
      <4>2. job.next \in Nat
        BY <4>1 DEF Jobs
      <4>3. Begun = 1..(job.next - 1 + 0)
        BY <1>1, <1>4 DEF Begun
      <4> QED BY <1>4, <4>2, <4>3 DEF Done
    <3> DEFINE n == job.first + k
    <3>2. n \in DOMAIN world
      BY <1>2, <3>1, BegunFacts
    <3>4. world'[n] = world[n] \/ \E ammo \in Templates(world[n]) : Topped(world[n], ammo, world'[n])
      BY <1>2, <3>2, FillFacts
    <3> HIDE DEF n
    <3>5. \/ world'[n] = world[n]
          \/ /\ HasInventory(world[n])
             /\ world'[n].inventory \in Seq(Stack)
             /\ Len(world[n].inventory) <= Len(world'[n].inventory)
             /\ \A m \in 1..Len(world[n].inventory) : world'[n].inventory[m] = world[n].inventory[m]
      <4>1. ASSUME NEW ammo, Topped(world[n], ammo, world'[n])
            PROVE  /\ HasInventory(world[n]) /\ world'[n].inventory \in Seq(Stack)
                   /\ Len(world[n].inventory) <= Len(world'[n].inventory)
                   /\ \A m \in 1..Len(world[n].inventory) :
                        world'[n].inventory[m] = world[n].inventory[m]
        <5>1. /\ HasInventory(world[n])
              /\ world[n].inventory \in Seq(Stack) /\ world'[n].inventory \in Seq(Stack)
              /\ Len(world[n].inventory) <= Len(world'[n].inventory)
              /\ \A m \in 1..Len(world'[n].inventory) :
                   m <= Len(world[n].inventory) => world'[n].inventory[m] = world[n].inventory[m]
          BY <4>1 DEF Topped
        <5>2. Len(world[n].inventory) \in Nat /\ Len(world'[n].inventory) \in Nat
          BY <5>1
        <5> QED BY <5>1, <5>2
      <4> QED BY <3>4, <4>1
    <3>6. \A i, m : i < job.next => (<<i, m>> \in job'.refused <=> <<i, m>> \in job.refused)
      BY <1>1
    <3> QED BY <1>1, <1>4, <2>2, <3>5, <3>6, DoneKept DEF n
  <2> QED BY <1>1, <1>4, <2>1, <2>2, HeldFrom
<1> QED BY <1>3, <1>4

LEMMA HeldStep ==
  ASSUME ContentsInv, HeldInv, [Next]_vars, "merged" \notin Events
  PROVE  HeldInv'
<1>1. ASSUME NEW items \in BOOLEAN, HandleSave(items) PROVE HeldInv'
  BY <1>1 DEF HandleSave, HeldInv
<1>2. ASSUME NEW invulnerable \in BOOLEAN, NEW gone \in Missing,
             HandlePaste(invulnerable, gone)
      PROVE  HeldInv'
  <2>1. job' # NoJob /\ job'.next = 1 /\ job'.step = "piece"
    BY <1>2, PasteBase DEF ContentsInv, BaseInv
  <2>2. Done' = {}
    <3>1. Done' = 1..(1 - 1)
      BY <2>1 DEF Done
    <3> QED BY <3>1
  <2> QED BY <2>1, <2>2 DEF HeldInv
<1>3. ASSUME NEW turrets \in SUBSET {k \in DOMAIN world : LooksLikeTurret(world[k])},
             NEW per_stack \in StackArgs, HandleFill(turrets, per_stack)
      PROVE  HeldInv'
  BY <1>3, FillHeld
<1>4. ASSUME NEW k \in DOMAIN world, Empty(k) PROVE HeldInv'
  BY <1>4 DEF Empty, HeldInv
<1>5. CASE UNCHANGED vars
  BY <1>5 DEF vars, HeldInv, Done, Copy, Expected, Whole, Through, Kept
<1> QED BY <1>1, <1>2, <1>3, <1>4, <1>5, PlaceHeld, EntryHeld, DeviceHeld DEF Next

\* The copy of a piece, where it has come to be and has an inventory, holds stack
\* for stack and with its quality what its original held when it was saved, in its
\* order and before what fill adds, without what cannot be loaded or the game
\* refused (Capture.cpp:323-366, Paste.cpp:345-379), as long as the game adds each
\* stack as one of its own, or not at all.
THEOREM AlwaysHoldsWhatWasSaved ==
  ASSUME "merged" \notin Events
  PROVE  Spec => []HoldsWhatWasSaved
<1>1. Init => ContentsInv /\ HeldInv
  BY InitInv
<1>2. ContentsInv /\ HeldInv /\ [Next]_vars => (ContentsInv /\ HeldInv)'
  BY ContentsStep, HeldStep
<1>3. ASSUME ContentsInv, HeldInv PROVE HoldsWhatWasSaved
  <2> SUFFICES ASSUME NEW k \in Done, source # <<>>, Whole
               PROVE  /\ Copy(k).class \in {source[k].class, NoClass}
                      /\ HasInventory(Copy(k)) => IsPrefix(Expected(k), Copy(k).inventory)
    BY DEF HoldsWhatWasSaved, Whole
  <2>1. job # NoJob /\ Types /\ CopyInv
    BY <1>3 DEF Done, ContentsInv
  <2>2. k \in Begun
    <3>1. job \in Jobs
      BY <2>1 DEF Types
    <3>2. job.next \in Nat
      BY <3>1 DEF Jobs
    <3> QED BY <2>1, <3>2 DEF Begun, Done
  <2>3. Copy(k).class \in {source[k].class, NoClass}
    BY <2>1, <2>2 DEF CopyInv
  <2> QED BY <1>3, <2>1, <2>3 DEF HeldInv
<1> QED BY <1>1, <1>2, <1>3, PTL DEF Spec

----------------------------------------------------------------------------
(* What fill tells *)

Numbers(f) == IsFiniteSet(DOMAIN f) /\ \A x \in DOMAIN f : f[x] \in Int

LEMMA TotalIsASum ==
  ASSUME NEW f, Numbers(f)
  PROVE  \E g : Sums(g, DOMAIN f, f) /\ Total(f) = g[DOMAIN f]
<1> DEFINE S == DOMAIN f
           solves(g) == g = [s \in SUBSET S |->
                               IF s = {} THEN 0
                               ELSE f[CHOOSE x \in s : TRUE] + g[s \ {CHOOSE x \in s : TRUE}]]
           iter == CHOOSE g : solves(g)
<1>1. Total(f) = iter[S]
  BY DEF Total, FoldFunction, FoldFunctionOnSet, MapThenFoldSet
<1>2. \A g : Adds(g, S, f) <=> solves(g)
  BY DEF Adds, Some
<1> HIDE DEF solves
<1>3. \E g : solves(g)
  <2>1. PICK g : Adds(g, S, f)
    BY SumExists DEF Numbers
  <2>2. solves(g)
    BY <1>2, <2>1
  <2> QED BY <2>2
<1>4. Adds(iter, S, f)
  BY <1>2, <1>3
<1>5. Sums(iter, S, f)
  BY <1>4 DEF Sums, Numbers
<1> HIDE DEF iter
<1> QED BY <1>1, <1>5

LEMMA TotalIsInt ==
  ASSUME NEW f, Numbers(f)
  PROVE  Total(f) \in Int
<1>1. PICK g : Sums(g, DOMAIN f, f) /\ Total(f) = g[DOMAIN f]
  BY TotalIsASum
<1> QED BY <1>1, SumIsInt

\* n times the same number.
LEMMA TotalOfSame ==
  ASSUME NEW f, Numbers(f), NEW c \in Int, \A x \in DOMAIN f : f[x] = c
  PROVE  Total(f) = Cardinality(DOMAIN f) * c
<1>1. PICK g : Sums(g, DOMAIN f, f) /\ Total(f) = g[DOMAIN f]
  BY TotalIsASum
<1>2. Adds(g, DOMAIN f, f) /\ IsFiniteSet(DOMAIN f)
  BY <1>1 DEF Sums
<1>3. \A x \in DOMAIN f : f[x] \in Int /\ c <= f[x] /\ f[x] <= c
  OBVIOUS
<1>4. /\ g[DOMAIN f] \in Int
      /\ Cardinality(DOMAIN f) * c <= g[DOMAIN f] /\ g[DOMAIN f] <= Cardinality(DOMAIN f) * c
  BY <1>2, <1>3, SumBounds
<1>5. Cardinality(DOMAIN f) * c \in Int
  BY <1>2, FS_CardinalityType
<1> QED BY <1>1, <1>4, <1>5

\* What is added on top of f.
LEMMA TotalOfMore ==
  ASSUME NEW f, Numbers(f), NEW h, Numbers(h), NEW more, Numbers(more),
         DOMAIN f \cup DOMAIN more = DOMAIN h, DOMAIN f \cap DOMAIN more = {},
         \A x \in DOMAIN f : h[x] = f[x], \A x \in DOMAIN more : h[x] = more[x]
  PROVE  Total(h) = Total(f) + Total(more)
<1> DEFINE A == DOMAIN f
           B == DOMAIN more
           S == DOMAIN h
<1>1. PICK g : Sums(g, A, f) /\ Total(f) = g[A]
  BY TotalIsASum
<1>2. PICK e : Sums(e, B, more) /\ Total(more) = e[B]
  BY TotalIsASum
<1>3. PICK w : Sums(w, S, h) /\ Total(h) = w[S]
  BY TotalIsASum
<1>4. A \in SUBSET S /\ B \in SUBSET S /\ A \cap B = {} /\ A \cup B = S
  OBVIOUS
<1>5. /\ \A x \in A : h[x] = f[x]
      /\ \A x \in B : h[x] = more[x]
  OBVIOUS
<1>6. IsFiniteSet(A) /\ IsFiniteSet(B) /\ IsFiniteSet(S)
  BY DEF Numbers
<1> HIDE DEF A, B, S
<1>7. w[A] = g[A]
  BY <1>1, <1>3, <1>4, <1>5, SameSum
<1>8. w[B] = e[B]
  BY <1>2, <1>3, <1>4, <1>5, SameSum
<1>9. w[S] = w[A] + w[B]
  BY <1>3, <1>4, SumOfBoth
<1> QED BY <1>1, <1>2, <1>3, <1>7, <1>8, <1>9

LEMMA TotalOfDifferences ==
  ASSUME NEW f, Numbers(f), NEW h, Numbers(h), NEW d, Numbers(d),
         DOMAIN h = DOMAIN f, DOMAIN d = DOMAIN f, \A x \in DOMAIN f : d[x] = h[x] - f[x]
  PROVE  Total(d) = Total(h) - Total(f)
<1> DEFINE S == DOMAIN f
<1>1. PICK g : Sums(g, S, f) /\ Total(f) = g[S]
  BY TotalIsASum
<1>2. PICK w : Sums(w, S, h) /\ Total(h) = w[S]
  BY TotalIsASum
<1>3. PICK e : Sums(e, S, d) /\ Total(d) = e[S]
  BY TotalIsASum
<1>4. \A x \in S : d[x] = h[x] - f[x]
  OBVIOUS
<1> HIDE DEF S
<1>5. e[S] = w[S] - g[S]
  BY <1>1, <1>2, <1>3, <1>4, SumOfDifferences
<1> QED BY <1>1, <1>2, <1>3, <1>5

\* Adding nothing.
LEMMA TotalOfPart ==
  ASSUME NEW f, Numbers(f), NEW h, Numbers(h), DOMAIN f \in SUBSET DOMAIN h,
         \A x \in DOMAIN h : h[x] = IF x \in DOMAIN f THEN f[x] ELSE 0
  PROVE  Total(h) = Total(f)
<1> DEFINE none == [x \in DOMAIN h \ DOMAIN f |-> 0]
<1>1. IsFiniteSet(DOMAIN h \ DOMAIN f)
  BY FS_Difference DEF Numbers
<1>2. Numbers(none)
  BY <1>1 DEF Numbers
<1>3. Total(none) = Cardinality(DOMAIN none) * 0
  <2>1. \A x \in DOMAIN none : none[x] = 0
    OBVIOUS
  <2>2. 0 \in Int
    OBVIOUS
  <2> HIDE DEF none
  <2> QED BY <1>2, <2>1, <2>2, TotalOfSame
<1>4. Cardinality(DOMAIN none) \in Int
  BY <1>1, FS_CardinalityType
<1>5. /\ DOMAIN f \cup DOMAIN none = DOMAIN h /\ DOMAIN f \cap DOMAIN none = {}
      /\ \A x \in DOMAIN f : h[x] = f[x]
      /\ \A x \in DOMAIN none : h[x] = none[x]
  OBVIOUS
<1> HIDE DEF none
<1>6. Total(h) = Total(f) + Total(none)
  BY <1>2, <1>5, TotalOfMore
<1>7. Total(f) \in Int
  BY TotalIsInt
<1> QED BY <1>3, <1>4, <1>6, <1>7

Amount(inventory) == Total([n \in DOMAIN inventory |-> inventory[n].quantity])

StacksOf(s) == IF HasInventory(s) THEN Len(s.inventory) ELSE 0

LEMMA AmountIsInt ==
  ASSUME NEW inventory \in Seq(Stack)
  PROVE  /\ Numbers([n \in DOMAIN inventory |-> inventory[n].quantity])
         /\ Amount(inventory) \in Int
<1> DEFINE f == [n \in DOMAIN inventory |-> inventory[n].quantity]
<1>1. DOMAIN inventory = 1..Len(inventory) /\ Len(inventory) \in Nat
  OBVIOUS
<1>2. IsFiniteSet(1..Len(inventory))
  <2>1. 1 \in Int /\ Len(inventory) \in Int
    BY <1>1
  <2> QED BY <2>1, FS_Interval
<1>3. \A n \in DOMAIN inventory : inventory[n].quantity \in Int
  <2>1. \A n \in DOMAIN inventory : inventory[n] \in Stack
    OBVIOUS
  <2> QED BY <2>1 DEF Stack
<1>4. DOMAIN f = DOMAIN inventory
  OBVIOUS
<1>5. Numbers(f)
  <2>1. IsFiniteSet(DOMAIN f)
    BY <1>1, <1>2, <1>4
  <2> QED BY <1>3, <2>1 DEF Numbers
<1> QED BY <1>5, TotalIsInt DEF Amount

LEMMA QuantityIsInt ==
  ASSUME NEW s \in Structure
  PROVE  /\ Quantity(s) \in Int /\ StacksOf(s) \in Nat
         /\ HasInventory(s) => Quantity(s) = Amount(s.inventory) /\ s.inventory \in Seq(Stack)
<1>1. HasInventory(s) => s.inventory \in Seq(Stack)
  BY DEF HasInventory, Structure
<1>2. HasInventory(s) => Len(s.inventory) \in Nat
  BY <1>1
<1> QED BY <1>1, <1>2, AmountIsInt DEF Quantity, Amount, StacksOf

LEMMA AmountOfMore ==
  ASSUME NEW old \in Seq(Stack), NEW new \in Seq(Stack), NEW n \in Nat, NEW q \in Int,
         Len(new) = Len(old) + n,
         \A k \in 1..Len(new) : IF k <= Len(old) THEN new[k] = old[k] ELSE new[k].quantity = q
  PROVE  Amount(new) = Amount(old) + n * q
<1> DEFINE f == [k \in DOMAIN old |-> old[k].quantity]
           h == [k \in DOMAIN new |-> new[k].quantity]
           more == [k \in (Len(old) + 1)..(Len(old) + n) |-> q]
<1>1. /\ DOMAIN old = 1..Len(old) /\ Len(old) \in Nat
      /\ DOMAIN new = 1..Len(new) /\ Len(new) \in Nat
  OBVIOUS
<1>2. Len(old) + 1 \in Int /\ Len(old) + n \in Int
  BY <1>1
<1>3. /\ IsFiniteSet((Len(old) + 1)..(Len(old) + n))
      /\ Cardinality((Len(old) + 1)..(Len(old) + n)) = n
  <2>1. /\ IsFiniteSet((Len(old) + 1)..(Len(old) + n))
        /\ Cardinality((Len(old) + 1)..(Len(old) + n)) =
             IF Len(old) + 1 > Len(old) + n THEN 0 ELSE (Len(old) + n) - (Len(old) + 1) + 1
    BY <1>2, FS_Interval
  <2>2. (IF Len(old) + 1 > Len(old) + n THEN 0 ELSE (Len(old) + n) - (Len(old) + 1) + 1) = n
    BY <1>1
  <2> QED BY <2>1, <2>2
<1>4. Numbers(f) /\ Numbers(h) /\ Amount(old) = Total(f) /\ Amount(new) = Total(h)
  BY AmountIsInt DEF Amount
<1>5. DOMAIN more = (Len(old) + 1)..(Len(old) + n) /\ \A k \in DOMAIN more : more[k] = q
  OBVIOUS
<1>6. Numbers(more)
  BY <1>3, <1>5 DEF Numbers
<1>7. Total(more) = n * q
  <2> HIDE DEF more
  <2> QED BY <1>3, <1>5, <1>6, TotalOfSame
<1>8. /\ DOMAIN f \cup DOMAIN more = DOMAIN h /\ DOMAIN f \cap DOMAIN more = {}
      /\ DOMAIN f = DOMAIN old /\ DOMAIN h = DOMAIN new
  BY <1>1
<1>9. \A x \in DOMAIN f : h[x] = f[x]
  BY <1>1
<1>10. \A x \in DOMAIN more : h[x] = more[x]
  BY <1>1
<1> HIDE DEF f, h, more
<1>11. Total(h) = Total(f) + Total(more)
  BY <1>4, <1>6, <1>8, <1>9, <1>10, TotalOfMore, ZenonT(40)
<1> QED BY <1>4, <1>7, <1>11

\* What is counted for a turret is what was put into it.
LEMMA OutcomeCounts ==
  ASSUME "clamped" \notin Events,
         NEW s \in Structure, NEW ammo \in Items \cup {NoItem}, NEW per_stack \in Nat,
         NEW o \in Outcomes(s, ammo, per_stack)
  PROVE  /\ o.stacks \in Nat /\ o.rounds \in Int
         /\ o.stacks > 0 <=> o.after # s
         /\ StacksOf(o.after) - StacksOf(s) = o.stacks
         /\ Quantity(o.after) - Quantity(s) = o.rounds
<1> DEFINE free == FreeSlots(s)
           old == s.inventory
           stack == StackFor(ammo, per_stack)
<1>0. Quantity(s) \in Int /\ StacksOf(s) \in Nat
  BY QuantityIsInt
<1>1. CASE ~HasInventory(s) \/ ammo = NoItem \/ free = 0
  <2>1. o.after = s /\ o.stacks = 0 /\ o.rounds = 0
    BY <1>1 DEF Outcomes
  <2> QED BY <1>0, <2>1
<1>2. CASE HasInventory(s) /\ ammo # NoItem /\ free # 0
  <2>1. PICK n \in Takes(free), quantity \in Quantities(ammo, stack) :
          o = [after |-> Filled(s, ammo, n, quantity), stacks |-> n,
               rounds |-> n * stack, skip |-> "none"]
    BY <1>2 DEF Outcomes
  <2>2. ammo \in Items /\ s.class \in Classes
    BY <1>2 DEF Structure
  <2>3. old \in Seq(Stack) /\ Len(old) \in Nat /\ DOMAIN old = 1..Len(old)
    BY <1>2 DEF HasInventory, Structure
  <2>4. Kind[s.class].slots \in Nat
    BY <2>2, ContentsAssumption DEF Kinds
  <2>5. free = Kind[s.class].slots - Len(old) /\ free \in Nat
    BY <1>2, <2>3, <2>4 DEF FreeSlots
  <2>7. MaxStack[ammo] \in Nat
    BY <2>2, ContentsAssumption
  <2>8. stack \in Int
    BY <2>7 DEF StackFor
  <2>9. quantity = stack
    BY DEF Quantities
  <2> HIDE DEF free, old, stack
  <2>6. n \in Nat
    BY <2>5 DEF Takes
  <2> DEFINE more == [k \in 1..n |-> NewItem(ammo, quantity)]
             new == old \o more
  <2>10. NewItem(ammo, quantity) \in Stack /\ NewItem(ammo, quantity).quantity = stack
    <3>1. FALSE \in BOOLEAN
      OBVIOUS
    <3> QED BY <2>2, <2>8, <2>9, <3>1, MadeFacts DEF NewItem
  <2>11. more \in Seq(Stack) /\ Len(more) = n /\ \A k \in 1..n : more[k].quantity = stack
    BY <2>6, <2>10
  <2> HIDE DEF more
  <2>12. /\ new \in Seq(Stack) /\ Len(new) = Len(old) + n
         /\ \A k \in 1..Len(new) : IF k <= Len(old) THEN new[k] = old[k]
                                   ELSE new[k] = more[k - Len(old)]
    BY <2>3, <2>6, <2>11
  <2>13. Filled(s, ammo, n, quantity) = [s EXCEPT !.inventory = new]
    BY DEF Filled, more, old
  <2> HIDE DEF new
  <2>14. \A k \in 1..Len(new) : k > Len(old) => new[k].quantity = stack
    <3> SUFFICES ASSUME NEW k \in 1..Len(new), k > Len(old) PROVE new[k].quantity = stack
      OBVIOUS
    <3>1. k \in Int /\ k - Len(old) \in 1..n
      BY <2>3, <2>6, <2>12
    <3>2. new[k] = more[k - Len(old)]
      BY <2>3, <2>12, <3>1
    <3> QED BY <2>11, <3>1, <3>2
  <2>15. Amount(new) = Amount(old) + n * stack
    <3>1. \A k \in 1..Len(new) : IF k <= Len(old) THEN new[k] = old[k] ELSE new[k].quantity = stack
      BY <2>3, <2>12, <2>14
    <3> QED BY <2>3, <2>6, <2>8, <2>12, <3>1, AmountOfMore
  <2>16. o.after = [s EXCEPT !.inventory = new] /\ o.stacks = n /\ o.rounds = n * stack
    BY <2>1, <2>13
  <2>17. o.after \in Structure /\ o.after.inventory = new
    BY <2>12, <2>16 DEF Structure
  <2>18. HasInventory(o.after)
    BY <2>12, <2>17, ContentsAssumption DEF HasInventory
  <2>19. Quantity(o.after) = Amount(new) /\ Quantity(s) = Amount(old)
    BY <1>2, <2>17, <2>18, QuantityIsInt DEF old
  <2>20. StacksOf(o.after) = Len(new) /\ StacksOf(s) = Len(old)
    BY <1>2, <2>17, <2>18 DEF StacksOf, old
  <2>21. n * stack \in Int /\ Amount(old) \in Int
    <3>1. n * stack \in Int
      BY <2>6, <2>8
    <3> QED BY <2>3, <3>1, AmountIsInt
  <2>22. n > 0 => o.after # s
    <3>1. n > 0 => Len(new) # Len(old)
      <4>1. Len(new) = Len(old) + n
        BY <2>12
      <4>2. Len(old) \in Nat
        BY <2>3
      <4> QED BY <2>6, <4>1, <4>2
    <3> QED BY <2>17, <3>1 DEF old
  <2>23. n = 0 => o.after = s
    <3>1. ASSUME n = 0 PROVE new = old
      <4>1. Len(new) = Len(old) /\ \A k \in 1..Len(old) : new[k] = old[k]
        BY <2>3, <2>12, <3>1
      <4> QED BY <2>3, <2>12, <4>1
    <3>2. ASSUME new = old PROVE o.after = s
      BY <2>16, <3>2 DEF old, Structure
    <3> QED BY <3>1, <3>2
  <2> QED BY <2>3, <2>6, <2>12, <2>15, <2>16, <2>19, <2>20, <2>21, <2>22, <2>23
<1> QED BY <1>1, <1>2

\* Fill tells the admin what it did: the turrets that took something, the
\* stacks and the rounds that are there and were not (Main.cpp:297-307), for
\* every world, selection of turrets and refusal of the game, provided that the
\* game keeps the quantity it is asked for.
THEOREM FillAlwaysAsTold ==
  ASSUME "clamped" \notin Events
  PROVE  Spec => FillAsTold
<1> DEFINE Told ==
       /\ reply'.stacks_added = StacksIn(world') - StacksIn(world)
       /\ reply'.rounds_added = Total([k \in DOMAIN world |-> Quantity(world'[k]) - Quantity(world[k])])
       /\ reply'.filled = Cardinality({k \in DOMAIN world : world'[k] # world[k]})
<1>1. ASSUME ContentsInv, Next, reply' # NoReply
      PROVE  Told
  <2>1. Types
    BY <1>1 DEF ContentsInv
  <2>2. PICK turrets \in SUBSET {i \in DOMAIN world : LooksLikeTurret(world[i])},
             per_stack \in StackArgs : HandleFill(turrets, per_stack)
    <3>1. \E turrets \in SUBSET {i \in DOMAIN world : LooksLikeTurret(world[i])},
             per_stack \in StackArgs : HandleFill(turrets, per_stack)
      BY <1>1 DEF Next, HandleSave, HandlePaste, PlacePiece, SkipEntry, RestoreEntry,
                  RestoreDevice, Empty
    <3> QED BY <3>1
  <2>3. PICK done \in [turrets -> UNION {OutcomesFor(k, per_stack) : k \in turrets}] :
          /\ \A k \in turrets : done[k] \in OutcomesFor(k, per_stack)
          /\ world' = [k \in DOMAIN world |-> IF k \in turrets THEN done[k].after ELSE world[k]]
          /\ reply' = FillStats(turrets, done)
    BY <2>2 DEF HandleFill
  <2>4. /\ DOMAIN world' = DOMAIN world /\ world' \in Seq(Structure) /\ world \in Seq(Structure)
        /\ DOMAIN world = 1..Len(world) /\ Len(world) \in Nat
        /\ turrets \in SUBSET DOMAIN world
    BY <2>1, <2>2, FillFacts DEF Types
  <2>5. ASSUME NEW k \in DOMAIN world
        PROVE  world[k] \in Structure /\ world'[k] \in Structure
    BY <2>4
  <2>6. ASSUME NEW k \in DOMAIN world
        PROVE  /\ Quantity(world[k]) \in Int /\ Quantity(world'[k]) \in Int
               /\ StacksOf(world[k]) \in Int /\ StacksOf(world'[k]) \in Int
    <3>1. StacksOf(world[k]) \in Nat /\ Quantity(world[k]) \in Int
      BY <2>5, QuantityIsInt
    <3>2. StacksOf(world'[k]) \in Nat /\ Quantity(world'[k]) \in Int
      BY <2>5, QuantityIsInt
    <3> QED BY <3>1, <3>2
  <2>7. ASSUME NEW k \in turrets
        PROVE  /\ done[k].stacks \in Nat /\ done[k].rounds \in Int
               /\ done[k].stacks > 0 <=> world'[k] # world[k]
               /\ StacksOf(world'[k]) - StacksOf(world[k]) = done[k].stacks
               /\ Quantity(world'[k]) - Quantity(world[k]) = done[k].rounds
    <3>1. world'[k] = done[k].after /\ done[k] \in OutcomesFor(k, per_stack)
      BY <2>3, <2>4
    <3>2. PICK ammo \in Templates(world[k]) : done[k] \in Outcomes(world[k], ammo, per_stack)
      BY <3>1 DEF OutcomesFor
    <3>3. world[k] \in Structure /\ per_stack \in Nat
      BY <2>4, <2>5, ContentsAssumption
    <3>4. Kind[world[k].class].template \in Items \cup {NoItem}
      BY <3>3, ContentsAssumption DEF Structure, Kinds
    <3>5. ammo \in Items \cup {NoItem}
      BY <3>2, <3>4 DEF Templates
    <3> QED BY <3>1, <3>2, <3>3, <3>5, OutcomeCounts
  <2>8. \A k \in DOMAIN world : k \notin turrets => world'[k] = world[k]
    BY <2>3
  <2>9. IsFiniteSet(DOMAIN world) /\ IsFiniteSet(turrets)
    <3>1. 1 \in Int /\ Len(world) \in Int
      BY <2>4
    <3>2. IsFiniteSet(1..Len(world))
      BY <3>1, FS_Interval
    <3> QED BY <2>4, <3>2, FS_Subset
  <2>10. reply'.stacks_added = StacksIn(world') - StacksIn(world)
    <3> DEFINE was == [k \in DOMAIN world |-> StacksOf(world[k])]
               is == [k \in DOMAIN world |-> StacksOf(world'[k])]
               gain == [k \in DOMAIN world |-> StacksOf(world'[k]) - StacksOf(world[k])]
               told == [k \in turrets |-> done[k].stacks]
    <3>1. reply'.stacks_added = Total(told)
      BY <2>3 DEF FillStats
    <3>2. StacksIn(world) = Total(was) /\ StacksIn(world') = Total(is)
      BY <2>4 DEF StacksIn, StacksOf
    <3>3. Numbers(was) /\ Numbers(is) /\ Numbers(gain) /\ Numbers(told)
      BY <2>6, <2>7, <2>9 DEF Numbers
    <3>4. Total(gain) = Total(told)
      <4>1. \A x \in DOMAIN gain : gain[x] = IF x \in DOMAIN told THEN told[x] ELSE 0
        BY <2>6, <2>7, <2>8
      <4>2. DOMAIN told \in SUBSET DOMAIN gain
        BY <2>4
      <4> HIDE DEF told, gain
      <4> QED BY <3>3, <4>1, <4>2, TotalOfPart
    <3>5. Total(gain) = Total(is) - Total(was)
      <4>1. /\ DOMAIN is = DOMAIN was /\ DOMAIN gain = DOMAIN was
            /\ \A x \in DOMAIN was : gain[x] = is[x] - was[x]
        OBVIOUS
      <4> HIDE DEF is, was, gain
      <4> QED BY <3>3, <4>1, TotalOfDifferences
    <3> HIDE DEF is, was, gain, told
    <3> QED BY <3>1, <3>2, <3>4, <3>5
  <2>11. reply'.rounds_added =
           Total([k \in DOMAIN world |-> Quantity(world'[k]) - Quantity(world[k])])
    <3> DEFINE gain == [k \in DOMAIN world |-> Quantity(world'[k]) - Quantity(world[k])]
               told == [k \in turrets |-> done[k].rounds]
    <3>1. reply'.rounds_added = Total(told)
      BY <2>3 DEF FillStats
    <3>2. Numbers(gain) /\ Numbers(told)
      BY <2>6, <2>7, <2>9 DEF Numbers
    <3>3. \A x \in DOMAIN gain : gain[x] = IF x \in DOMAIN told THEN told[x] ELSE 0
      BY <2>6, <2>7, <2>8
    <3>4. DOMAIN told \in SUBSET DOMAIN gain
      BY <2>4
    <3>5. Total(gain) = Total(told)
      <4> HIDE DEF told, gain
      <4> QED BY <3>2, <3>3, <3>4, TotalOfPart
    <3> QED BY <3>1, <3>5
  <2>12. reply'.filled = Cardinality({k \in DOMAIN world : world'[k] # world[k]})
    <3>1. {k \in turrets : done[k].stacks > 0} = {k \in DOMAIN world : world'[k] # world[k]}
      BY <2>4, <2>7, <2>8
    <3>2. reply'.filled = Cardinality({k \in turrets : done[k].stacks > 0})
      BY <2>3 DEF FillStats
    <3> QED BY <3>1, <3>2
  <2> QED BY <2>10, <2>11, <2>12
<1> HIDE DEF Told
<1>2. ContentsInv /\ [Next]_vars => [reply' # NoReply => Told]_vars
  BY <1>1
<1>3. [][reply' # NoReply => Told]_vars => FillAsTold
  BY PTL DEF FillAsTold, Told
<1> QED BY <1>2, <1>3, ContentsInvariant, PTL DEF Spec

============================================================================
