--------------------------- MODULE CaptureProofs ---------------------------
(***************************************************************************)
(* What a save captures, for every scene, selection and margin.            *)
(***************************************************************************)
EXTENDS Capture, ListProofs

Axes == {"x", "y", "z"}

----------------------------------------------------------------------------
(* Types *)

\* A corner to a save, and a pass that is running, needs both corners.
Ready == phase # "idle" \/ saved

PieceType == [class_index: Nat, at: Place, floor: Nat, links: Seq(Nat)]

Types ==
  /\ scene \in Scene
  /\ sel \in [a: Corners \cup {NoCorner}, b: Corners \cup {NoCorner}]
  /\ phase \in {"idle", "keep", "make", "link"}
  /\ cursor \in Nat
  /\ found \in Seq(Structures)
  /\ kept \in Seq(Structures)
  /\ kept_to_piece \in Seq(Nat)
  /\ classes \in Seq(Classes)
  /\ pieces \in Seq(PieceType)
  /\ stats \in Stats
  /\ saved \in BOOLEAN
  /\ Ready => Complete
  /\ saved => phase = "idle"
  /\ phase = "keep" => cursor <= Len(found)
  /\ phase \in {"make", "link"} => cursor <= Len(kept) /\ Len(kept_to_piece) = Len(kept)

LEMMA BoxTypes ==
  ASSUME Types, Complete
  PROVE  \A d \in Axes : /\ sel.a[d] \in Int /\ sel.b[d] \in Int
                         /\ Lo[d] \in Int /\ Hi[d] \in Int /\ Lo[d] <= Hi[d]
                         /\ \A s \in Structures : scene.at[s][d] \in Int
<1>1. sel.a \in Place /\ sel.b \in Place
  BY CaptureAssumption DEF Types, Complete
<1>2. ASSUME NEW p \in Place, NEW d \in Axes PROVE p[d] \in Int
  BY DEF Place, Axes
<1>3. \A s \in Structures : scene.at[s] \in Place
  BY DEF Types, Scene
<1>4. Margin \in Nat
  BY CaptureAssumption
<1> QED BY <1>1, <1>2, <1>3, <1>4 DEF Lo, Hi, Least, Most, Axes

LEMMA OffsetType ==
  ASSUME Types, Complete, NEW s \in Structures
  PROVE  [d \in {"x", "y", "z"} |-> scene.at[s][d] - Lo[d]] \in Place
BY BoxTypes DEF Axes, Place

LEMMA ToSetFacts ==
  ASSUME NEW S, NEW s \in Seq(S)
  PROVE  \A t : t \in ToSet(s) <=> \E i \in 1..Len(s) : s[i] = t
BY DEF ToSet

\* Where a kept structure is in kept, and what PieceOf reads there.
LEMMA IndexFacts ==
  ASSUME Types, NEW t \in ToSet(kept)
  PROVE  IndexOf(t) \in 1..Len(kept) /\ kept[IndexOf(t)] = t
<1>1. \E k \in DOMAIN kept : kept[k] = t
  BY DEF ToSet
<1> QED BY <1>1 DEF IndexOf, Types

LEMMA PieceOfType ==
  ASSUME Types, Len(kept_to_piece) = Len(kept)
  PROVE  \A t : PieceOf(t) \in Nat
<1> TAKE t
<1>1. CASE t \notin ToSet(kept)
  BY <1>1 DEF PieceOf
<1>2. CASE t \in ToSet(kept)
  <2>1. IndexOf(t) \in 1..Len(kept_to_piece)
    BY <1>2, IndexFacts
  <2> QED BY <1>2, <2>1 DEF PieceOf, Types
<1> QED BY <1>1, <1>2

LEMMA NoStatsType == NoStats \in Stats
BY DEF NoStats, Stats

LEMMA CountedOnce ==
  ASSUME NEW t \in Stats
  PROVE  /\ [t EXCEPT !.in_box = @ + 1] \in Stats
         /\ [t EXCEPT !.near_miss = @ + 1] \in Stats
         /\ [t EXCEPT !.no_transform = @ + 1] \in Stats
         /\ [t EXCEPT !.no_path = @ + 1] \in Stats
BY DEF Stats

LEMMA LinksCounted ==
  ASSUME NEW t \in Stats, NEW f \in Nat, NEW l \in Nat, NEW o \in Nat
  PROVE  [t EXCEPT !.floors_captured = @ + f, !.links_captured = @ + l,
                   !.links_outside = @ + o] \in Stats
<1>1. [t EXCEPT !.floors_captured = @ + f] \in Stats
  BY DEF Stats
<1>2. ASSUME NEW u \in Stats PROVE [u EXCEPT !.links_captured = @ + l] \in Stats
  BY DEF Stats
<1>3. ASSUME NEW u \in Stats PROVE [u EXCEPT !.links_outside = @ + o] \in Stats
  BY DEF Stats
<1>4. [[t EXCEPT !.floors_captured = @ + f] EXCEPT !.links_captured = @ + l] \in Stats
  BY <1>1, <1>2
<1> QED BY <1>3, <1>4

LEMMA Rewired ==
  ASSUME NEW q \in Seq(PieceType), NEW n, NEW f \in Nat, NEW l \in Seq(Nat)
  PROVE  LET r == [q EXCEPT ![n].floor = f, ![n].links = l]
         IN  /\ r \in Seq(PieceType)
             /\ Len(r) = Len(q)
             /\ \A i \in 1..Len(q) : /\ i # n => r[i] = q[i]
                                     /\ i = n => /\ r[i].floor = f
                                                 /\ r[i].links = l
                                                 /\ r[i].class_index = q[i].class_index
                                                 /\ r[i].at = q[i].at
<1> DEFINE r == [q EXCEPT ![n].floor = f, ![n].links = l]
<1>1. Len(q) \in Nat /\ DOMAIN q = 1..Len(q) /\ \A i \in 1..Len(q) : q[i] \in PieceType
  OBVIOUS
<1>2. DOMAIN r = DOMAIN q
  OBVIOUS
<1>3. ASSUME NEW i \in DOMAIN q, i # n PROVE r[i] = q[i]
  BY <1>3
<1>4. ASSUME n \in DOMAIN q
      PROVE  r[n] = [q[n] EXCEPT !.floor = f, !.links = l]
  BY <1>4
<1>5. ASSUME n \in DOMAIN q
      PROVE  r[n] \in PieceType /\ r[n].floor = f /\ r[n].links = l
             /\ r[n].class_index = q[n].class_index /\ r[n].at = q[n].at
  <2>1. q[n] \in PieceType
    BY <1>1, <1>5
  <2> HIDE DEF r
  <2> QED BY <1>4, <1>5, <2>1 DEF PieceType
<1> HIDE DEF r
<1>6. \A i \in DOMAIN q : r[i] \in PieceType
  BY <1>1, <1>3, <1>5
<1>7. r \in [1..Len(q) -> PieceType]
  <2>1. r = [i \in DOMAIN q |-> r[i]]
    BY DEF r
  <2> QED BY <1>1, <1>2, <1>6, <2>1
<1>8. r \in Seq(PieceType) /\ Len(r) = Len(q)
  BY <1>1, <1>7
<1> QED BY <1>1, <1>3, <1>5, <1>8 DEF r

LEMMA TypesInit == Init => Types
<1> SUFFICES ASSUME Init PROVE Types
  OBVIOUS
<1>1. scene \in Scene
  BY CaptureAssumption DEF Init
<1>2. sel \in [a: Corners \cup {NoCorner}, b: Corners \cup {NoCorner}]
  BY DEF Init
<1>3. /\ found \in Seq(Structures) /\ kept \in Seq(Structures) /\ kept_to_piece \in Seq(Nat)
      /\ classes \in Seq(Classes) /\ pieces \in Seq(PieceType)
  BY DEF Init
<1>4. ~Ready /\ phase = "idle" /\ saved = FALSE /\ cursor = 0 /\ stats \in Stats
  BY NoStatsType DEF Init, Ready
<1> QED BY <1>1, <1>2, <1>3, <1>4 DEF Types

LEMMA FoundType ==
  ASSUME Types, Complete, NEW f \in SetToSeqs(Collected)
  PROVE  /\ f \in Seq(Structures)
         /\ IsFiniteSet(Collected) /\ Cardinality(Collected) \in Nat
         /\ Len(f) = Cardinality(Collected)
         /\ f \in Injection(1..Len(f), Collected)
<1>1. Collected \subseteq Structures
  BY DEF Collected, Types, Scene
<1>2. IsFiniteSet(Collected) /\ Cardinality(Collected) \in Nat
  BY <1>1, CaptureAssumption, FS_Subset, FS_CardinalityType
<1>3. /\ f \in [1..Cardinality(Collected) -> Collected]
      /\ \A i, j \in 1..Cardinality(Collected) : i # j => f[i] # f[j]
  BY DEF SetToSeqs
<1>4. f \in Seq(Structures) /\ Len(f) = Cardinality(Collected)
  BY <1>1, <1>2, <1>3
<1>5. f \in Injection(1..Len(f), Collected)
  BY <1>3, <1>4 DEF Injection, IsInjective
<1> QED BY <1>2, <1>4, <1>5

LEMMA TypesStep == Types /\ [Next]_vars => Types'
<1> SUFFICES ASSUME Types, [Next]_vars PROVE Types'
  OBVIOUS
<1> USE DEF Types, Ready, Complete
<1>1. CASE UNCHANGED vars
  BY <1>1 DEF vars
<1>2. ASSUME NEW which \in {"a", "b"}, NEW p \in Corners, SetCorner(which, p) PROVE Types'
  BY <1>2 DEF SetCorner
<1>3. CASE ClearSelection
  BY <1>3 DEF ClearSelection
<1>4. CASE HandleSave
  <2>1. Complete
    BY <1>4 DEF HandleSave
  <2>2. PICK f \in SetToSeqs(Collected) : found' = f
    BY <1>4 DEF HandleSave
  <2>3. found' \in Seq(Structures)
    BY <2>1, <2>2, FoundType
  <2>4. NoStats \in Stats
    BY NoStatsType
  <2>5. cursor' <= Len(found')
    <3>1. Len(found') \in Nat
      BY <2>3
    <3> QED BY <1>4, <3>1 DEF HandleSave
  <2>6. kept' \in Seq(Structures) /\ kept_to_piece' \in Seq(Nat) /\ classes' \in Seq(Classes)
        /\ pieces' \in Seq(PieceType)
    BY <1>4 DEF HandleSave
  <2>7. /\ UNCHANGED <<scene, sel>> /\ phase' = "keep" /\ saved' = FALSE /\ cursor' = 0
        /\ stats' \in Stats
    BY <1>4, <2>4 DEF HandleSave
  <2> QED BY <2>1, <2>3, <2>5, <2>6, <2>7
<1>5. CASE Keep
  <2>1. found[cursor + 1] \in Structures
    BY <1>5 DEF Keep
  <2>2. stats' \in Stats
    <3> HIDE DEF Types
    <3>1. stats \in Stats
      BY DEF Types
    <3>2. stats' \in {stats, [stats EXCEPT !.in_box = @ + 1],
                      [stats EXCEPT !.near_miss = @ + 1],
                      [stats EXCEPT !.no_transform = @ + 1]}
      BY <1>5 DEF Keep, Passed
    <3> QED BY <3>1, <3>2, CountedOnce
  <2>3. kept' \in Seq(Structures)
    <3>1. kept' = kept \/ kept' = Append(kept, found[cursor + 1])
      BY <1>5 DEF Keep
    <3>2. kept \in Seq(Structures)
      OBVIOUS
    <3> HIDE DEF Types
    <3> QED BY <2>1, <3>1, <3>2
  <2> QED BY <1>5, <2>2, <2>3 DEF Keep
<1>6. CASE KeepEnds
  <2>1. kept_to_piece' \in [1..Len(kept) -> Nat] /\ Len(kept) \in Nat
    BY <1>6 DEF KeepEnds
  <2>2. kept_to_piece' \in Seq(Nat) /\ Len(kept_to_piece') = Len(kept)
    <3> HIDE DEF Types
    <3> QED BY <2>1
  <2> QED BY <1>6, <2>2 DEF KeepEnds
<1>7. CASE MakePiece
  <2> DEFINE s == kept[cursor + 1]
             c == scene.path[s]
             made == [class_index |-> Intern(c),
                      at |-> [d \in {"x", "y", "z"} |-> scene.at[s][d] - Lo[d]],
                      floor |-> 0, links |-> <<>>]
  <2>1. s \in Structures /\ c \in Classes \cup {NoPath}
    BY <1>7 DEF MakePiece, Scene
  <2>2. CASE c = NoPath
    <3>1. stats' \in Stats
      <4>1. stats' = [stats EXCEPT !.no_path = @ + 1] /\ stats \in Stats
        BY <1>7, <2>2 DEF MakePiece
      <4> QED BY <4>1, CountedOnce
    <3> QED BY <1>7, <2>2, <3>1 DEF MakePiece
  <2>3. CASE c # NoPath
    <3>1. Intern(c) \in Nat
      <4>1. CASE c \in ToSet(classes)
        <5>1. \E i \in DOMAIN classes : classes[i] = c
          BY <4>1 DEF ToSet
        <5> QED BY <4>1, <5>1 DEF Intern
      <4>2. CASE c \notin ToSet(classes)
        BY <4>2 DEF Intern
      <4> QED BY <4>1, <4>2
    <3>2. made.at \in Place
      BY <1>7, <2>1, OffsetType DEF MakePiece
    <3>3. made \in PieceType
      BY <3>1, <3>2 DEF PieceType
    <3>4. pieces' = Append(pieces, made)
      BY <1>7, <2>3 DEF MakePiece
    <3>5. pieces' \in Seq(PieceType)
      <4> HIDE DEF made
      <4> QED BY <3>3, <3>4
    <3>6. classes' \in Seq(Classes)
      <4>1. c \in Classes
        BY <2>1, <2>3
      <4>2. classes' = IF c \in ToSet(classes) THEN classes ELSE Append(classes, c)
        BY <1>7, <2>3 DEF MakePiece
      <4> HIDE DEF c
      <4> QED BY <4>1, <4>2
    <3>7. NextIndex \in Nat
      BY DEF NextIndex
    <3>8. kept_to_piece' \in Seq(Nat) /\ Len(kept_to_piece') = Len(kept_to_piece)
      <4>1. /\ kept_to_piece \in Seq(Nat)
            /\ kept_to_piece' = [kept_to_piece EXCEPT ![cursor + 1] = NextIndex]
        BY <1>7, <2>3 DEF MakePiece
      <4> HIDE DEF Types
      <4>2. /\ Len(kept_to_piece) \in Nat /\ DOMAIN kept_to_piece = 1..Len(kept_to_piece)
            /\ \A i \in 1..Len(kept_to_piece) : kept_to_piece[i] \in Nat
        BY <4>1
      <4>3. kept_to_piece' = [i \in 1..Len(kept_to_piece) |->
                                IF i = cursor + 1 THEN NextIndex ELSE kept_to_piece[i]]
        BY <4>1, <4>2
      <4>4. kept_to_piece' \in [1..Len(kept_to_piece) -> Nat]
        BY <3>7, <4>2, <4>3
      <4> QED BY <4>2, <4>4
    <3> QED BY <1>7, <2>3, <3>5, <3>6, <3>8, SMTT(30) DEF MakePiece
  <2> QED BY <2>2, <2>3
<1>8. CASE MakeEnds
  BY <1>8 DEF MakeEnds
<1>9. CASE LinkPiece
  <2> DEFINE s == kept[cursor + 1]
             self == kept_to_piece[cursor + 1]
             floor == IF scene.floor[s] = NoFloor THEN 0 ELSE PieceOf(scene.floor[s])
             usable == {t \in Structures : PieceOf(t) \notin {0, self}}
             outside == Structures \ ToSet(kept)
             targets == Among(scene.linked[s], usable)
             links == [i \in DOMAIN targets |-> PieceOf(targets[i])]
  <2>0. phase = "link" /\ cursor < Len(kept) /\ Len(kept_to_piece) = Len(kept)
    BY <1>9 DEF LinkPiece
  <2>1. CASE self = 0
    BY <1>9, <2>1 DEF LinkPiece
  <2>2. CASE self # 0
    <3>1. s \in Structures /\ scene.linked[s] \in Seq(Structures)
      BY <2>0 DEF Scene
    <3>2. targets \in Seq(Structures) /\ Len(targets) \in Nat
      <4>1. targets \in Seq(Structures)
        BY <3>1, AmongFacts
      <4> QED BY <4>1
    <3>3. Len(Among(scene.linked[s], outside)) \in Nat
      <4>1. Among(scene.linked[s], outside) \in Seq(Structures)
        BY <3>1, AmongFacts
      <4> QED BY <4>1
    <3>4. \A t : PieceOf(t) \in Nat
      BY <2>0, PieceOfType
    <3>5. floor \in Nat
      BY <3>4
    <3>6. links \in Seq(Nat)
      <4> HIDE DEF targets
      <4>1. links \in [1..Len(targets) -> Nat]
        BY <3>2, <3>4
      <4> QED BY <3>2, <4>1
    <3>7. /\ pieces' = [pieces EXCEPT ![self].floor = IF floor # self THEN floor ELSE 0,
                                      ![self].links = links]
          /\ stats' = [stats EXCEPT
                         !.floors_captured = @ + (IF floor \notin {0, self} THEN 1 ELSE 0),
                         !.links_captured = @ + Len(targets),
                         !.links_outside = @ + Len(Among(scene.linked[s], outside))]
      BY <1>9, <2>2 DEF LinkPiece
    <3> HIDE DEF links, floor, targets, self, outside
    <3>8. pieces' \in Seq(PieceType)
      <4>1. (IF floor # self THEN floor ELSE 0) \in Nat /\ pieces \in Seq(PieceType)
        BY <3>5
      <4> QED BY <3>6, <3>7, <4>1, Rewired
    <3>9. stats' \in Stats
      <4>1. (IF floor \notin {0, self} THEN 1 ELSE 0) \in Nat /\ stats \in Stats
        OBVIOUS
      <4> QED BY <3>2, <3>3, <3>7, <4>1, LinksCounted
    <3> QED BY <1>9, <3>8, <3>9 DEF LinkPiece
  <2> QED BY <2>1, <2>2
<1>10. CASE LinkEnds
  BY <1>10 DEF LinkEnds
<1> QED BY <1>1, <1>2, <1>3, <1>4, <1>5, <1>6, <1>7, <1>8, <1>9, <1>10 DEF Next

----------------------------------------------------------------------------
(* What was found, kept and passed over *)

\* A step breaks off what was going on, starts a save, or goes on with one.
LEMMA StepKinds ==
  ASSUME Types, [Next]_vars
  PROVE  \/ ~Ready'
         \/ HandleSave
         \/ Ready /\ UNCHANGED <<scene, sel, found>>
<1>1. CASE UNCHANGED vars
  BY <1>1 DEF vars, Ready
<1>2. CASE Next
  BY <1>2 DEF Next, SetCorner, ClearSelection, Keep, KeepEnds, MakePiece, MakeEnds, LinkPiece,
              LinkEnds, Ready, Types
<1> QED BY <1>1, <1>2

FoundInv ==
  Ready => found \in Injection(1..Len(found), Collected) /\ Len(found) = Cardinality(Collected)

LEMMA FoundStep ==
  ASSUME Types, Types', FoundInv, [Next]_vars
  PROVE  FoundInv'
<1>1. CASE ~Ready'
  BY <1>1 DEF FoundInv
<1>2. CASE HandleSave
  <2>1. PICK f \in SetToSeqs(Collected) : found' = f
    BY <1>2 DEF HandleSave
  <2>2. UNCHANGED <<scene, sel>> /\ Complete
    BY <1>2 DEF HandleSave
  <2>3. Collected' = Collected
    BY <2>2 DEF Collected, InSphere, Lo, Hi
  <2>4. f \in Injection(1..Len(f), Collected) /\ Len(f) = Cardinality(Collected)
    BY <2>2, FoundType
  <2> QED BY <2>1, <2>3, <2>4 DEF FoundInv
<1>3. CASE Ready /\ UNCHANGED <<scene, sel, found>>
  <2>1. Collected' = Collected
    BY <1>3 DEF Collected, InSphere, Lo, Hi
  <2> QED BY <1>3, <2>1 DEF FoundInv
<1> QED BY <1>1, <1>2, <1>3, StepKinds

\* Every actor the octree returned is in found.
LEMMA FoundAll ==
  ASSUME Types, FoundInv, Ready, NEW t \in Collected
  PROVE  \E i \in 1..Len(found) : found[i] = t
<1>1. Complete
  BY DEF Types
<1>2. Collected \subseteq Structures
  BY DEF Collected, Types, Scene
<1>3. IsFiniteSet(Collected)
  BY <1>2, CaptureAssumption, FS_Subset
<1>4. Len(found) \in Nat
  BY DEF Types
<1>5. IsFiniteSet(1..Len(found)) /\ Cardinality(1..Len(found)) = Len(found)
  BY <1>4, UpTo
<1>6. found \in Surjection(1..Len(found), Collected)
  BY <1>3, <1>5, FS_Injection DEF FoundInv
<1> QED BY <1>6 DEF Surjection

Fits(t) == t \in scene.readable /\ InBox(scene.at[t])
Misses(t) == t \in scene.readable /\ NearMiss(scene.at[t])

FittingAt(n) == {i \in 1..n : Fits(found[i])}
MissingAt(n) == {i \in 1..n : Misses(found[i])}
UnreadableAt(n) == {i \in 1..n : found[i] \notin scene.readable}

\* How far the first pass has come.
Seen == IF phase = "keep" THEN cursor ELSE Len(found)

\* Each of those seen is kept, counted as a near miss, counted as unreadable,
\* or neither near nor in the box.
KeptInv ==
  Ready =>
    /\ \A i, j \in 1..Len(kept) : kept[i] = kept[j] => i = j
    /\ \A t : t \in ToSet(kept) <=> \E i \in FittingAt(Seen) : found[i] = t
    /\ stats.near_miss = Cardinality(MissingAt(Seen))
    /\ stats.no_transform = Cardinality(UnreadableAt(Seen))

LEMMA SameSeen ==
  ASSUME UNCHANGED <<scene, sel, found>>
  PROVE  \A n : /\ FittingAt(n)' = FittingAt(n)
                /\ MissingAt(n)' = MissingAt(n)
                /\ UnreadableAt(n)' = UnreadableAt(n)
BY DEF FittingAt, MissingAt, UnreadableAt, Fits, Misses, InBox, NearMiss, Lo, Hi

\* One more number below n that a condition may hold of.
LEMMA OneMore ==
  ASSUME NEW n \in Nat, NEW A, NEW B, A \subseteq 1..n,
         B = A \/ B = A \cup {n + 1}
  PROVE  /\ IsFiniteSet(A) /\ Cardinality(A) \in Nat
         /\ Cardinality(B) = Cardinality(A) + (IF n + 1 \in B THEN 1 ELSE 0)
<1>1. n + 1 \notin A
  OBVIOUS
<1>2. IsFiniteSet(A)
  BY UpTo, FS_Subset
<1>3. Cardinality(A) \in Nat
  BY <1>2, FS_CardinalityType
<1>4. CASE B = A
  BY <1>1, <1>2, <1>3, <1>4
<1>5. CASE B = A \cup {n + 1}
  <2>1. Cardinality(B) = Cardinality(A) + 1
    BY <1>1, <1>2, <1>5, FS_AddElement
  <2> QED BY <1>2, <1>3, <1>5, <2>1
<1> QED BY <1>4, <1>5

LEMMA SeenSteps ==
  ASSUME NEW n \in Nat
  PROVE  /\ FittingAt(n + 1) = FittingAt(n) \cup (IF Fits(found[n+1]) THEN {n+1} ELSE {})
         /\ MissingAt(n + 1) = MissingAt(n) \cup (IF Misses(found[n+1]) THEN {n+1} ELSE {})
         /\ UnreadableAt(n + 1) =
              UnreadableAt(n) \cup (IF found[n+1] \notin scene.readable THEN {n+1} ELSE {})
<1>1. \A i : i \in 1..(n+1) <=> i \in 1..n \/ i = n + 1
  OBVIOUS
<1> QED BY <1>1 DEF FittingAt, MissingAt, UnreadableAt

\* Appending a structure that was not there.
LEMMA AppendedKept ==
  ASSUME NEW S, NEW q \in Seq(S), NEW x \in S
  PROVE  LET r == Append(q, x)
         IN  /\ Len(r) = Len(q) + 1
             /\ \A i \in 1..Len(q) : r[i] = q[i]
             /\ r[Len(q) + 1] = x
             /\ \A t : t \in ToSet(r) <=> t \in ToSet(q) \/ t = x
<1> DEFINE r == Append(q, x)
<1>1. /\ Len(q) \in Nat /\ r \in Seq(S) /\ Len(r) = Len(q) + 1
      /\ \A i \in 1..Len(q) : r[i] = q[i]
      /\ r[Len(q) + 1] = x
  OBVIOUS
<1>2. \A t : t \in ToSet(r) <=> \E i \in 1..(Len(q) + 1) : r[i] = t
  <2> HIDE DEF r
  <2> QED BY <1>1, ToSetFacts
<1>3. \A t : t \in ToSet(q) <=> \E i \in 1..Len(q) : q[i] = t
  BY ToSetFacts
<1>4. \A i : i \in 1..(Len(q) + 1) <=> i \in 1..Len(q) \/ i = Len(q) + 1
  BY <1>1
<1> HIDE DEF r
<1>5. \A t : t \in ToSet(r) <=> t \in ToSet(q) \/ t = x
  BY <1>1, <1>2, <1>3, <1>4
<1> QED BY <1>1, <1>5 DEF r

LEMMA KeptStep ==
  ASSUME Types, Types', FoundInv, KeptInv, [Next]_vars
  PROVE  KeptInv'
<1>1. CASE ~Ready'
  BY <1>1 DEF KeptInv
<1>2. CASE HandleSave
  <2>1. kept' = <<>> /\ stats' = NoStats /\ Seen' = 0
    BY <1>2 DEF HandleSave, Seen
  <2>2. FittingAt(0)' = {} /\ MissingAt(0)' = {} /\ UnreadableAt(0)' = {}
    BY DEF FittingAt, MissingAt, UnreadableAt
  <2>3. ToSet(kept') = {} /\ Len(kept') = 0
    BY <2>1 DEF ToSet
  <2>4. stats'.near_miss = 0 /\ stats'.no_transform = 0
    BY <2>1 DEF NoStats
  <2>5. Cardinality({}) = 0
    BY FS_EmptySet
  <2>6. FittingAt(Seen)' = {} /\ MissingAt(Seen)' = {} /\ UnreadableAt(Seen)' = {}
    BY <2>1, <2>2 DEF FittingAt, MissingAt, UnreadableAt
  <2> QED BY <2>3, <2>4, <2>5, <2>6 DEF KeptInv
<1>3. CASE Ready /\ UNCHANGED <<scene, sel, found>>
  <2>1. \A n : /\ FittingAt(n)' = FittingAt(n) /\ MissingAt(n)' = MissingAt(n)
               /\ UnreadableAt(n)' = UnreadableAt(n)
    BY <1>3, SameSeen
  <2>2. CASE Keep
    <3> DEFINE x == found[cursor + 1]
    <3>1. /\ phase = "keep" /\ phase' = "keep" /\ cursor \in Nat /\ cursor < Len(found)
          /\ Seen = cursor /\ Seen' = cursor + 1 /\ Len(found) \in Nat
          /\ cursor + 1 \in 1..Len(found) /\ x \in Structures
      BY <2>2 DEF Keep, Seen, Types
    <3>2. /\ FittingAt(Seen)' = FittingAt(cursor) \cup (IF Fits(x) THEN {cursor + 1} ELSE {})
          /\ MissingAt(Seen)' = MissingAt(cursor) \cup (IF Misses(x) THEN {cursor + 1} ELSE {})
          /\ UnreadableAt(Seen)' =
               UnreadableAt(cursor) \cup (IF x \notin scene.readable THEN {cursor + 1} ELSE {})
      <4>1. /\ FittingAt(Seen)' = FittingAt(cursor + 1)
            /\ MissingAt(Seen)' = MissingAt(cursor + 1)
            /\ UnreadableAt(Seen)' = UnreadableAt(cursor + 1)
        BY <1>3, <3>1 DEF FittingAt, MissingAt, UnreadableAt, Fits, Misses, InBox, NearMiss, Lo, Hi
      <4> QED BY <3>1, <4>1, SeenSteps
    <3>3. /\ FittingAt(cursor) \subseteq 1..cursor /\ MissingAt(cursor) \subseteq 1..cursor
          /\ UnreadableAt(cursor) \subseteq 1..cursor
      BY DEF FittingAt, MissingAt, UnreadableAt
    <3>4. ~(Fits(x) /\ Misses(x)) /\ (Fits(x) \/ Misses(x) => x \in scene.readable)
      BY DEF Fits, Misses, NearMiss
    <3>5. /\ stats'.near_miss = stats.near_miss + (IF Misses(x) THEN 1 ELSE 0)
          /\ stats'.no_transform = stats.no_transform + (IF x \notin scene.readable THEN 1 ELSE 0)
      <4>1. stats \in Stats
        BY DEF Types
      <4>2. CASE Fits(x)
        <5>1. stats' = [stats EXCEPT !.in_box = @ + 1]
          BY <2>2, <4>2 DEF Keep, Fits
        <5> QED BY <3>4, <4>1, <4>2, <5>1 DEF Stats
      <4>3. CASE x \notin scene.readable
        <5>1. stats' = [stats EXCEPT !.no_transform = @ + 1]
          BY <2>2, <4>3 DEF Keep, Passed
        <5> QED BY <3>4, <4>1, <4>3, <5>1 DEF Stats
      <4>4. CASE Misses(x)
        <5>1. stats' = [stats EXCEPT !.near_miss = @ + 1]
          BY <2>2, <3>4, <4>4 DEF Keep, Passed, Misses, Fits
        <5> QED BY <3>4, <4>1, <4>4, <5>1 DEF Stats
      <4>5. CASE x \in scene.readable /\ ~Fits(x) /\ ~Misses(x)
        <5>1. stats' = stats
          BY <2>2, <4>5 DEF Keep, Passed, Misses, Fits
        <5> QED BY <4>1, <4>5, <5>1 DEF Stats
      <4> QED BY <4>2, <4>3, <4>4, <4>5
    <3>6. cursor + 1 \notin MissingAt(cursor) /\ cursor + 1 \notin UnreadableAt(cursor)
      BY <3>1, <3>3
    <3>7. Cardinality(MissingAt(Seen)') = Cardinality(MissingAt(cursor)) + (IF Misses(x) THEN 1 ELSE 0)
      <4> DEFINE A == MissingAt(cursor)
                 B == MissingAt(Seen)'
      <4>1. A \subseteq 1..cursor /\ (B = A \/ B = A \cup {cursor + 1})
            /\ (cursor + 1 \in B <=> Misses(x))
        BY <3>2, <3>3, <3>6
      <4> HIDE DEF A, B
      <4>2. Cardinality(B) = Cardinality(A) + (IF cursor + 1 \in B THEN 1 ELSE 0)
        BY <3>1, <4>1, OneMore
      <4> QED BY <4>1, <4>2 DEF A, B
    <3>8. Cardinality(UnreadableAt(Seen)') =
            Cardinality(UnreadableAt(cursor)) + (IF x \notin scene.readable THEN 1 ELSE 0)
      <4> DEFINE A == UnreadableAt(cursor)
                 B == UnreadableAt(Seen)'
      <4>1. A \subseteq 1..cursor /\ (B = A \/ B = A \cup {cursor + 1})
            /\ (cursor + 1 \in B <=> x \notin scene.readable)
        BY <3>2, <3>3, <3>6
      <4> HIDE DEF A, B
      <4>2. Cardinality(B) = Cardinality(A) + (IF cursor + 1 \in B THEN 1 ELSE 0)
        BY <3>1, <4>1, OneMore
      <4> QED BY <4>1, <4>2 DEF A, B
    <3>9. stats'.near_miss = Cardinality(MissingAt(Seen)')
          /\ stats'.no_transform = Cardinality(UnreadableAt(Seen)')
      BY <1>3, <3>1, <3>5, <3>7, <3>8 DEF KeptInv
    <3>10. \A t : t \in ToSet(kept) <=> \E i \in FittingAt(cursor) : found[i] = t
      BY <1>3, <3>1 DEF KeptInv
    <3>11. CASE ~Fits(x)
      <4>1. kept' = kept
        BY <2>2, <3>11 DEF Keep, Fits
      <4>2. FittingAt(Seen)' = FittingAt(cursor)
        BY <3>2, <3>11
      <4> QED BY <1>3, <3>9, <3>10, <4>1, <4>2 DEF KeptInv
    <3>12. CASE Fits(x)
      <4>1. kept' = Append(kept, x) /\ kept \in Seq(Structures)
        BY <2>2, <3>12 DEF Keep, Fits, Types
      <4>2. /\ Len(kept) \in Nat
            /\ Len(kept') = Len(kept) + 1
            /\ \A i \in 1..Len(kept) : kept'[i] = kept[i]
            /\ kept'[Len(kept) + 1] = x
            /\ \A t : t \in ToSet(kept') <=> t \in ToSet(kept) \/ t = x
        <5> HIDE DEF x
        <5> QED BY <3>1, <4>1, AppendedKept
      <4>3. \A i \in 1..Len(kept) : kept[i] # x
        <5> SUFFICES ASSUME NEW i \in 1..Len(kept), kept[i] = x PROVE FALSE
          OBVIOUS
        <5>1. x \in ToSet(kept)
          BY <4>1, ToSetFacts
        <5>2. PICK j \in FittingAt(cursor) : found[j] = x
          BY <3>10, <5>1
        <5>3. j \in 1..cursor /\ j \in 1..Len(found) /\ j # cursor + 1
          BY <3>1, <3>3, <5>2
        <5> QED BY <1>3, <3>1, <5>2, <5>3 DEF FoundInv, Injection, IsInjective
      <4>4. \A i, j \in 1..Len(kept') : kept'[i] = kept'[j] => i = j
        <5>1. \A i \in 1..Len(kept') : i \in 1..Len(kept) \/ i = Len(kept) + 1
          BY <4>2
        <5>2. \A i, j \in 1..Len(kept) : kept[i] = kept[j] => i = j
          BY <1>3 DEF KeptInv
        <5> QED BY <4>2, <4>3, <5>1, <5>2
      <4>5. \A t : t \in ToSet(kept') <=> \E i \in FittingAt(Seen)' : found[i] = t
        BY <3>2, <3>10, <3>12, <4>2
      <4> QED BY <1>3, <3>9, <4>4, <4>5 DEF KeptInv
    <3> QED BY <3>11, <3>12
  <2>3. CASE ~Keep /\ ~HandleSave /\ Ready'
    <3>1. /\ UNCHANGED kept /\ Seen' = Seen
          /\ stats'.near_miss = stats.near_miss /\ stats'.no_transform = stats.no_transform
      <4>1. CASE UNCHANGED vars
        BY <4>1 DEF vars, Seen
      <4>2. CASE KeepEnds
        BY <2>3, <4>2 DEF KeepEnds, Seen, Ready
      <4>3. CASE MakePiece
        <5>1. stats' = stats \/ stats' = [stats EXCEPT !.no_path = @ + 1]
          BY <4>3 DEF MakePiece
        <5>2. stats'.near_miss = stats.near_miss /\ stats'.no_transform = stats.no_transform
          BY <5>1 DEF Types, Stats
        <5> QED BY <4>3, <5>2 DEF MakePiece, Seen
      <4>4. CASE MakeEnds
        BY <4>4 DEF MakeEnds, Seen
      <4>5. CASE LinkPiece
        <5> DEFINE self == kept_to_piece[cursor + 1]
                   floor == IF scene.floor[kept[cursor + 1]] = NoFloor THEN 0
                            ELSE PieceOf(scene.floor[kept[cursor + 1]])
                   targets == Among(scene.linked[kept[cursor + 1]],
                                    {t \in Structures : PieceOf(t) \notin {0, self}})
                   others == Among(scene.linked[kept[cursor + 1]], Structures \ ToSet(kept))
        <5>1. \/ stats' = stats
              \/ stats' = [stats EXCEPT
                   !.floors_captured = @ + (IF floor \notin {0, self} THEN 1 ELSE 0),
                   !.links_captured = @ + Len(targets),
                   !.links_outside = @ + Len(others)]
          BY <4>5 DEF LinkPiece
        <5> HIDE DEF floor, targets, others, self
        <5>2. stats'.near_miss = stats.near_miss /\ stats'.no_transform = stats.no_transform
          BY <5>1 DEF Types, Stats
        <5> QED BY <4>5, <5>2 DEF LinkPiece, Seen
      <4>6. CASE LinkEnds
        BY <4>6 DEF LinkEnds, Seen
      <4>7. ASSUME NEW which \in {"a", "b"}, NEW p \in Corners, SetCorner(which, p) PROVE ~Ready'
        BY <4>7 DEF SetCorner, Ready
      <4>8. ClearSelection => ~Ready'
        BY DEF ClearSelection, Ready
      <4> QED BY <2>3, <4>1, <4>2, <4>3, <4>4, <4>5, <4>6, <4>7, <4>8 DEF Next
    <3>2. FittingAt(Seen)' = FittingAt(Seen) /\ MissingAt(Seen)' = MissingAt(Seen)
          /\ UnreadableAt(Seen)' = UnreadableAt(Seen)
      BY <1>3, <3>1 DEF FittingAt, MissingAt, UnreadableAt, Fits, Misses, InBox, NearMiss, Lo, Hi
    <3> QED BY <1>3, <3>1, <3>2 DEF KeptInv
  <2> QED BY <1>1, <1>2, <2>2, <2>3
<1> QED BY <1>1, <1>2, <1>3, StepKinds

----------------------------------------------------------------------------
(* Kept structures and their pieces *)

\* Those with a class that can be named, by their place in kept.
Nameable == {t \in Structures : scene.path[t] # NoPath}
Named == PlacesOf(kept, Nameable)

\* The number of the piece made of the one at k.
Number(k) == Rank(Named, k)

LEMMA NamedFacts ==
  ASSUME Types
  PROVE  /\ Len(kept) \in Nat
         /\ Named \subseteq 1..Len(kept) /\ IsFiniteSet(Named)
         /\ \A k \in Named : kept[k] \in Nameable
         /\ \A k \in 1..Len(kept) : k \in Named <=> scene.path[kept[k]] # NoPath
<1>1. kept \in Seq(Structures) /\ Len(kept) \in Nat /\ DOMAIN kept = 1..Len(kept)
      /\ \A k \in 1..Len(kept) : kept[k] \in Structures
  BY DEF Types
<1>2. Named \subseteq 1..Len(kept) /\ IsFiniteSet(Named)
  BY <1>1, PlacesFacts DEF Named
<1> QED BY <1>1, <1>2 DEF Named, PlacesOf, Nameable

LEMMA NumberFacts ==
  ASSUME Types
  PROVE  /\ Number(0) = 0
         /\ \A n \in Nat : /\ Number(n) \in Nat
                           /\ Number(n + 1) = Number(n) + (IF n + 1 \in Named THEN 1 ELSE 0)
         /\ \A k \in Named : k \in Nat /\ Number(k) # 0
         /\ \A j, k \in Named : Number(j) = Number(k) => j = k
         /\ \A j, k \in Nat : j <= k => Number(j) <= Number(k)
<1>1. Named \subseteq Nat \ {0} /\ Named \subseteq Int /\ IsFiniteSet(Named)
  BY NamedFacts
<1>2. /\ \A k \in Named : Number(k) \in 1..Cardinality(Named)
      /\ Cardinality(Named) \in Nat
      /\ \A j, k \in Named : j < k => Number(j) < Number(k)
  <2>1. ASSUME NEW k \in Named
        PROVE  /\ Cardinality(Named) \in Nat
               /\ Rank(Named, k) \in 1..Cardinality(Named)
               /\ \A j \in Named : j < k => Rank(Named, j) < Rank(Named, k)
    BY <1>1, RankFacts
  <2>2. Cardinality(Named) \in Nat
    BY <1>1, FS_CardinalityType
  <2> QED BY <2>1, <2>2 DEF Number
<1>3. \A j, k \in Named : Number(j) = Number(k) => j = k
  <2> SUFFICES ASSUME NEW j \in Named, NEW k \in Named, Number(j) = Number(k), j # k PROVE FALSE
    OBVIOUS
  <2>1. j \in Nat /\ k \in Nat /\ Number(j) \in Nat /\ Number(k) \in Nat
    BY <1>1, <1>2
  <2>2. j < k \/ k < j
    BY <2>1
  <2> QED BY <1>2, <2>1, <2>2
<1>4. /\ Number(0) = 0
      /\ \A n \in Nat : /\ Number(n) \in Nat
                        /\ Number(n + 1) = Number(n) + (IF n + 1 \in Named THEN 1 ELSE 0)
      /\ \A j, k \in Nat : j <= k => Number(j) <= Number(k)
  BY <1>1, RankSteps DEF Number
<1> QED BY <1>1, <1>2, <1>3, <1>4

\* Settled: the kept structures are final, and pieces being made of them.
Settled == phase \in {"make", "link"} \/ saved

\* How far the second pass has come.
Made == IF phase = "make" THEN cursor ELSE Len(kept)

\* The pieces made so far are numbered as the named ones stand in kept, each
\* with a class; the others so far were counted.
PiecesInv ==
  /\ phase = "keep" => pieces = <<>> /\ stats.no_path = 0
  /\ Settled =>
       /\ Len(kept_to_piece) = Len(kept)
       /\ Len(pieces) = Number(Made)
       /\ stats.no_path + Len(pieces) = Made
       /\ \A k \in 1..Len(kept) :
            kept_to_piece[k] = IF k \in Named /\ k <= Made THEN Number(k) ELSE 0
       /\ \A k \in Named :
            k <= Made => /\ pieces[Number(k)].class_index \in 1..Len(classes)
                         /\ classes[pieces[Number(k)].class_index] = scene.path[kept[k]]

LEMMA SameNumbers ==
  ASSUME UNCHANGED <<scene, kept>>
  PROVE  Named' = Named /\ Nameable' = Nameable /\ \A n : Number(n)' = Number(n)
BY DEF Named, Nameable, Number

\* The class dictionary keeps what it has and gains the class asked for.
LEMMA InternFacts ==
  ASSUME Types, NEW c \in Classes,
         NEW r, r = IF c \in ToSet(classes) THEN classes ELSE Append(classes, c)
  PROVE  /\ Len(classes) \in Nat /\ Len(r) \in Nat /\ Len(classes) <= Len(r)
         /\ \A i \in 1..Len(classes) : r[i] = classes[i]
         /\ Intern(c) \in 1..Len(r) /\ r[Intern(c)] = c
<1>1. classes \in Seq(Classes) /\ Len(classes) \in Nat
  BY DEF Types
<1>2. CASE c \in ToSet(classes)
  <2>1. \E i \in DOMAIN classes : classes[i] = c
    BY <1>2 DEF ToSet
  <2>2. Intern(c) \in DOMAIN classes /\ classes[Intern(c)] = c
    BY <1>2, <2>1 DEF Intern
  <2>3. r = classes
    BY <1>2
  <2> QED BY <1>1, <2>2, <2>3
<1>3. CASE c \notin ToSet(classes)
  <2>1. r = Append(classes, c) /\ Intern(c) = Len(classes) + 1
    BY <1>3 DEF Intern
  <2> QED BY <1>1, <2>1
<1> QED BY <1>2, <1>3

LEMMA MadeStep ==
  ASSUME Types, Types', PiecesInv, MakePiece
  PROVE  PiecesInv'
<1> DEFINE n == cursor + 1
           s == kept[n]
           c == scene.path[s]
<1>1. /\ phase = "make" /\ phase' = "make" /\ ~saved' /\ cursor \in Nat /\ cursor' = n
      /\ n \in 1..Len(kept) /\ Len(kept) \in Nat /\ s \in Structures
      /\ Made = cursor /\ Made' = n /\ Settled /\ c \in Classes \cup {NoPath}
  <2>1. /\ phase = "make" /\ phase' = "make" /\ saved' = saved /\ cursor \in Nat /\ cursor' = n
        /\ cursor < Len(kept) /\ kept \in Seq(Structures) /\ scene \in Scene /\ ~saved
    BY DEF MakePiece, Types
  <2>2. Len(kept) \in Nat /\ n \in 1..Len(kept) /\ s \in Structures
    BY <2>1
  <2>3. c \in Classes \cup {NoPath}
    BY <2>1, <2>2 DEF Scene
  <2> QED BY <2>1, <2>2, <2>3 DEF Made, Settled
<1>2. UNCHANGED <<scene, kept>>
  BY DEF MakePiece
<1>3. Named' = Named /\ Nameable' = Nameable /\ \A k : Number(k)' = Number(k)
  BY <1>2, SameNumbers
<1>4. /\ Len(kept_to_piece) = Len(kept)
      /\ Len(pieces) = Number(cursor)
      /\ stats.no_path + Len(pieces) = cursor
      /\ \A k \in 1..Len(kept) :
           kept_to_piece[k] = IF k \in Named /\ k <= cursor THEN Number(k) ELSE 0
      /\ \A k \in Named :
           k <= cursor => /\ pieces[Number(k)].class_index \in 1..Len(classes)
                          /\ classes[pieces[Number(k)].class_index] = scene.path[kept[k]]
  BY <1>1 DEF PiecesInv
<1>5. /\ Number(n) = Number(cursor) + (IF n \in Named THEN 1 ELSE 0)
      /\ Number(cursor) \in Nat
      /\ \A k \in Named : k \in Nat /\ Number(k) \in Nat /\ Number(k) # 0
      /\ \A k \in Named : k <= cursor => Number(k) <= Number(cursor)
  BY <1>1, NumberFacts
<1>6. n \in Named <=> c # NoPath
  BY <1>1, NamedFacts
<1>7. \A k \in Nat : k <= n <=> k <= cursor \/ k = n
  BY <1>1
<1>8. stats \in Stats /\ stats.no_path \in Nat /\ kept_to_piece \in Seq(Nat) /\ pieces \in Seq(PieceType)
      /\ Len(pieces) \in Nat
  BY DEF Types, Stats
<1> HIDE DEF n, s, c
<1>9. SUFFICES
        /\ Len(kept_to_piece') = Len(kept)
        /\ Len(pieces') = Number(n)
        /\ stats'.no_path + Len(pieces') = n
        /\ \A k \in 1..Len(kept) :
             kept_to_piece'[k] = IF k \in Named /\ k <= n THEN Number(k) ELSE 0
        /\ \A k \in Named :
             k <= n => /\ pieces'[Number(k)].class_index \in 1..Len(classes')
                       /\ classes'[pieces'[Number(k)].class_index] = scene.path[kept[k]]
  BY <1>1, <1>2, <1>3 DEF PiecesInv
<1>10. CASE c = NoPath
  <2>1. /\ UNCHANGED <<kept_to_piece, classes, pieces>>
        /\ stats' = [stats EXCEPT !.no_path = @ + 1]
    BY <1>10 DEF MakePiece, n, s, c
  <2>2. stats'.no_path = stats.no_path + 1
    BY <1>8, <2>1 DEF Stats
  <2>3. n \notin Named /\ Number(n) = Number(cursor)
    BY <1>5, <1>6, <1>10
  <2>4. stats'.no_path + Len(pieces') = n
    BY <1>1, <1>4, <1>8, <2>1, <2>2 DEF n
  <2>5. \A k \in Named : k <= n <=> k <= cursor
    BY <1>5, <1>7, <2>3
  <2> QED BY <1>4, <2>1, <2>3, <2>4, <2>5
<1>11. CASE c # NoPath
  <2> DEFINE new == [class_index |-> Intern(c),
                     at |-> [d \in {"x", "y", "z"} |-> scene.at[s][d] - Lo[d]],
                     floor |-> 0, links |-> <<>>]
  <2>1. /\ kept_to_piece' = [kept_to_piece EXCEPT ![n] = NextIndex]
        /\ classes' = IF c \in ToSet(classes) THEN classes ELSE Append(classes, c)
        /\ pieces' = Append(pieces, new)
        /\ stats' = stats
    BY <1>11 DEF MakePiece, n, s, c
  <2>2. n \in Named /\ Number(n) = Number(cursor) + 1
    BY <1>5, <1>6, <1>11
  <2>3. new.class_index = Intern(c)
    OBVIOUS
  <2>4. new \in PieceType
    <3>1. pieces' \in Seq(PieceType) /\ Len(pieces') = Len(pieces) + 1
          /\ pieces'[Len(pieces) + 1] = new
      <4> HIDE DEF new
      <4> QED BY <1>8, <2>1 DEF Types
    <3> QED BY <1>8, <3>1
  <2> HIDE DEF new
  <2>5. /\ Len(pieces') = Len(pieces) + 1
        /\ \A i \in 1..Len(pieces) : pieces'[i] = pieces[i]
        /\ pieces'[Len(pieces) + 1] = new
    BY <1>8, <2>1, <2>4
  <2>6. /\ Len(classes) \in Nat /\ Len(classes') \in Nat /\ Len(classes) <= Len(classes')
        /\ \A i \in 1..Len(classes) : classes'[i] = classes[i]
        /\ Intern(c) \in 1..Len(classes') /\ classes'[Intern(c)] = c
    BY <1>1, <1>11, <2>1, InternFacts
  <2>7. Len(kept_to_piece') = Len(kept)
    BY <1>4, <1>8, <2>1
  <2>8. NextIndex = Number(n)
    BY <1>4, <2>2 DEF NextIndex
  <2>9. Len(pieces') = Number(n)
    BY <1>4, <2>2, <2>5
  <2>10. stats'.no_path + Len(pieces') = n
    <3>1. stats'.no_path = stats.no_path
      BY <2>1
    <3>2. n = cursor + 1 /\ stats.no_path + Len(pieces) = cursor /\ Len(pieces') = Len(pieces) + 1
      BY <1>4, <2>5 DEF n
    <3> HIDE DEF PiecesInv
    <3> QED BY <1>1, <1>8, <3>1, <3>2
  <2>11. ASSUME NEW k \in 1..Len(kept)
         PROVE  kept_to_piece'[k] = IF k \in Named /\ k <= n THEN Number(k) ELSE 0
    <3>1. k \in DOMAIN kept_to_piece /\ k \in Nat
      BY <1>4, <1>8
    <3>2. CASE k = n
      BY <2>1, <2>2, <2>8, <3>1, <3>2
    <3>3. CASE k # n
      <4>1. kept_to_piece'[k] = kept_to_piece[k]
        BY <2>1, <3>1, <3>3
      <4>2. k <= n <=> k <= cursor
        BY <1>7, <3>1, <3>3
      <4> QED BY <1>4, <4>1, <4>2
    <3> QED BY <3>2, <3>3
  <2>12. ASSUME NEW k \in Named, k <= n
         PROVE  /\ pieces'[Number(k)].class_index \in 1..Len(classes')
                /\ classes'[pieces'[Number(k)].class_index] = scene.path[kept[k]]
    <3>1. CASE k = n
      <4>1. pieces'[Number(k)] = new
        BY <1>4, <2>2, <2>5, <3>1
      <4>2. scene.path[kept[k]] = c
        BY <3>1 DEF c, s
      <4> QED BY <2>3, <2>6, <4>1, <4>2
    <3>2. CASE k # n
      <4>1. k <= cursor /\ Number(k) \in 1..Len(pieces)
        BY <1>4, <1>5, <1>7, <2>12, <3>2
      <4>2. pieces'[Number(k)] = pieces[Number(k)]
        BY <2>5, <4>1
      <4> DEFINE ci == pieces[Number(k)].class_index
      <4>3. ci \in 1..Len(classes) /\ classes[ci] = scene.path[kept[k]]
        BY <1>4, <4>1
      <4> HIDE DEF ci
      <4>4. ci \in 1..Len(classes') /\ classes'[ci] = classes[ci]
        BY <2>6, <4>3
      <4> QED BY <4>2, <4>3, <4>4 DEF ci
    <3> QED BY <3>1, <3>2
  <2> QED BY <2>7, <2>9, <2>10, <2>11, <2>12
<1> QED BY <1>10, <1>11

\* What LinkPiece does to pieces and statistics, with its parts named.
FloorOf(t, n) ==
  LET f == IF scene.floor[t] = NoFloor THEN 0 ELSE PieceOf(scene.floor[t])
  IN  IF f # n THEN f ELSE 0
TargetsOf(t, n) == Among(scene.linked[t], {u \in Structures : PieceOf(u) \notin {0, n}})
LinksOf(t, n) == [i \in DOMAIN TargetsOf(t, n) |-> PieceOf(TargetsOf(t, n)[i])]
OutsideOf(t) == Among(scene.linked[t], Structures \ ToSet(kept))

LEMMA LinkEffect ==
  ASSUME Types, LinkPiece
  PROVE  LET s == kept[cursor + 1]
             n == kept_to_piece[cursor + 1]
         IN  /\ n = 0 => UNCHANGED <<pieces, stats>>
             /\ n # 0 =>
                  /\ Len(pieces') = Len(pieces)
                  /\ \A i \in 1..Len(pieces) :
                       /\ pieces'[i].class_index = pieces[i].class_index
                       /\ pieces'[i].at = pieces[i].at
                       /\ i # n => pieces'[i] = pieces[i]
                       /\ i = n => pieces'[i].floor = FloorOf(s, n) /\ pieces'[i].links = LinksOf(s, n)
                  /\ stats'.no_path = stats.no_path
                  /\ stats'.links_captured = stats.links_captured + Len(TargetsOf(s, n))
                  /\ stats'.links_outside = stats.links_outside + Len(OutsideOf(s))
<1> DEFINE s == kept[cursor + 1]
           n == kept_to_piece[cursor + 1]
           f == IF scene.floor[s] = NoFloor THEN 0 ELSE PieceOf(scene.floor[s])
<1>1. CASE n = 0
  BY <1>1 DEF LinkPiece
<1>2. CASE n # 0
  <2>1. /\ pieces' = [pieces EXCEPT ![n].floor = FloorOf(s, n), ![n].links = LinksOf(s, n)]
        /\ stats' = [stats EXCEPT
             !.floors_captured = @ + (IF f \notin {0, n} THEN 1 ELSE 0),
             !.links_captured = @ + Len(TargetsOf(s, n)),
             !.links_outside = @ + Len(OutsideOf(s))]
    BY <1>2 DEF LinkPiece, FloorOf, TargetsOf, LinksOf, OutsideOf
  <2>2. /\ cursor \in Nat /\ cursor + 1 \in 1..Len(kept) /\ Len(kept_to_piece) = Len(kept)
        /\ s \in Structures
    BY DEF LinkPiece, Types
  <2>3. \A t : PieceOf(t) \in Nat
    BY <2>2, PieceOfType
  <2>4. FloorOf(s, n) \in Nat
    BY <2>3 DEF FloorOf
  <2>5. scene.linked[s] \in Seq(Structures)
    BY <2>2 DEF Types, Scene
  <2>6. TargetsOf(s, n) \in Seq(Structures)
    BY <2>5, AmongFacts DEF TargetsOf
  <2>7. LinksOf(s, n) \in Seq(Nat)
    <3>1. /\ Len(TargetsOf(s, n)) \in Nat
          /\ LinksOf(s, n) \in [1..Len(TargetsOf(s, n)) -> Nat]
      BY <2>3, <2>6 DEF LinksOf
    <3> QED BY <3>1
  <2>8. pieces \in Seq(PieceType)
    BY DEF Types
  <2> HIDE DEF f, s, n
  <2>9. /\ Len(pieces') = Len(pieces)
        /\ \A i \in 1..Len(pieces) :
             /\ i # n => pieces'[i] = pieces[i]
             /\ i = n => /\ pieces'[i].floor = FloorOf(s, n) /\ pieces'[i].links = LinksOf(s, n)
                         /\ pieces'[i].class_index = pieces[i].class_index
                         /\ pieces'[i].at = pieces[i].at
    BY <2>1, <2>4, <2>7, <2>8, Rewired
  <2>10. /\ stats'.no_path = stats.no_path
         /\ stats'.links_captured = stats.links_captured + Len(TargetsOf(s, n))
         /\ stats'.links_outside = stats.links_outside + Len(OutsideOf(s))
    <3>1. stats \in Stats
      BY DEF Types
    <3> QED BY <2>1, <3>1 DEF Stats
  <2> QED BY <1>2, <2>9, <2>10 DEF s, n
<1> QED BY <1>1, <1>2

LEMMA PiecesStep ==
  ASSUME Types, Types', PiecesInv, [Next]_vars
  PROVE  PiecesInv'
<1>1. CASE ~Ready'
  BY <1>1 DEF PiecesInv, Ready, Settled, Types
<1>2. CASE HandleSave
  <2>1. phase' = "keep" /\ ~saved' /\ pieces' = <<>> /\ stats' = NoStats
    BY <1>2 DEF HandleSave
  <2> QED BY <2>1 DEF PiecesInv, Settled, NoStats
<1>3. CASE UNCHANGED vars
  BY <1>3, SameNumbers DEF vars, PiecesInv, Made, Settled
<1>4. CASE Keep
  <2>1. /\ phase = "keep" /\ phase' = "keep" /\ ~saved /\ ~saved' /\ UNCHANGED pieces
    BY <1>4 DEF Keep, Types
  <2>2. stats' \in {stats, [stats EXCEPT !.in_box = @ + 1], [stats EXCEPT !.near_miss = @ + 1],
                    [stats EXCEPT !.no_transform = @ + 1]}
    BY <1>4 DEF Keep, Passed
  <2>3. stats'.no_path = stats.no_path
    BY <2>2 DEF Types, Stats
  <2> QED BY <2>1, <2>3 DEF PiecesInv, Settled
<1>5. CASE KeepEnds /\ Ready'
  <2>1. /\ phase = "keep" /\ phase' = "make" /\ ~saved /\ ~saved' /\ cursor' = 0
        /\ UNCHANGED <<scene, kept, pieces, stats, classes>>
        /\ kept_to_piece' = [k \in DOMAIN kept |-> 0]
    BY <1>5 DEF KeepEnds, Ready, Types
  <2>2. Len(kept_to_piece') = Len(kept) /\ \A k \in 1..Len(kept) : kept_to_piece'[k] = 0
    BY <2>1 DEF Types
  <2>3. Made' = 0 /\ pieces = <<>> /\ stats.no_path = 0 /\ Number(0)' = 0
    BY <2>1, NumberFacts, SameNumbers DEF PiecesInv, Made
  <2>4. Named' \subseteq Nat \ {0}
    BY NamedFacts, <2>1, SameNumbers
  <2>5. Number(Made)' = 0
    BY <2>3 DEF Number
  <2>6. \A k \in Nat \ {0} : ~(k <= 0)
    OBVIOUS
  <2>7. \A k \in 1..Len(kept') : k \in Nat \ {0}
    OBVIOUS
  <2> QED BY <2>1, <2>2, <2>3, <2>4, <2>5, <2>6, <2>7 DEF PiecesInv
<1>6. CASE MakePiece
  BY <1>6, MadeStep
<1>7. CASE MakeEnds
  <2>1. /\ phase = "make" /\ phase' = "link" /\ ~saved' /\ Made = cursor /\ cursor = Len(kept)
        /\ Made' = Len(kept)
        /\ UNCHANGED <<scene, kept, kept_to_piece, classes, pieces, stats>>
    BY <1>7 DEF MakeEnds, Types, Made
  <2>2. Named' = Named /\ \A n : Number(n)' = Number(n)
    BY <2>1, SameNumbers
  <2>3. Number(Made)' = Number(Made)
    BY <2>1, <2>2 DEF Number
  <2> QED BY <2>1, <2>2, <2>3 DEF PiecesInv, Settled
<1>8. CASE LinkPiece
  <2>1. /\ phase = "link" /\ phase' = "link" /\ ~saved' /\ Made = Len(kept) /\ Made' = Len(kept)
        /\ UNCHANGED <<scene, kept, kept_to_piece, classes>>
    BY <1>8 DEF LinkPiece, Types, Made
  <2>2. Named' = Named /\ \A n : Number(n)' = Number(n)
    BY <2>1, SameNumbers
  <2>3. Number(Made)' = Number(Made)
    BY <2>1, <2>2 DEF Number
  <2>4. /\ Len(pieces') = Len(pieces) /\ stats'.no_path = stats.no_path
        /\ \A i \in 1..Len(pieces) : pieces'[i].class_index = pieces[i].class_index
    BY <1>8, LinkEffect
  <2>5. \A k \in Named : k <= Made => Number(k) \in 1..Len(pieces)
    <3> TAKE k \in Named
    <3>1. Made \in Nat /\ Len(pieces) = Number(Made)
      BY <2>1 DEF PiecesInv, Settled, Types
    <3>2. k \in Nat /\ Number(k) \in Nat /\ Number(k) # 0 /\ Number(Made) \in Nat
      BY <3>1, NumberFacts
    <3>3. k <= Made => Number(k) <= Number(Made)
      BY <3>1, <3>2, NumberFacts
    <3> QED BY <3>1, <3>2, <3>3
  <2> QED BY <2>1, <2>2, <2>3, <2>4, <2>5 DEF PiecesInv, Settled
<1>9. CASE LinkEnds
  <2>1. /\ phase = "link" /\ phase' = "idle" /\ Made = Len(kept) /\ Made' = Len(kept)
        /\ UNCHANGED <<scene, kept, kept_to_piece, classes, pieces, stats>>
    BY <1>9 DEF LinkEnds, Types, Made
  <2>2. Named' = Named /\ \A n : Number(n)' = Number(n)
    BY <2>1, SameNumbers
  <2>3. Number(Made)' = Number(Made)
    BY <2>1, <2>2 DEF Number
  <2> QED BY <2>1, <2>2, <2>3 DEF PiecesInv, Settled
<1>10. ASSUME NEW which \in {"a", "b"}, NEW p \in Corners, SetCorner(which, p) PROVE ~Ready'
  BY <1>10 DEF SetCorner, Ready
<1>11. ClearSelection => ~Ready'
  BY DEF ClearSelection, Ready
<1> QED BY <1>1, <1>2, <1>3, <1>4, <1>5, <1>6, <1>7, <1>8, <1>9, <1>10, <1>11 DEF Next

\* The place of each piece made so far is that of its structure, measured from
\* the low corner of the box.
PlacedAs(k) ==
  \A d \in Axes : pieces[Number(k)].at[d] = scene.at[kept[k]][d] - Lo[d]

PlacesInv == Settled => \A k \in Named : k <= Made => PlacedAs(k)

\* A step that neither makes nor moves a piece keeps where they are.
LEMMA SamePlaces ==
  ASSUME Types, PiecesInv, Settled, NEW k \in Named, k <= Made, PlacedAs(k),
         UNCHANGED <<scene, sel, kept>>,
         \A i \in 1..Len(pieces) : pieces'[i].at = pieces[i].at
  PROVE  PlacedAs(k)'
<1>1. Made \in Nat /\ Len(pieces) = Number(Made)
  BY DEF PiecesInv, Made, Types
<1>2. Number(k) \in Nat /\ Number(k) # 0 /\ Number(Made) \in Nat /\ Number(k) <= Number(Made)
  BY <1>1, NumberFacts
<1>3. Number(k) \in 1..Len(pieces)
  BY <1>1, <1>2
<1>4. Number(k)' = Number(k)
  BY SameNumbers
<1>5. Lo' = Lo
  BY DEF Lo
<1> QED BY <1>3, <1>4, <1>5 DEF PlacedAs

LEMMA MadePlace ==
  ASSUME Types, Types', PiecesInv, PlacesInv, MakePiece
  PROVE  PlacesInv'
<1> DEFINE n == cursor + 1
           s == kept[n]
           c == scene.path[s]
           new == [class_index |-> Intern(c),
                   at |-> [d \in {"x", "y", "z"} |-> scene.at[s][d] - Lo[d]],
                   floor |-> 0, links |-> <<>>]
<1>1. /\ Settled /\ Made = cursor /\ Made' = n /\ cursor \in Nat /\ n \in 1..Len(kept)
      /\ UNCHANGED <<scene, sel, kept>>
  BY DEF MakePiece, Types, Made, Settled
<1>2. pieces \in Seq(PieceType) /\ Len(pieces) \in Nat /\ Len(pieces) = Number(cursor)
  BY <1>1 DEF Types, PiecesInv
<1>3. \/ n \notin Named /\ UNCHANGED pieces
      \/ n \in Named /\ pieces' = Append(pieces, new)
  BY <1>1, NamedFacts DEF MakePiece
<1>4. n \in Named => Number(n) = Len(pieces) + 1
  BY <1>1, <1>2, NumberFacts
<1>5. new.at = [d \in Axes |-> scene.at[s][d] - Lo[d]]
  BY DEF Axes
<1> HIDE DEF new
<1>6. \A i \in 1..Len(pieces) : pieces'[i] = pieces[i]
  BY <1>2, <1>3
<1>7. n \in Named => pieces'[Number(n)] = new
  BY <1>2, <1>3, <1>4
<1>8. ASSUME NEW k \in Named, k <= n PROVE PlacedAs(k)'
  <2>1. CASE k = n
    <3>1. Number(k)' = Number(k) /\ Lo' = Lo
      BY <1>1, SameNumbers DEF Lo
    <3>2. pieces'[Number(k)] = new /\ kept[k] = s
      BY <1>7, <2>1
    <3>3. \A d \in Axes : pieces'[Number(k)].at[d] = scene.at[kept[k]][d] - Lo[d]
      BY <1>5, <3>2
    <3> QED BY <1>1, <3>1, <3>3 DEF PlacedAs
  <2>2. CASE k # n
    <3>1. k \in Nat
      BY NumberFacts
    <3>2. k <= Made
      BY <1>1, <1>8, <2>2, <3>1
    <3>3. PlacedAs(k)
      BY <1>1, <3>2 DEF PlacesInv
    <3> QED BY <1>1, <1>6, <3>2, <3>3, SamePlaces
  <2> QED BY <2>1, <2>2
<1>9. Named' = Named
  BY <1>1, SameNumbers
<1> QED BY <1>1, <1>8, <1>9 DEF PlacesInv

LEMMA PlacesStep ==
  ASSUME Types, Types', PiecesInv, PlacesInv, [Next]_vars
  PROVE  PlacesInv'
<1>1. CASE ~Settled'
  BY <1>1 DEF PlacesInv
<1>2. CASE MakePiece
  BY <1>2, MadePlace
<1>3. CASE KeepEnds /\ Settled'
  <2>1. Made' = 0
    BY <1>3 DEF KeepEnds, Settled, Made, Types
  <2>2. \A k \in Named' : k \in Nat \ {0}
    BY NamedFacts, <1>3, SameNumbers DEF KeepEnds
  <2> QED BY <2>1, <2>2 DEF PlacesInv
<1>4. CASE UNCHANGED vars \/ MakeEnds \/ LinkPiece \/ LinkEnds
  <2>1. UNCHANGED <<scene, sel, kept>> /\ Made' = Made /\ (Settled' => Settled)
    BY <1>4 DEF vars, MakeEnds, LinkPiece, LinkEnds, Made, Settled, Types
  <2>2. \A i \in 1..Len(pieces) : pieces'[i].at = pieces[i].at
    <3>1. CASE LinkPiece
      BY <3>1, LinkEffect
    <3>2. CASE UNCHANGED pieces
      BY <3>2
    <3> QED BY <1>4, <3>1, <3>2 DEF vars, MakeEnds, LinkEnds
  <2>3. Named' = Named
    BY <2>1, SameNumbers
  <2> QED BY <2>1, <2>2, <2>3, SamePlaces DEF PlacesInv
<1>5. ClearSelection \/ HandleSave \/ Keep => ~Settled'
  BY DEF ClearSelection, HandleSave, Keep, Settled, Types
<1>6. ASSUME NEW which \in {"a", "b"}, NEW p \in Corners, SetCorner(which, p) PROVE ~Settled'
  BY <1>6 DEF SetCorner, Settled
<1> QED BY <1>1, <1>2, <1>3, <1>4, <1>5, <1>6 DEF Next

----------------------------------------------------------------------------
(* What the pieces were made of, and how they are wired *)

Distinct == \A i, j \in 1..Len(kept) : kept[i] = kept[j] => i = j

LEMMA OriginFacts ==
  ASSUME Types
  PROVE  /\ Origins \in Seq(Structures)
         /\ Len(Origins) = Cardinality(Named) /\ Len(Origins) \in Nat
         /\ Len(Origins) = Number(Len(kept))
         /\ \A k \in Named : Number(k) \in 1..Len(Origins) /\ Origins[Number(k)] = kept[k]
         /\ \A i \in 1..Len(Origins) : \E k \in Named : Number(k) = i /\ Origins[i] = kept[k]
         /\ \A t : t \in ToSet(Origins) <=> \E k \in Named : kept[k] = t
<1>1. Named \subseteq 1..Len(kept) /\ Named \subseteq Int /\ IsFiniteSet(Named) /\ Len(kept) \in Nat
  BY NamedFacts
<1>2. Origins = Picked(kept, Named)
  BY DEF Origins, Among, Named, Nameable
<1>3. kept \in Seq(Structures)
  BY DEF Types
<1>4. Origins \in Seq(Structures) /\ Len(Origins) = Cardinality(Named)
  BY <1>3, AmongFacts DEF Origins, Named, Nameable
<1>5. Len(Origins) \in Nat
  BY <1>1, <1>4, FS_CardinalityType
<1>6. Named = {m \in Named : m <= Len(kept)}
  <2>1. \A m \in Named : m <= Len(kept)
    BY <1>1
  <2> QED BY <2>1
<1>7. Len(Origins) = Number(Len(kept))
  BY <1>4, <1>6 DEF Number, Rank
<1>8. /\ \A k \in Named : Rank(Named, k) \in 1..Cardinality(Named)
                          /\ Picked(kept, Named)[Rank(Named, k)] = kept[k]
      /\ \A i \in 1..Cardinality(Named) :
           \E k \in Named : Rank(Named, k) = i /\ Picked(kept, Named)[i] = kept[k]
  <2> DEFINE N == Named
  <2>1. N \subseteq Int /\ IsFiniteSet(N)
    BY <1>1
  <2> HIDE DEF N
  <2>2. /\ \A k \in N : Rank(N, k) \in 1..Cardinality(N) /\ Picked(kept, N)[Rank(N, k)] = kept[k]
        /\ \A i \in 1..Cardinality(N) : \E k \in N : Rank(N, k) = i /\ Picked(kept, N)[i] = kept[k]
    <3>1. \A k \in N : Rank(N, k) \in 1..Cardinality(N) /\ Picked(kept, N)[Rank(N, k)] = kept[k]
      BY <2>1, PickedFacts, ZenonT(40)
    <3>2. \A i \in 1..Cardinality(N) : \E k \in N : Rank(N, k) = i /\ Picked(kept, N)[i] = kept[k]
      <4> TAKE i \in 1..Cardinality(N)
      <4>1. /\ InOrder(N) \in [1..Cardinality(N) -> N]
            /\ \A j \in 1..Cardinality(N) : Rank(N, InOrder(N)[j]) = j
        BY <2>1, InOrderFacts
      <4>2. InOrder(N)[i] \in N /\ Rank(N, InOrder(N)[i]) = i
        BY <4>1
      <4>3. Picked(kept, N)[i] = kept[InOrder(N)[i]]
        BY DEF Picked
      <4> QED BY <4>2, <4>3
    <3> QED BY <3>1, <3>2
  <2> QED BY <2>2 DEF N
<1>9. /\ \A k \in Named : Number(k) \in 1..Len(Origins) /\ Origins[Number(k)] = kept[k]
      /\ \A i \in 1..Len(Origins) : \E k \in Named : Number(k) = i /\ Origins[i] = kept[k]
  BY <1>2, <1>4, <1>8 DEF Number
<1>10. \A t : t \in ToSet(Origins) <=> \E i \in 1..Len(Origins) : Origins[i] = t
  BY <1>4, ToSetFacts
<1>11. \A t : t \in ToSet(Origins) <=> \E k \in Named : kept[k] = t
  BY <1>9, <1>10
<1> QED BY <1>4, <1>5, <1>7, <1>9, <1>11

\* Once all pieces are made, pieces and captured structures are one to one.
LEMMA PieceOfFacts ==
  ASSUME Types, Distinct, PiecesInv, Settled, Made = Len(kept)
  PROVE  /\ Len(pieces) = Len(Origins)
         /\ \A k \in 1..Len(kept) : PieceOf(kept[k]) = IF k \in Named THEN Number(k) ELSE 0
         /\ \A t \in ToSet(Origins) : PieceOf(t) \in 1..Len(pieces) /\ Origins[PieceOf(t)] = t
         /\ \A t : t \notin ToSet(Origins) => PieceOf(t) = 0
<1>1. kept \in Seq(Structures) /\ Len(kept) \in Nat
  BY DEF Types
<1>2. Len(pieces) = Len(Origins)
  BY OriginFacts DEF PiecesInv
<1>3. ASSUME NEW k \in 1..Len(kept)
      PROVE  PieceOf(kept[k]) = IF k \in Named THEN Number(k) ELSE 0
  <2>1. kept[k] \in ToSet(kept)
    BY <1>1, ToSetFacts
  <2>2. IndexOf(kept[k]) = k
    BY <2>1, IndexFacts DEF Distinct
  <2>3. PieceOf(kept[k]) = kept_to_piece[k]
    BY <2>1, <2>2 DEF PieceOf
  <2>4. k <= Made
    BY <1>1
  <2> QED BY <2>3, <2>4 DEF PiecesInv
<1>4. ASSUME NEW t \in ToSet(Origins)
      PROVE  PieceOf(t) \in 1..Len(pieces) /\ Origins[PieceOf(t)] = t
  <2>1. PICK k \in Named : kept[k] = t
    BY OriginFacts
  <2>2. k \in 1..Len(kept)
    BY NamedFacts
  <2>3. PieceOf(t) = Number(k)
    BY <1>3, <2>1, <2>2
  <2> QED BY <1>2, <2>1, <2>3, OriginFacts
<1>5. ASSUME NEW t, t \notin ToSet(Origins) PROVE PieceOf(t) = 0
  <2>1. CASE t \notin ToSet(kept)
    BY <2>1 DEF PieceOf
  <2>2. CASE t \in ToSet(kept)
    <3>1. PICK k \in 1..Len(kept) : kept[k] = t
      BY <1>1, <2>2, ToSetFacts
    <3>2. k \notin Named
      BY <1>5, <3>1, OriginFacts
    <3> QED BY <1>3, <3>1, <3>2
  <2> QED BY <2>1, <2>2
<1> QED BY <1>2, <1>3, <1>4, <1>5

\* Links and floor of piece i are those of the structure it was made of.
Wired(i) ==
  LET s == Origins[i]
      neighbours == Among(scene.linked[s], ToSet(Origins) \ {s})
      links == pieces[i].links
  IN  /\ Len(links) = Len(neighbours)
      /\ \A k \in DOMAIN links : links[k] \in 1..Len(pieces) /\ Origins[links[k]] = neighbours[k]
      /\ IF scene.floor[s] \in ToSet(Origins) \ {s}
         THEN pieces[i].floor \in 1..Len(pieces) /\ Origins[pieces[i].floor] = scene.floor[s]
         ELSE pieces[i].floor = 0

\* The links of a captured structure that the statistics count.
Dropped(t, s) == t = s \/ (t \in ToSet(kept) /\ scene.path[t] = NoPath)
Counted(s) == {n \in DOMAIN scene.linked[s] : ~Dropped(scene.linked[s][n], s)}
Tally(n) == UNION {{kept[k]} \X Counted(kept[k]) : k \in {j \in Named : j <= n}}

\* How far the third pass has come.
Linked == IF phase = "link" THEN cursor ELSE Len(kept)

LinksInv ==
  /\ phase \in {"keep", "make"} => stats.links_captured = 0 /\ stats.links_outside = 0
  /\ phase = "link" \/ saved =>
       /\ \A k \in Named : k <= Linked => Wired(Number(k))
       /\ IsFiniteSet(Tally(Linked))
       /\ stats.links_captured + stats.links_outside = Cardinality(Tally(Linked))

\* Whom LinkPiece takes for targets: the other captured structures.
LEMMA TargetFacts ==
  ASSUME Types, Distinct, PiecesInv, Settled, Made = Len(kept), NEW k \in Named
  PROVE  {u \in Structures : PieceOf(u) \notin {0, Number(k)}} = ToSet(Origins) \ {kept[k]}
<1>1. k \in 1..Len(kept) /\ Number(k) # 0
  BY NamedFacts, NumberFacts
<1>2. PieceOf(kept[k]) = Number(k)
  BY <1>1, PieceOfFacts
<1>3. kept[k] \in ToSet(Origins)
  BY OriginFacts
<1>4. \A u \in ToSet(Origins) : PieceOf(u) # 0 /\ u \in Structures
  <2>1. \A u \in ToSet(Origins) : PieceOf(u) \in 1..Len(pieces)
    BY PieceOfFacts
  <2>2. \A u \in ToSet(Origins) : u \in Structures
    BY OriginFacts DEF ToSet
  <2> QED BY <2>1, <2>2
<1>5. \A u \in ToSet(Origins) : PieceOf(u) = Number(k) => u = kept[k]
  <2> TAKE u \in ToSet(Origins)
  <2>1. Origins[PieceOf(u)] = u /\ Origins[Number(k)] = kept[k]
    BY PieceOfFacts, OriginFacts
  <2> QED BY <2>1
<1>6. \A u : u \notin ToSet(Origins) => PieceOf(u) = 0
  BY PieceOfFacts
<1> QED BY <1>2, <1>3, <1>4, <1>5, <1>6

LEMMA CountedFacts ==
  ASSUME Types, Distinct, PiecesInv, Settled, Made = Len(kept), NEW k \in Named
  PROVE  /\ IsFiniteSet(Counted(kept[k])) /\ Cardinality(Counted(kept[k])) \in Nat
         /\ Len(TargetsOf(kept[k], Number(k))) \in Nat /\ Len(OutsideOf(kept[k])) \in Nat
         /\ Cardinality(Counted(kept[k])) =
              Len(TargetsOf(kept[k], Number(k))) + Len(OutsideOf(kept[k]))
<1> DEFINE s == kept[k]
           q == scene.linked[s]
           A == PlacesOf(q, ToSet(Origins) \ {s})
           B == PlacesOf(q, Structures \ ToSet(kept))
<1>1. k \in 1..Len(kept) /\ s \in Structures /\ s \in ToSet(kept)
  <2>1. k \in 1..Len(kept) /\ kept \in Seq(Structures)
    BY NamedFacts DEF Types
  <2> QED BY <2>1, ToSetFacts
<1>2. q \in Seq(Structures)
  BY <1>1 DEF Types, Scene
<1>3. /\ Len(TargetsOf(s, Number(k))) = Cardinality(A)
      /\ Len(OutsideOf(s)) = Cardinality(B)
      /\ IsFiniteSet(A) /\ IsFiniteSet(B)
  <2>1. TargetsOf(s, Number(k)) = Among(q, ToSet(Origins) \ {s})
    BY TargetFacts DEF TargetsOf
  <2>2. OutsideOf(s) = Among(q, Structures \ ToSet(kept))
    BY DEF OutsideOf
  <2> QED BY <1>2, <2>1, <2>2, AmongFacts, PlacesFacts
<1>4. Cardinality(A) \in Nat /\ Cardinality(B) \in Nat
  BY <1>3, FS_CardinalityType
<1>5. A \cap B = {} /\ A \cup B = Counted(s)
  <2>1. \A t : t \in ToSet(Origins) <=> t \in ToSet(kept) /\ scene.path[t] # NoPath
    <3> TAKE t
    <3>1. t \in ToSet(kept) <=> \E j \in 1..Len(kept) : kept[j] = t
      BY ToSetFacts DEF Types
    <3>2. t \in ToSet(Origins) <=> \E j \in Named : kept[j] = t
      BY OriginFacts
    <3>3. \A j \in Named : j \in 1..Len(kept)
      BY NamedFacts
    <3>4. \A j \in 1..Len(kept) : j \in Named <=> scene.path[kept[j]] # NoPath
      BY NamedFacts
    <3> QED BY <3>1, <3>2, <3>3, <3>4
  <2>2. \A n \in DOMAIN q : q[n] \in Structures
    BY <1>2
  <2>3. \A n \in DOMAIN q : n \in A <=> q[n] \in ToSet(kept) /\ scene.path[q[n]] # NoPath /\ q[n] # s
    BY <2>1 DEF PlacesOf
  <2>4. \A n \in DOMAIN q : n \in B <=> q[n] \notin ToSet(kept)
    BY <2>2 DEF PlacesOf
  <2>5. \A n \in DOMAIN q :
          n \in Counted(s) <=> q[n] # s /\ (q[n] \notin ToSet(kept) \/ scene.path[q[n]] # NoPath)
    BY DEF Counted, Dropped
  <2>6. A \subseteq DOMAIN q /\ B \subseteq DOMAIN q /\ Counted(s) \subseteq DOMAIN q
    BY DEF PlacesOf, Counted
  <2> HIDE DEF A, B, s
  <2>7. A \cap B = {}
    BY <2>3, <2>4, <2>6
  <2>8. \A n \in DOMAIN q : n \in A \cup B <=> n \in Counted(s)
    BY <1>1, <2>3, <2>4, <2>5
  <2> QED BY <2>6, <2>7, <2>8
<1> HIDE DEF A, B
<1>6. IsFiniteSet(Counted(s)) /\ Cardinality(Counted(s)) = Cardinality(A) + Cardinality(B)
  <2>1. Cardinality(A \cup B) = Cardinality(A) + Cardinality(B) - Cardinality(A \cap B)
        /\ IsFiniteSet(A \cup B)
    BY <1>3, FS_Union
  <2>2. Cardinality(A \cap B) = 0
    BY <1>5, FS_EmptySet
  <2>3. Cardinality(A \cup B) = Cardinality(A) + Cardinality(B)
    BY <1>4, <2>1, <2>2
  <2>4. Counted(s) = A \cup B
    BY <1>5
  <2> QED BY <2>1, <2>3, <2>4
<1> QED BY <1>3, <1>4, <1>6

\* One more kept structure linked: what the tally grows by.
LEMMA TallyStep ==
  ASSUME Types, Distinct, PiecesInv, Settled, Made = Len(kept),
         NEW n \in Nat, n + 1 \in 1..Len(kept), IsFiniteSet(Tally(n))
  PROVE  /\ n + 1 \notin Named => Tally(n + 1) = Tally(n)
         /\ n + 1 \in Named =>
              /\ IsFiniteSet(Tally(n + 1))
              /\ Cardinality(Tally(n + 1)) = Cardinality(Tally(n)) + Cardinality(Counted(kept[n+1]))
<1> DEFINE before == {j \in Named : j <= n}
           new == {kept[n+1]} \X Counted(kept[n+1])
<1>1. {j \in Named : j <= n + 1} = IF n + 1 \in Named THEN before \cup {n + 1} ELSE before
  <2>1. \A j \in Named : j \in Nat
    BY NumberFacts
  <2>2. \A j \in Nat : j <= n + 1 <=> j <= n \/ j = n + 1
    OBVIOUS
  <2> QED BY <2>1, <2>2
<1>2. CASE n + 1 \notin Named
  BY <1>1, <1>2 DEF Tally
<1>3. CASE n + 1 \in Named
  <2>1. Tally(n + 1) = Tally(n) \cup new
    BY <1>1, <1>3 DEF Tally
  <2>2. Tally(n) \cap new = {}
    <3> SUFFICES ASSUME NEW p \in Tally(n), p \in new PROVE FALSE
      OBVIOUS
    <3>1. PICK j \in before : p \in {kept[j]} \X Counted(kept[j])
      BY DEF Tally
    <3>2. p[1] = kept[j] /\ p[1] = kept[n + 1]
      BY <3>1
    <3>3. j \in 1..Len(kept) /\ j # n + 1
      BY NamedFacts
    <3> QED BY <3>2, <3>3 DEF Distinct
  <2>3. /\ IsFiniteSet(new) /\ Cardinality(new) = Cardinality(Counted(kept[n+1]))
        /\ Cardinality(new) \in Nat
    <3>1. IsFiniteSet(Counted(kept[n+1])) /\ Cardinality(Counted(kept[n+1])) \in Nat
      BY <1>3, CountedFacts
    <3>2. IsFiniteSet({kept[n+1]}) /\ Cardinality({kept[n+1]}) = 1
      BY FS_Singleton
    <3>3. IsFiniteSet(new) /\ Cardinality(new) = 1 * Cardinality(Counted(kept[n+1]))
      BY <3>1, <3>2, FS_Product
    <3> QED BY <3>1, <3>3
  <2> HIDE DEF new
  <2>4. /\ IsFiniteSet(Tally(n) \cup new)
        /\ Cardinality(Tally(n) \cup new) =
             Cardinality(Tally(n)) + Cardinality(new) - Cardinality(Tally(n) \cap new)
    BY <2>3, FS_Union
  <2>5. Cardinality(Tally(n) \cap new) = 0 /\ Cardinality(Tally(n)) \in Nat
    BY <2>2, FS_EmptySet, FS_CardinalityType
  <2>6. Cardinality(Tally(n) \cup new) = Cardinality(Tally(n)) + Cardinality(new)
    BY <2>3, <2>4, <2>5
  <2> QED BY <1>3, <2>1, <2>3, <2>4, <2>6
<1> QED BY <1>2, <1>3

LEMMA SameOrigins ==
  ASSUME UNCHANGED <<scene, kept>>
  PROVE  /\ Origins' = Origins
         /\ \A t : Counted(t)' = Counted(t)
         /\ \A n : Tally(n)' = Tally(n)
<1>1. Origins' = Origins
  BY DEF Origins
<1>2. \A t, u : Dropped(t, u)' <=> Dropped(t, u)
  BY DEF Dropped
<1>3. \A t : Counted(t)' = Counted(t)
  BY <1>2 DEF Counted
<1>4. Named' = Named
  BY SameNumbers
<1>5. \A n : Tally(n)' = Tally(n)
  BY <1>3, <1>4 DEF Tally
<1> QED BY <1>1, <1>3, <1>5

LEMMA LinkedStep ==
  ASSUME Types, Types', Distinct, PiecesInv, LinksInv, LinkPiece
  PROVE  LinksInv'
<1> DEFINE k == cursor + 1
           s == kept[k]
           n == kept_to_piece[k]
<1>1. /\ phase = "link" /\ phase' = "link" /\ ~saved' /\ cursor \in Nat /\ cursor' = k
      /\ k \in 1..Len(kept) /\ Len(kept) \in Nat
      /\ Linked = cursor /\ Linked' = k /\ Settled /\ Made = Len(kept)
  BY DEF LinkPiece, Types, Linked, Settled, Made
<1>2. UNCHANGED <<scene, kept>>
  BY DEF LinkPiece
<1>3. /\ Origins' = Origins /\ Tally(Linked)' = Tally(k)
      /\ Named' = Named /\ \A j : Number(j)' = Number(j)
  <2>1. Named' = Named /\ \A j : Number(j)' = Number(j)
    BY <1>2, SameNumbers
  <2>2. \A t : Counted(t)' = Counted(t)
    BY <1>2, SameOrigins
  <2>3. Tally(Linked)' = Tally(k)
    BY <1>1, <1>2, <2>1, <2>2 DEF Tally
  <2> QED BY <1>2, <2>1, <2>3, SameOrigins
<1>4. n = IF k \in Named THEN Number(k) ELSE 0
  <2>1. k <= Made
    BY <1>1
  <2> QED BY <1>1, <2>1 DEF PiecesInv
<1>5. /\ \A j \in Named : j <= cursor => Wired(Number(j))
      /\ IsFiniteSet(Tally(cursor))
      /\ stats.links_captured + stats.links_outside = Cardinality(Tally(cursor))
  BY <1>1 DEF LinksInv
<1>6. \A j \in Named : j \in Nat /\ (j <= k <=> j <= cursor \/ j = k)
  <2>1. \A j \in Named : j \in Nat
    BY NumberFacts
  <2>2. \A j \in Nat : j <= k <=> j <= cursor \/ j = k
    BY <1>1
  <2> QED BY <2>1, <2>2
<1>7. stats \in Stats /\ stats.links_captured \in Nat /\ stats.links_outside \in Nat
  BY DEF Types, Stats
<1> HIDE DEF k
<1>8. SUFFICES
        /\ \A j \in Named : j <= k => \A i : i = Number(j) => Wired(i)'
        /\ IsFiniteSet(Tally(k))
        /\ stats'.links_captured + stats'.links_outside = Cardinality(Tally(k))
  <2>1. \A j \in Named' : j <= Linked' => Wired(Number(j))'
    <3> TAKE j \in Named'
    <3>1. j <= k => \A i : i = Number(j)' => Wired(i)'
      BY <1>3, <1>8
    <3> QED BY <1>1, <3>1 DEF Wired
  <2> QED BY <1>1, <1>3, <1>8, <2>1 DEF LinksInv
<1>9. CASE k \notin Named
  <2>1. UNCHANGED <<pieces, stats>>
    BY <1>4, <1>9, LinkEffect DEF k
  <2>2. Tally(k) = Tally(cursor)
    BY <1>1, <1>5, <1>9, TallyStep DEF k
  <2>3. \A i : Wired(i)' <=> Wired(i)
    BY <1>2, <1>3, <2>1 DEF Wired
  <2>4. \A j \in Named : j <= k => j <= cursor
    BY <1>6, <1>9
  <2> QED BY <1>5, <2>1, <2>2, <2>3, <2>4
<1>10. CASE k \in Named
  <2>1. n = Number(k) /\ n \in 1..Len(pieces) /\ Origins[n] = s /\ Number(k) # 0
    <3>1. n = Number(k)
      BY <1>4, <1>10
    <3> QED BY <1>1, <1>10, <3>1, OriginFacts, PieceOfFacts, NumberFacts
  <2>2. /\ Len(pieces') = Len(pieces)
        /\ \A i \in 1..Len(pieces) :
             /\ i # n => pieces'[i] = pieces[i]
             /\ i = n => pieces'[i].floor = FloorOf(s, n) /\ pieces'[i].links = LinksOf(s, n)
        /\ stats'.links_captured = stats.links_captured + Len(TargetsOf(s, n))
        /\ stats'.links_outside = stats.links_outside + Len(OutsideOf(s))
    BY <2>1, LinkEffect DEF k
  <2>3. /\ \A t \in ToSet(Origins) : PieceOf(t) \in 1..Len(pieces) /\ Origins[PieceOf(t)] = t
        /\ \A t : t \notin ToSet(Origins) => PieceOf(t) = 0
        /\ PieceOf(s) = n
    BY <1>1, <1>4, PieceOfFacts
  <2>4. {u \in Structures : PieceOf(u) \notin {0, n}} = ToSet(Origins) \ {s}
    BY <1>1, <1>10, <2>1, TargetFacts
  <2>5. s \in Structures /\ s \in ToSet(Origins) /\ scene.linked[s] \in Seq(Structures)
    <3>1. kept \in Seq(Structures)
      BY DEF Types
    <3>2. s \in Structures
      BY <1>1, <3>1
    <3>3. s \in ToSet(Origins)
      BY <1>10, OriginFacts
    <3> QED BY <3>2, <3>3 DEF Types, Scene
  <2> HIDE DEF s, n
  <2>6. ASSUME NEW i, i = n PROVE Wired(i)'
    <3> DEFINE neighbours == Among(scene.linked[s], ToSet(Origins) \ {s})
               links == LinksOf(s, n)
    <3>1. TargetsOf(s, n) = neighbours
      BY <2>4 DEF TargetsOf
    <3>2. neighbours \in Seq(Structures) /\ Len(neighbours) \in Nat
      BY <2>5, AmongFacts
    <3>3. \A l \in 1..Len(neighbours) : neighbours[l] \in ToSet(Origins)
      <4>1. \A l \in 1..Len(neighbours) : neighbours[l] \in ToSet(Origins) \ {s}
        BY <2>5, AmongFacts
      <4> QED BY <4>1
    <3>4. /\ links = [l \in 1..Len(neighbours) |-> PieceOf(neighbours[l])]
          /\ Len(links) = Len(neighbours)
          /\ DOMAIN links = 1..Len(neighbours)
      <4>1. DOMAIN neighbours = 1..Len(neighbours)
        BY <3>2
      <4>2. links = [l \in 1..Len(neighbours) |-> PieceOf(neighbours[l])]
        BY <3>1, <4>1 DEF LinksOf
      <4> HIDE DEF links, neighbours
      <4> QED BY <3>2, <4>2
    <3>5. \A l \in DOMAIN links : links[l] \in 1..Len(pieces) /\ Origins[links[l]] = neighbours[l]
      <4> HIDE DEF neighbours, links
      <4> QED BY <2>3, <3>3, <3>4
    <3>6. FloorOf(s, n) = IF scene.floor[s] \in ToSet(Origins) \ {s} THEN PieceOf(scene.floor[s]) ELSE 0
      <4>1. NoFloor \notin ToSet(Origins)
        BY OriginFacts, CaptureAssumption DEF ToSet
      <4>2. \A t \in ToSet(Origins) \ {s} : PieceOf(t) # n
        BY <2>1, <2>3
      <4>3. CASE scene.floor[s] \in ToSet(Origins) \ {s}
        BY <4>1, <4>2, <4>3 DEF FloorOf
      <4>4. CASE scene.floor[s] = s
        BY <2>3, <4>4 DEF FloorOf
      <4>5. CASE scene.floor[s] \notin ToSet(Origins)
        BY <2>3, <4>5 DEF FloorOf
      <4> QED BY <4>3, <4>4, <4>5
    <3>7. IF scene.floor[s] \in ToSet(Origins) \ {s}
          THEN FloorOf(s, n) \in 1..Len(pieces) /\ Origins[FloorOf(s, n)] = scene.floor[s]
          ELSE FloorOf(s, n) = 0
      BY <2>3, <3>6
    <3>8. pieces'[i].floor = FloorOf(s, n) /\ pieces'[i].links = links /\ Origins'[i] = s
      BY <1>3, <2>1, <2>2, <2>6
    <3> HIDE DEF links, neighbours
    <3>9. Len(links) = Len(neighbours)
      BY <3>4
    <3> QED BY <1>2, <1>3, <2>2, <3>5, <3>7, <3>8, <3>9 DEF Wired, neighbours
  <2>7. ASSUME NEW j \in Named, j <= k, NEW i, i = Number(j) PROVE Wired(i)'
    <3>1. CASE j = k
      BY <2>1, <2>6, <2>7, <3>1
    <3>2. CASE j # k
      <4>1. j <= cursor /\ i # n /\ i \in 1..Len(pieces)
        BY <1>1, <1>6, <1>10, <2>1, <2>7, <3>2, NumberFacts, OriginFacts, PieceOfFacts
      <4>2. pieces'[i] = pieces[i]
        BY <2>2, <4>1
      <4>3. Wired(i)
        BY <1>5, <2>7, <4>1
      <4> QED BY <1>2, <1>3, <2>2, <4>2, <4>3 DEF Wired
    <3> QED BY <3>1, <3>2
  <2>8. /\ IsFiniteSet(Tally(k))
        /\ Cardinality(Tally(k)) = Cardinality(Tally(cursor)) + Cardinality(Counted(s))
    BY <1>1, <1>5, <1>10, TallyStep DEF k, s
  <2>9. /\ Len(TargetsOf(s, n)) \in Nat /\ Len(OutsideOf(s)) \in Nat
        /\ Cardinality(Counted(s)) = Len(TargetsOf(s, n)) + Len(OutsideOf(s))
    BY <1>1, <1>10, <2>1, CountedFacts DEF s
  <2>10. stats'.links_captured + stats'.links_outside = Cardinality(Tally(k))
    BY <1>5, <1>7, <2>2, <2>8, <2>9
  <2> QED BY <2>7, <2>8, <2>10
<1> QED BY <1>9, <1>10

LEMMA LinksStep ==
  ASSUME Types, Types', KeptInv, PiecesInv, LinksInv, [Next]_vars
  PROVE  LinksInv'
<1>0. Ready => Distinct
  BY DEF KeptInv, Distinct
<1>1. CASE ~Ready'
  BY <1>1 DEF LinksInv, Ready, Types
<1>2. CASE HandleSave
  <2>1. phase' = "keep" /\ ~saved' /\ stats' = NoStats
    BY <1>2 DEF HandleSave
  <2> QED BY <2>1 DEF LinksInv, NoStats
<1>3. CASE UNCHANGED vars
  <2>1. UNCHANGED <<scene, phase, cursor, kept, pieces, stats, saved>>
    BY <1>3 DEF vars
  <2>2. /\ Named' = Named /\ Linked' = Linked /\ Origins' = Origins
        /\ \A n : Tally(n)' = Tally(n) /\ Number(n)' = Number(n)
    BY <2>1, SameNumbers, SameOrigins DEF Linked
  <2>3. \A i : Wired(i)' <=> Wired(i)
    BY <2>1, <2>2 DEF Wired
  <2>4. Tally(Linked)' = Tally(Linked)
    BY <2>1, <2>2, SameOrigins DEF Tally
  <2>5. \A k \in Named : Wired(Number(k))' <=> Wired(Number(k))
    BY <2>1, <2>2, <2>3 DEF Wired
  <2> QED BY <2>1, <2>2, <2>4, <2>5 DEF LinksInv
<1>4. CASE Keep
  <2>1. /\ phase = "keep" /\ phase' = "keep" /\ ~saved'
    BY <1>4 DEF Keep, Types
  <2>2. stats' \in {stats, [stats EXCEPT !.in_box = @ + 1], [stats EXCEPT !.near_miss = @ + 1],
                    [stats EXCEPT !.no_transform = @ + 1]}
    BY <1>4 DEF Keep, Passed
  <2>3. stats'.links_captured = stats.links_captured /\ stats'.links_outside = stats.links_outside
    BY <2>2 DEF Types, Stats
  <2> QED BY <2>1, <2>3 DEF LinksInv
<1>5. CASE KeepEnds /\ Ready'
  <2>1. phase = "keep" /\ phase' = "make" /\ ~saved' /\ UNCHANGED stats
    BY <1>5 DEF KeepEnds, Ready, Types
  <2> QED BY <2>1 DEF LinksInv
<1>6. CASE MakePiece
  <2>1. phase = "make" /\ phase' = "make" /\ ~saved'
    BY <1>6 DEF MakePiece, Types
  <2>2. stats' = stats \/ stats' = [stats EXCEPT !.no_path = @ + 1]
    BY <1>6 DEF MakePiece
  <2>3. stats'.links_captured = stats.links_captured /\ stats'.links_outside = stats.links_outside
    BY <2>2 DEF Types, Stats
  <2> QED BY <2>1, <2>3 DEF LinksInv
<1>7. CASE MakeEnds
  <2>1. phase = "make" /\ phase' = "link" /\ ~saved' /\ Linked' = 0 /\ UNCHANGED <<scene, kept, stats>>
    BY <1>7 DEF MakeEnds, Types, Linked
  <2>2. Named' \subseteq Nat \ {0}
    BY NamedFacts, <2>1, SameNumbers
  <2>3. \A k \in Named' : ~(k <= Linked')
    <3>1. \A k \in Nat \ {0} : ~(k <= 0)
      OBVIOUS
    <3> QED BY <2>1, <2>2, <3>1
  <2>4. Tally(Linked)' = {}
    BY <2>3 DEF Tally
  <2>5. IsFiniteSet({}) /\ Cardinality({}) = 0
    BY FS_EmptySet
  <2> QED BY <2>1, <2>3, <2>4, <2>5 DEF LinksInv
<1>8. CASE LinkPiece
  <2>1. Ready
    BY <1>8 DEF LinkPiece, Ready
  <2> QED BY <1>0, <1>8, <2>1, LinkedStep
<1>9. CASE LinkEnds
  <2>1. /\ phase = "link" /\ phase' = "idle" /\ Linked = Len(kept) /\ Linked' = Len(kept)
        /\ UNCHANGED <<scene, kept, pieces, stats>>
    BY <1>9 DEF LinkEnds, Linked
  <2>2. /\ Named' = Named /\ Origins' = Origins /\ \A n : Number(n)' = Number(n)
    BY <2>1, SameNumbers, SameOrigins
  <2>3. \A k \in Named : Wired(Number(k))' <=> Wired(Number(k))
    BY <2>1, <2>2 DEF Wired
  <2>4. Tally(Linked)' = Tally(Linked)
    BY <2>1, <2>2, SameOrigins DEF Tally
  <2> QED BY <2>1, <2>2, <2>3, <2>4 DEF LinksInv
<1>10. ASSUME NEW which \in {"a", "b"}, NEW p \in Corners, SetCorner(which, p) PROVE ~Ready'
  BY <1>10 DEF SetCorner, Ready
<1>11. ClearSelection => ~Ready'
  BY DEF ClearSelection, Ready
<1> QED BY <1>1, <1>2, <1>3, <1>4, <1>5, <1>6, <1>7, <1>8, <1>9, <1>10, <1>11 DEF Next

----------------------------------------------------------------------------
(* The theorems *)

CaptureInv == Types /\ FoundInv /\ KeptInv /\ PiecesInv /\ PlacesInv /\ LinksInv

LEMMA CaptureInvariant == Spec => []CaptureInv
<1>1. Init => CaptureInv
  <2> SUFFICES ASSUME Init PROVE CaptureInv
    OBVIOUS
  <2>1. Types
    BY TypesInit
  <2>2. ~Ready /\ phase = "idle" /\ ~saved
    BY DEF Init, Ready
  <2> QED BY <2>1, <2>2 DEF CaptureInv, FoundInv, KeptInv, PiecesInv, PlacesInv, LinksInv, Settled
<1>2. CaptureInv /\ [Next]_vars => CaptureInv'
  <2> SUFFICES ASSUME CaptureInv, [Next]_vars PROVE CaptureInv'
    OBVIOUS
  <2>1. Types'
    BY TypesStep DEF CaptureInv
  <2> QED BY <2>1, FoundStep, KeptStep, PiecesStep, PlacesStep, LinksStep DEF CaptureInv
<1> QED BY <1>1, <1>2, PTL DEF Spec

\* While pieces are made the numbers written down are those of the pieces.
LEMMA NumbersInOrder ==
  ASSUME Types, PiecesInv, Settled
  PROVE  Among(kept_to_piece, Nat \ {0}) = [i \in DOMAIN pieces |-> i]
<1> DEFINE N == PlacesOf(kept_to_piece, Nat \ {0})
<1>1. /\ kept_to_piece \in Seq(Nat) /\ Len(kept_to_piece) = Len(kept) /\ Len(kept) \in Nat
      /\ Made \in Nat /\ pieces \in Seq(PieceType) /\ Len(pieces) = Number(Made)
  BY DEF Types, PiecesInv, Made
<1>2. /\ Named \subseteq 1..Len(kept)
      /\ \A k \in Named : k \in Nat /\ Number(k) # 0 /\ Number(k) \in Nat
  BY NamedFacts, NumberFacts
<1>3. N = {k \in Named : k <= Made}
  <2>1. \A k \in 1..Len(kept) :
          kept_to_piece[k] = IF k \in Named /\ k <= Made THEN Number(k) ELSE 0
    BY DEF PiecesInv
  <2>2. \A k \in 1..Len(kept) : kept_to_piece[k] \in Nat \ {0} <=> k \in Named /\ k <= Made
    BY <1>2, <2>1
  <2>3. DOMAIN kept_to_piece = 1..Len(kept)
    BY <1>1
  <2> QED BY <1>2, <2>2, <2>3 DEF PlacesOf
<1>4. N \subseteq Int /\ IsFiniteSet(N)
  BY <1>1, PlacesFacts
<1>5. ASSUME NEW k \in N PROVE Rank(N, k) = kept_to_piece[k]
  <2>1. k \in Named /\ k <= Made /\ k \in Nat
    BY <1>2, <1>3
  <2>2. \A m \in Named : m <= k => m <= Made
    <3>1. \A m \in Nat : m <= k => m <= Made
      BY <1>1, <2>1
    <3> QED BY <1>2, <3>1
  <2>3. {m \in N : m <= k} = {m \in Named : m <= k}
    BY <1>3, <2>2
  <2>4. Rank(N, k) = Number(k)
    BY <2>3 DEF Rank, Number
  <2> QED BY <1>2, <2>1, <2>4 DEF PiecesInv
<1>6. Cardinality(N) = Len(pieces)
  BY <1>1, <1>3 DEF Number, Rank
<1>7. Among(kept_to_piece, Nat \ {0}) = [i \in 1..Len(pieces) |-> kept_to_piece[InOrder(N)[i]]]
  BY <1>6 DEF Among, Picked
<1>8. \A i \in 1..Len(pieces) : InOrder(N)[i] \in N /\ Rank(N, InOrder(N)[i]) = i
  <2> HIDE DEF N
  <2> QED BY <1>4, <1>6, InOrderFacts
<1>9. \A i \in 1..Len(pieces) : kept_to_piece[InOrder(N)[i]] = i
  BY <1>5, <1>8
<1>10. DOMAIN pieces = 1..Len(pieces)
  BY <1>1
<1> HIDE DEF N
<1> QED BY <1>7, <1>9, <1>10

\* The types of the state, and the vectors the second pass keeps in step
\* (Capture.cpp:291-294, 384-385).
THEOREM CaptureTypeOK == Spec => []TypeOK
<1>1. CaptureInv => TypeOK
  BY NumbersInOrder DEF CaptureInv, TypeOK, Types, PiecesInv, Settled, PieceType
<1> QED BY <1>1, CaptureInvariant, PTL

\* Whatever the scene, a save wires each piece to the pieces of exactly the
\* captured structures its own was linked to and mounted on
\* (Capture.cpp:291-293).
THEOREM WiredAlways == Spec => []WiredLikeTheScene
<1>1. CaptureInv => WiredLikeTheScene
  <2> SUFFICES ASSUME CaptureInv, saved PROVE WiredLikeTheScene
    BY DEF WiredLikeTheScene
  <2>1. Types /\ Settled /\ Made = Len(kept) /\ Linked = Len(kept) /\ Len(kept) \in Nat /\ Distinct
    BY DEF CaptureInv, Types, Settled, Made, Linked, KeptInv, Ready, Distinct
  <2>2. Len(pieces) = Len(Origins) /\ DOMAIN pieces = 1..Len(pieces)
    BY <2>1, PieceOfFacts DEF CaptureInv, Types
  <2>3. ASSUME NEW i \in 1..Len(pieces)
        PROVE  /\ Wired(i) /\ Origins[i] \in ToSet(kept)
               /\ pieces[i].class_index \in DOMAIN classes
               /\ classes[pieces[i].class_index] = scene.path[Origins[i]]
    <3>1. PICK k \in Named : Number(k) = i /\ Origins[i] = kept[k]
      BY <2>1, <2>2, OriginFacts
    <3>2. k \in 1..Len(kept) /\ k <= Len(kept)
      BY <2>1, NamedFacts
    <3>3. Wired(i)
      BY <2>1, <3>1, <3>2 DEF CaptureInv, LinksInv
    <3>4. Origins[i] \in ToSet(kept)
      BY <3>1, <3>2, ToSetFacts DEF CaptureInv, Types
    <3>5. DOMAIN classes = 1..Len(classes)
      BY <2>1 DEF Types
    <3> QED BY <2>1, <3>1, <3>2, <3>3, <3>4, <3>5 DEF CaptureInv, PiecesInv
  <2>4. ASSUME NEW i \in DOMAIN pieces
        PROVE  LET s == Origins[i]
                   neighbours == Among(scene.linked[s], ToSet(Origins) \ {s})
                   links == pieces[i].links
               IN  /\ Len(links) = Len(neighbours)
                   /\ \A k \in DOMAIN links : /\ links[k] \in DOMAIN pieces
                                             /\ Origins[links[k]] = neighbours[k]
                   /\ IF scene.floor[s] \in ToSet(Origins) \ {s}
                      THEN pieces[i].floor \in DOMAIN pieces /\ Origins[pieces[i].floor] = scene.floor[s]
                      ELSE pieces[i].floor = 0
                   /\ pieces[i].class_index \in DOMAIN classes
                   /\ classes[pieces[i].class_index] = scene.path[s]
    <3>1. i \in 1..Len(pieces)
      BY <2>2
    <3>2. Wired(i)
      BY <2>3, <3>1
    <3>3. \A k : k \in DOMAIN pieces <=> k \in 1..Len(pieces)
      BY <2>2
    <3> QED BY ONLY <2>3, <3>1, <3>2, <3>3 DEF Wired
  <2> HIDE DEF Origins
  <2> QED BY <2>2, <2>4 DEF WiredLikeTheScene
<1> QED BY <1>1, CaptureInvariant, PTL

\* Whatever the scene, a save places each piece where its structure stood, from
\* the origin, and within the size (Capture.cpp:234-235, 282-288, 316-318).
THEOREM PlacedAlways == Spec => []PlacedLikeTheScene
<1>1. CaptureInv => PlacedLikeTheScene
  <2> SUFFICES ASSUME CaptureInv, saved, NEW i \in DOMAIN pieces, NEW d \in Axes
               PROVE  /\ Lo[d] + pieces[i].at[d] = scene.at[Origins[i]][d]
                      /\ pieces[i].at[d] \in 0..(Hi[d] - Lo[d])
    BY DEF PlacedLikeTheScene, Axes
  <2>1. Types /\ Settled /\ Made = Len(kept) /\ Len(kept) \in Nat /\ Complete /\ Ready
    BY DEF CaptureInv, Types, Settled, Made, Ready
  <2>2. i \in 1..Len(Origins)
    BY <2>1, OriginFacts DEF CaptureInv, PiecesInv, Types
  <2>3. PICK k \in Named : Number(k) = i /\ Origins[i] = kept[k]
    BY <2>1, <2>2, OriginFacts
  <2>4. k \in 1..Len(kept) /\ kept[k] \in Structures
    BY <2>1, NamedFacts DEF Types
  <2>5. pieces[i].at[d] = scene.at[kept[k]][d] - Lo[d]
    BY <2>1, <2>3, <2>4 DEF CaptureInv, PlacesInv, PlacedAs
  <2>6. /\ Lo[d] \in Int /\ Hi[d] \in Int /\ scene.at[kept[k]][d] \in Int
    BY <2>1, <2>4, BoxTypes
  <2>7. Fits(kept[k])
    <3>1. kept[k] \in ToSet(kept)
      BY <2>1, <2>4, ToSetFacts DEF Types
    <3>2. PICK j \in FittingAt(Seen) : found[j] = kept[k]
      BY <2>1, <3>1 DEF CaptureInv, KeptInv
    <3> QED BY <3>2 DEF FittingAt
  <2>8. Lo[d] - 0 <= scene.at[kept[k]][d] /\ scene.at[kept[k]][d] <= Hi[d] + 0
    BY <2>7 DEF Fits, InBox, Within, Axes
  <2> QED BY <2>3, <2>5, <2>6, <2>8
<1> QED BY <1>1, CaptureInvariant, PTL

\* Every link of a captured structure is captured, counted as pointing out of
\* the box, or leads to itself or to one without a path (Capture.cpp:414-428).
THEOREM LinksAlwaysAddUp == Spec => []LinksAddUp
<1>1. CaptureInv => LinksAddUp
  <2> SUFFICES ASSUME CaptureInv, saved PROVE LinksAddUp
    BY DEF LinksAddUp
  <2>1. Types /\ Linked = Len(kept) /\ Len(kept) \in Nat
    BY DEF CaptureInv, Types, Linked
  <2>2. stats.links_captured + stats.links_outside = Cardinality(Tally(Len(kept)))
    BY <2>1 DEF CaptureInv, LinksInv
  <2>3. Named = {j \in Named : j <= Len(kept)}
    <3>1. \A j \in Named : j <= Len(kept)
      BY <2>1, NamedFacts
    <3> QED BY <3>1
  <2>4. Tally(Len(kept)) = UNION {{kept[k]} \X Counted(kept[k]) : k \in Named}
    BY <2>3 DEF Tally
  <2>5. {{kept[k]} \X Counted(kept[k]) : k \in Named} = {{s} \X Counted(s) : s \in ToSet(Origins)}
    BY <2>1, OriginFacts
  <2> HIDE DEF Origins
  <2>6. stats.links_captured + stats.links_outside =
          Cardinality(UNION {{s} \X Counted(s) : s \in ToSet(Origins)})
    BY <2>2, <2>4, <2>5
  <2> QED BY <2>6 DEF LinksAddUp, Counted, Dropped
<1> QED BY <1>1, CaptureInvariant, PTL

\* The box lies in the sphere around it.
LEMMA BoxInSphere ==
  ASSUME Types, Complete, NEW s \in Structures, InBox(scene.at[s])
  PROVE  InSphere(scene.at[s])
<1>1. ASSUME NEW u \in Int, NEW w \in Int, u <= w, -w <= u
      PROVE  u * u <= w * w
  <2>1. CASE 0 <= u
    <3>1. u * u <= w * u
      BY <1>1, <2>1
    <3>2. w * u <= w * w
      BY <1>1, <2>1
    <3>3. u * u \in Int /\ w * u \in Int /\ w * w \in Int
      OBVIOUS
    <3> QED BY <3>1, <3>2, <3>3
  <2>2. CASE u < 0
    <3> DEFINE v == -u
    <3>0. v \in Int /\ 0 <= v /\ v <= w
      BY <1>1, <2>2
    <3>4. v * v = u * u
      OBVIOUS
    <3> HIDE DEF v
    <3>1. v * v <= w * v
      BY <3>0
    <3>2. w * v <= w * w
      BY <3>0
    <3>3. v * v \in Int /\ w * v \in Int /\ w * w \in Int
      BY <3>0
    <3> QED BY <3>1, <3>2, <3>3, <3>4
  <2> QED BY <2>1, <2>2
<1> DEFINE off(d) == 2 * scene.at[s][d] - Lo[d] - Hi[d]
           dia(d) == Hi[d] - Lo[d]
<1>2. ASSUME NEW d \in Axes
      PROVE  /\ off(d) * off(d) <= dia(d) * dia(d)
             /\ off(d) * off(d) \in Int /\ dia(d) * dia(d) \in Int
  <2>1. Lo[d] \in Int /\ Hi[d] \in Int /\ scene.at[s][d] \in Int
    BY BoxTypes
  <2>2. Lo[d] <= scene.at[s][d] /\ scene.at[s][d] <= Hi[d]
    BY <2>1 DEF InBox, Within, Axes
  <2>3. off(d) \in Int /\ dia(d) \in Int /\ off(d) <= dia(d) /\ -dia(d) <= off(d)
    BY <2>1, <2>2
  <2>4. off(d) * off(d) \in Int /\ dia(d) * dia(d) \in Int
    BY <2>3
  <2> HIDE DEF off, dia
  <2> QED BY <1>1, <2>3, <2>4
<1> HIDE DEF off, dia
<1>3. /\ off("x") * off("x") <= dia("x") * dia("x")
      /\ off("x") * off("x") \in Int /\ dia("x") * dia("x") \in Int
      /\ off("y") * off("y") <= dia("y") * dia("y")
      /\ off("y") * off("y") \in Int /\ dia("y") * dia("y") \in Int
      /\ off("z") * off("z") <= dia("z") * dia("z")
      /\ off("z") * off("z") \in Int /\ dia("z") * dia("z") \in Int
  BY <1>2 DEF Axes
<1>4. off("x") * off("x") + off("y") * off("y") + off("z") * off("z")
        <= dia("x") * dia("x") + dia("y") * dia("y") + dia("z") * dia("z")
  BY <1>3
<1> QED BY <1>4 DEF InSphere, off, dia

LEMMA SeenAll ==
  ASSUME CaptureInv, saved
  PROVE  /\ Seen = Len(found) /\ Len(found) \in Nat /\ Complete /\ Ready /\ Types
         /\ \A i, j \in 1..Len(found) : found[i] = found[j] => i = j
         /\ \A t : t \in Collected <=> \E i \in 1..Len(found) : found[i] = t
<1>1. Types /\ Ready /\ Complete /\ Seen = Len(found) /\ Len(found) \in Nat
  BY DEF CaptureInv, Types, Ready, Seen
<1>2. found \in Injection(1..Len(found), Collected)
  BY <1>1 DEF CaptureInv, FoundInv
<1>3. \A i, j \in 1..Len(found) : found[i] = found[j] => i = j
  BY <1>2 DEF Injection, IsInjective
<1>4. \A i \in 1..Len(found) : found[i] \in Collected
  BY <1>2 DEF Injection
<1>5. \A t \in Collected : \E i \in 1..Len(found) : found[i] = t
  BY <1>1, FoundAll DEF CaptureInv
<1> QED BY <1>1, <1>3, <1>4, <1>5

\* What the octree is asked for is all there is.
AllAwake == scene.awake = Structures

\* No structure near the box is beyond the sphere that is searched.
MissesInReach == \A s \in scene.readable : NearMiss(scene.at[s]) => InSphere(scene.at[s])

\* Of the structures within 500 units of the box none that the octree can
\* return is passed over without being counted (Capture.cpp:263-266).
THEOREM MissesCounted == Spec => [](AllAwake /\ MissesInReach => NearMissesCounted)
<1>1. CaptureInv => (AllAwake /\ MissesInReach => NearMissesCounted)
  <2> SUFFICES ASSUME CaptureInv, AllAwake, MissesInReach, saved PROVE NearMissesCounted
    BY DEF NearMissesCounted
  <2> DEFINE A == MissingAt(Len(found))
             B == {s \in scene.readable : NearMiss(scene.at[s])}
  <2>1. /\ Seen = Len(found) /\ Len(found) \in Nat /\ Complete /\ Ready /\ Types
        /\ \A i, j \in 1..Len(found) : found[i] = found[j] => i = j
        /\ \A t : t \in Collected <=> \E i \in 1..Len(found) : found[i] = t
    BY SeenAll
  <2>2. stats.near_miss = Cardinality(A)
    BY <2>1 DEF CaptureInv, KeptInv
  <2>3. A \subseteq 1..Len(found) /\ IsFiniteSet(A)
    <3>1. A \subseteq 1..Len(found)
      BY DEF MissingAt
    <3> QED BY <2>1, <3>1, UpTo, FS_Subset
  <2>4. \A i, j \in A : found[i] = found[j] => i = j
    BY <2>1, <2>3
  <2>5. B \subseteq Collected
    BY <2>1 DEF Types, Scene, Collected, AllAwake, MissesInReach
  <2>6. \A i \in 1..Len(found) : i \in A <=> found[i] \in B
    BY DEF MissingAt, Misses
  <2> HIDE DEF A, B
  <2>7. \A t : t \in B <=> \E i \in A : found[i] = t
    BY <2>1, <2>3, <2>5, <2>6
  <2>8. IsFiniteSet(B) /\ Cardinality(B) = Cardinality(A)
    BY <2>3, <2>4, <2>7, ImageSize, ZenonT(40)
  <2> QED BY <2>2, <2>8 DEF NearMissesCounted, B
<1> QED BY <1>1, CaptureInvariant, PTL

\* A structure in the box that the octree can return is captured or counted
\* among those lost (Main.cpp:108-109).
THEOREM LossesAlwaysShown == Spec => [](AllAwake => LossesShown)
<1>1. CaptureInv => (AllAwake => LossesShown)
  <2> SUFFICES ASSUME CaptureInv, AllAwake, saved PROVE LossesShown
    BY DEF LossesShown
  <2> DEFINE A == UnreadableAt(Len(found))
             inside == {s \in Structures : InBox(scene.at[s])}
             lost == {t \in Structures : \E i \in A : found[i] = t}
  <2>1. /\ Seen = Len(found) /\ Len(found) \in Nat /\ Complete /\ Ready /\ Types
        /\ \A i, j \in 1..Len(found) : found[i] = found[j] => i = j
        /\ \A t : t \in Collected <=> \E i \in 1..Len(found) : found[i] = t
    BY SeenAll
  <2>2. stats.no_transform = Cardinality(A) /\ stats.no_path + Len(pieces) = Len(kept)
        /\ kept \in Seq(Structures) /\ Len(kept) \in Nat /\ Distinct
    BY <2>1 DEF CaptureInv, KeptInv, PiecesInv, Settled, Made, Types, Distinct
  <2>3. A \subseteq 1..Len(found) /\ IsFiniteSet(A)
    <3>1. A \subseteq 1..Len(found)
      BY DEF UnreadableAt
    <3> QED BY <2>1, <3>1, UpTo, FS_Subset
  <2>4. inside \subseteq Collected
    BY <2>1, BoxInSphere DEF Collected, AllAwake
  <2>5. Collected \subseteq Structures
    BY <2>1 DEF Collected, Types, Scene
  <2>6. IsFiniteSet(lost) /\ Cardinality(lost) = Cardinality(A)
    <3>1. \A t : t \in lost <=> \E i \in A : found[i] = t
      BY <2>1, <2>3, <2>5
    <3>2. \A i, j \in A : found[i] = found[j] => i = j
      BY <2>1, <2>3
    <3> HIDE DEF A, lost
    <3> QED BY <2>3, <3>1, <3>2, ImageSize, ZenonT(40)
  <2>7. IsFiniteSet(ToSet(kept)) /\ Cardinality(ToSet(kept)) = Len(kept)
    <3>1. \A t : t \in ToSet(kept) <=> \E i \in 1..Len(kept) : kept[i] = t
      BY <2>2, ToSetFacts
    <3>2. IsFiniteSet(1..Len(kept)) /\ Cardinality(1..Len(kept)) = Len(kept)
      BY <2>2, UpTo
    <3>3. \A i, j \in 1..Len(kept) : kept[i] = kept[j] => i = j
      BY <2>2 DEF Distinct
    <3>4. IsFiniteSet(ToSet(kept)) /\ Cardinality(ToSet(kept)) = Cardinality(1..Len(kept))
      BY <3>1, <3>2, <3>3, ImageSize
    <3> QED BY <3>2, <3>4
  <2>8. ASSUME NEW t \in inside PROVE t \in ToSet(kept) \/ t \in lost
    <3>1. PICK i \in 1..Len(found) : found[i] = t
      BY <2>1, <2>4
    <3>2. CASE t \in scene.readable
      <4>1. i \in FittingAt(Seen)
        BY <2>1, <3>1, <3>2 DEF FittingAt, Fits
      <4> QED BY <2>1, <3>1, <4>1 DEF CaptureInv, KeptInv
    <3>3. CASE t \notin scene.readable
      <4>1. i \in A
        BY <3>1, <3>3 DEF UnreadableAt
      <4> QED BY <3>1, <4>1
    <3> QED BY <3>2, <3>3
  <2> HIDE DEF inside, lost, A
  <2>9. inside \subseteq ToSet(kept) \cup lost
    BY <2>8
  <2>10. /\ IsFiniteSet(ToSet(kept) \cup lost)
         /\ Cardinality(ToSet(kept) \cup lost) =
              Cardinality(ToSet(kept)) + Cardinality(lost) - Cardinality(ToSet(kept) \cap lost)
    BY <2>6, <2>7, FS_Union
  <2>11. IsFiniteSet(ToSet(kept) \cap lost)
    <3>1. ToSet(kept) \cap lost \subseteq lost
      OBVIOUS
    <3> QED BY <2>6, <3>1, FS_Subset
  <2>12. Cardinality(inside) <= Cardinality(ToSet(kept) \cup lost)
    BY <2>9, <2>10, FS_Subset
  <2>13. /\ Cardinality(ToSet(kept) \cap lost) \in Nat /\ Cardinality(lost) \in Nat
         /\ Cardinality(ToSet(kept) \cup lost) \in Nat
    BY <2>6, <2>10, <2>11, FS_CardinalityType
  <2>14. IsFiniteSet(inside) /\ Cardinality(inside) \in Nat
    BY <2>9, <2>10, FS_Subset, FS_CardinalityType
  <2>15. Cardinality(inside) <= Len(kept) + Cardinality(A)
    BY <2>2, <2>6, <2>7, <2>10, <2>12, <2>13, <2>14
  <2>16. Len(pieces) \in Nat /\ stats.no_path \in Nat /\ stats.no_transform \in Nat
    BY <2>1 DEF Types, Stats
  <2>17. Cardinality(inside) <= Len(pieces) + stats.no_path + stats.no_transform
    BY <2>2, <2>15, <2>16
  <2> QED BY <2>17 DEF LossesShown, inside
<1> QED BY <1>1, CaptureInvariant, PTL
============================================================================
