---------------------------- MODULE PastePromise ----------------------------
(***************************************************************************)
(* What a paste promises the admin, said without budgets, cursors, actors  *)
(* or files. Pieces are tried once each, from the bottom up; when all have *)
(* been tried, the pieces that were placed are joined along the edges of   *)
(* the blueprint; only a paste that got through all of it is remembered,   *)
(* and it stays remembered, across reloads and crashes and through later   *)
(* pastes that came to nothing, until it is undone or another one          *)
(* completes. A showcase paste is not joined.                              *)
(***************************************************************************)
EXTENDS Integers, Sequences

CONSTANTS
  Plans,     \* blueprints: sequences of pieces with at.z and links
  NoPlan

VARIABLES
  plan,        \* the blueprint being pasted, or NoPlan
  showcase,    \* whether it is a showcase build
  tried,       \* pieces attempted so far
  placed,      \* those that were placed
  joined,      \* edges, as <<piece, position in its links>>
  count,       \* pastes started
  remembered   \* [paste, pieces] of the paste undo would take

promiseVars == <<plan, showcase, tried, placed, joined, count, remembered>>

Nothing == [paste |-> 0, pieces |-> {}]

Pieces == IF plan = NoPlan THEN {} ELSE DOMAIN plan

\* The edges between two pieces that were placed.
Sound == {e \in UNION {{<<i, k>> : k \in DOMAIN plan[i].links} : i \in Pieces} :
            e[1] \in placed /\ plan[e[1]].links[e[2]] \in placed}

Start ==
  /\ plan = NoPlan
  /\ tried = {} /\ placed = {} /\ joined = {}

PromiseInit ==
  /\ Start
  /\ showcase = FALSE
  /\ count = 0
  /\ remembered = Nothing

Begin(p, s) ==
  /\ plan = NoPlan
  /\ plan' = p
  /\ showcase' = s
  /\ count' = count + 1
  /\ UNCHANGED <<tried, placed, joined, remembered>>

Try(i) ==
  /\ plan # NoPlan
  /\ i \in Pieces \ tried
  /\ \A j \in Pieces \ tried : plan[i].at.z <= plan[j].at.z
  /\ tried' = tried \cup {i}
  /\ placed' \in {placed, placed \cup {i}}
  /\ UNCHANGED <<plan, showcase, joined, count, remembered>>

Join(e) ==
  /\ plan # NoPlan
  /\ ~showcase
  /\ tried = Pieces
  /\ e \in Sound \ joined
  /\ joined' = joined \cup {e}
  /\ UNCHANGED <<plan, showcase, tried, placed, count, remembered>>

Over ==
  /\ plan' = NoPlan
  /\ showcase' = FALSE
  /\ tried' = {} /\ placed' = {} /\ joined' = {}
  /\ UNCHANGED count

Done ==
  /\ plan # NoPlan
  /\ tried = Pieces
  /\ joined = IF showcase THEN {} ELSE Sound

Complete ==
  /\ Done
  /\ remembered' = [paste |-> count, pieces |-> placed]
  /\ Over

\* The server dies while it writes down what to remember.
CompleteForgotten ==
  /\ Done
  /\ remembered' = Nothing
  /\ Over

\* Cancelled, reloaded or crashed: what was remembered before still is.
GiveUp ==
  /\ plan # NoPlan
  /\ Over
  /\ UNCHANGED remembered

Undo ==
  /\ plan = NoPlan
  /\ remembered.pieces # {}
  /\ remembered' = Nothing
  /\ UNCHANGED <<plan, showcase, tried, placed, joined, count>>

PromiseNext ==
  \/ \E p \in Plans, s \in BOOLEAN : Begin(p, s)
  \/ \E i \in Pieces : Try(i)
  \/ \E e \in Sound : Join(e)
  \/ Complete
  \/ CompleteForgotten
  \/ GiveUp
  \/ Undo

Promise == PromiseInit /\ [][PromiseNext]_promiseVars
============================================================================
