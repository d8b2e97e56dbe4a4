---------------------------- MODULE PasteRefines ----------------------------
(***************************************************************************)
(* The paste engine keeps PastePromise. A cursor into the placement order  *)
(* stands for the pieces tried, the two link cursors for the edges joined, *)
(* and the in-memory record backed by undo.gz for what is remembered.      *)
(***************************************************************************)
EXTENDS Paste

\* NoJob stands for no plan as well.
ASSUME PromiseAssumption == NoJob \notin Blueprints

PromisedPlan == IF Running THEN g_job.bp ELSE NoJob
PromisedShowcase == Running /\ g_job.opts.invulnerable
PromisedTried == IF Running THEN {g_job.order[k] : k \in 1..g_job.cursor} ELSE {}
PromisedPlaced == IF Running THEN Placed ELSE {}
PromisedJoined == IF Running THEN Taken \cap JoinableEdges ELSE {}
PromisedRecord == [paste  |-> UndoRecord.paste,
                   pieces |-> {it.piece : it \in UndoRecord.items}]

P == INSTANCE PastePromise WITH
       Plans <- Blueprints, NoPlan <- NoJob,
       plan <- PromisedPlan, showcase <- PromisedShowcase,
       tried <- PromisedTried, placed <- PromisedPlaced,
       joined <- PromisedJoined, count <- pastes,
       remembered <- PromisedRecord

\* As long as undo.gz can be written and removed, every step of the engine is
\* a step of the promise: nothing is tried twice or out of height order, no
\* edge is joined before the last piece has been tried, only a complete paste
\* is ever remembered, and it is remembered in memory and on disk alike.
KeepsPromise == P!Promise
============================================================================
