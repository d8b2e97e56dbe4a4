------------------------------ MODULE MCPlugin ------------------------------
(***************************************************************************)
(* Two admins, two blueprints (one of a missing mod) and two places, with  *)
(* the corner across from the origin marked.                               *)
(***************************************************************************)
EXTENDS MCPaste, Plugin

PluginClasses == AllClasses \cup {"torch"}
PluginMap == MapClasses \cup {"torch"}
Torch == <<"torch">>
\* A torch away from the corner of the box, where its own marker would stand, and
\* a blueprint of a missing mod.
Beacon == <<Pc("torch", At(300, 100, 0), 0, <<>>)>>
Beacons == {Beacon, Unavailable}
Torches == {[cls |-> "torch", at |-> [Here EXCEPT !.x = @ + 700]]}
============================================================================
