----------------------------- MODULE MCStorage -----------------------------
(* Two names and three blueprints, one of a newer format. *)
EXTENDS Storage, TLC

CONSTANTS base, tower, b1, b2, b3

TwoNames == {base, tower}
ThreeBlueprints == {b1, b2, b3}
OneNewer == {b3}
Detected == {"crash", "open", "write", "rename"}
FullDisk == Detected \cup {"disk_full"}
============================================================================
