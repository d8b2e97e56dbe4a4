------------------------------ MODULE Storage ------------------------------
(***************************************************************************)
(* The blueprint library of src/src/Storage.cpp: a directory of gzipped    *)
(* files, one to a name. Save writes a temporary file beside the entry and *)
(* renames it over; the process may die between any two of its steps, and  *)
(* each of them may fail on its own.                                       *)
(*                                                                         *)
(* A file is what Load makes of it: a blueprint, or Torn when Decompress   *)
(* (too short, or its checksum wrong) or the JSON parser refuses it.       *)
(***************************************************************************)
EXTENDS FiniteSets

CONSTANTS
  Names,        \* the names IsValidName accepts
  Blueprints,
  Newer,        \* those of a format above kFormatVersion, from newer plugins
  Events,       \* which failures are explored
  Absent, Torn, NoSave, Refused

\* What there may be where Load looks for an entry.
Contents == Blueprints \cup {Absent, Torn}
Saves == [name: Names, bp: Blueprints \ Newer,
          stage: {"open", "write", "close", "rename", "reply"}]

ASSUME StorageAssumption ==
  /\ Newer \subseteq Blueprints
  /\ Absent \notin Blueprints
  /\ Torn \notin Blueprints
  /\ Absent # Torn
  /\ Refused \notin Blueprints
  /\ NoSave \notin Saves

VARIABLES
  files,        \* <name>.sbp
  temps,        \* <name>.sbp.tmp
  saving,       \* the Save that is running, or NoSave
  told          \* history: what the admin was last told each entry holds

vars == <<files, temps, saving, told>>

Init ==
  /\ files = [n \in Names |-> Absent]
  /\ temps = [n \in Names |-> Absent]
  /\ saving = NoSave
  /\ told = [n \in Names |-> Absent]

----------------------------------------------------------------------------
(* Save *)

\* Bound: one save runs at a time, as on the game thread.
BeginSave(n, b) ==
  /\ saving = NoSave
  /\ saving' = [name |-> n, bp |-> b, stage |-> "open"]
  /\ UNCHANGED <<files, temps, told>>

At(stage) == saving # NoSave /\ saving.stage = stage

Advance(stage) == saving' = [saving EXCEPT !.stage = stage]

\* "save failed": the handler returns and nothing was promised.
GiveUp == saving' = NoSave

\* What follows a temporary file that did not open.
OpenFailed == GiveUp

\* Mistake: the check after the write is dropped.
WriteOn == Advance("rename")

\* What follows a write that did not go through.
WriteFailed == GiveUp

\* Mistake: the error of the rename is not looked at.
RenameOn == Advance("reply")

\* What follows a rename that did not go through.
RenameFailed == GiveUp

OpenTemp ==
  /\ At("open")
  /\ \/ /\ temps' = [temps EXCEPT ![saving.name] = Torn]
        /\ Advance("write")
     \/ /\ "open" \in Events
        /\ OpenFailed
        /\ UNCHANGED temps
  /\ UNCHANGED <<files, told>>

WriteTemp ==
  /\ At("write")
  /\ \/ Advance("close")
     \/ "write" \in Events /\ WriteFailed
  /\ UNCHANGED <<files, temps, told>>

\* The stream is closed, and so flushed, after its state was looked at: on a
\* full disk the tail of the file is lost and nobody is told.
CloseTemp ==
  /\ At("close")
  /\ \E written \in {saving.bp} \cup (IF "disk_full" \in Events THEN {Torn} ELSE {}) :
       temps' = [temps EXCEPT ![saving.name] = written]
  /\ Advance("rename")
  /\ UNCHANGED <<files, told>>

RenameTemp ==
  /\ At("rename")
  /\ \/ /\ files' = [files EXCEPT ![saving.name] = temps[saving.name]]
        /\ temps' = [temps EXCEPT ![saving.name] = Absent]
        /\ Advance("reply")
     \/ /\ "rename" \in Events
        /\ temps' \in {temps, [temps EXCEPT ![saving.name] = Absent]}
        /\ RenameFailed
        /\ UNCHANGED files
  /\ UNCHANGED told

\* "Saved '<name>'" (HandleSave).
ReplySaved ==
  /\ At("reply")
  /\ told' = [told EXCEPT ![saving.name] = saving.bp]
  /\ GiveUp
  /\ UNCHANGED <<files, temps>>

----------------------------------------------------------------------------
(* The other operations *)

\* What Load gives for an entry: Refused stands for each of its errors.
Load(n) == IF files[n] \in Blueprints \ Newer THEN files[n] ELSE Refused

List == {n \in Names : files[n] # Absent}

Delete(n) ==
  /\ saving = NoSave
  /\ files[n] # Absent
  /\ files' = [files EXCEPT ![n] = Absent]
  /\ told' = [told EXCEPT ![n] = Absent]
  /\ UNCHANGED <<temps, saving>>

\* A library is moved by copying its files (README.md:323).
CopyIn(n, b) ==
  /\ saving = NoSave
  /\ files' = [files EXCEPT ![n] = b]
  /\ told' = [told EXCEPT ![n] = b]
  /\ UNCHANGED <<temps, saving>>

\* The process dies: whoever waited for an answer gets none, and lists the
\* library anew after the restart. The temporary file stays where it is.
Crash ==
  /\ "crash" \in Events
  /\ saving # NoSave
  /\ saving' = NoSave
  /\ told' = files
  /\ UNCHANGED <<files, temps>>

Save == OpenTemp \/ WriteTemp \/ CloseTemp \/ RenameTemp \/ ReplySaved

Next ==
  \/ \E n \in Names, b \in Blueprints \ Newer : BeginSave(n, b)
  \/ Save
  \/ \E n \in Names : Delete(n)
  \/ \E n \in Names, b \in Blueprints : CopyIn(n, b)
  \/ Crash

Spec == Init /\ [][Next]_vars

----------------------------------------------------------------------------
(* Properties *)

\* The types of the state, and the stage of a save agreeing with its temporary
\* file: there from the open to the rename, torn until it is closed
\* (Storage.cpp:61-70).
TypeOK ==
  /\ files \in [Names -> Contents]
  /\ temps \in [Names -> Contents]
  /\ saving \in Saves \cup {NoSave}
  /\ told \in [Names -> Contents]
  /\ At("write") \/ At("close") => temps[saving.name] = Torn
  /\ At("rename") => temps[saving.name] # Absent

\* "An interrupted save cannot leave a truncated library entry behind"
\* (Storage.cpp:56-57): every entry is whole, wherever the save stopped.
EntriesWhole == \A n \in Names : files[n] # Torn

\* The library is what the admin was told: between commands it lists exactly
\* the names saved and not deleted, and Load gives back for each the
\* blueprint of the last save that was reported, or refuses a newer format
\* (Storage.cpp:77-127, Main.cpp:99-106). A save that was reported as failed
\* changed nothing.
LibraryAsTold ==
  saving = NoSave =>
    /\ List = {n \in Names : told[n] # Absent}
    /\ \A n \in List : Load(n) = IF told[n] \in Newer THEN Refused ELSE told[n]

L == INSTANCE Library WITH entries <- files

\* Every step of the library's files is one of Library: an entry is replaced
\* whole or not at all, by a save, and reported only when it is there
\* (Storage.cpp:42-75, 122-127).
KeepsLibrary == L!Promise
============================================================================
