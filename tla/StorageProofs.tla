--------------------------- MODULE StorageProofs ---------------------------
(***************************************************************************)
(* The theorems of Storage, for any library: its types whatever fails, and *)
(* as long as a full disk is noticed (no "disk_full") that its entries are *)
(* whole, that it is what the admin was told, and that it is a Library.    *)
(***************************************************************************)
EXTENDS Storage, TLAPS

\* The hypothesis of the last three theorems.
WritesNoticed == "disk_full" \notin Events

\* A temporary file is whole once it has been closed.
WholeOnceClosed == At("rename") => temps[saving.name] = saving.bp

\* The files are what was told, but for the entry just renamed.
Reported ==
  \A n \in Names :
    files[n] = IF At("reply") /\ n = saving.name THEN saving.bp ELSE told[n]

StorageInv == TypeOK /\ EntriesWhole /\ WholeOnceClosed /\ Reported

\* NoSave is not a save, so a running save has fields of the right types.
LEMMA SavingFacts ==
  ASSUME TypeOK, saving # NoSave
  PROVE  /\ saving \in Saves
         /\ saving.name \in Names
         /\ saving.bp \in Blueprints \ Newer
  BY DEF TypeOK, Saves

LEMMA NotASave == \A s \in Saves : s # NoSave
  BY StorageAssumption

\* Storage keeps its types and the stages of its saves in step with the
\* temporary file, whatever fails.
LEMMA NextTypes == TypeOK /\ [Next]_vars => TypeOK'
<1> SUFFICES ASSUME TypeOK, [Next]_vars PROVE TypeOK'
  OBVIOUS
<1>f. saving # NoSave => saving \in Saves /\ saving.name \in Names /\ saving.bp \in Blueprints \ Newer
  BY SavingFacts
<1>g. Absent # Torn /\ Newer \subseteq Blueprints /\ Absent \notin Blueprints /\ Torn \notin Blueprints
  BY StorageAssumption
<1>n. \A s \in Saves : s # NoSave
  BY NotASave
<1>1. ASSUME NEW n \in Names, NEW b \in Blueprints \ Newer, BeginSave(n, b) PROVE TypeOK'
  BY <1>1, <1>n DEF BeginSave, TypeOK, Saves, At
<1>2. CASE OpenTemp
  <2>1. saving # NoSave
    BY <1>2 DEF OpenTemp, At
  <2>2. temps' \in [Names -> Contents]
    BY <1>2, <1>f, <2>1 DEF OpenTemp, TypeOK, Contents
  <2>3. CASE Advance("write") /\ temps' = [temps EXCEPT ![saving.name] = Torn]
    BY <1>2, <1>f, <1>g, <2>1, <2>2, <2>3 DEF OpenTemp, Advance, TypeOK, At, Saves
  <2>4. CASE OpenFailed
    BY <1>2, <2>2, <2>4 DEF OpenTemp, OpenFailed, GiveUp, TypeOK, At
  <2> QED
    BY <1>2, <2>3, <2>4 DEF OpenTemp
<1>3. CASE WriteTemp
  <2>1. CASE Advance("close")
    BY <1>3, <1>f, <2>1 DEF WriteTemp, Advance, TypeOK, At, Saves
  <2>2. CASE WriteFailed
    BY <1>3, <2>2 DEF WriteTemp, WriteFailed, GiveUp, TypeOK, At
  <2> QED
    BY <1>3, <2>1, <2>2 DEF WriteTemp
<1>4. CASE CloseTemp
  <2>1. saving \in Saves /\ saving.name \in Names /\ saving.bp \in Blueprints
    BY <1>4, <1>f DEF CloseTemp, At
  <2>2. PICK written \in {saving.bp, Torn} : temps' = [temps EXCEPT ![saving.name] = written]
    BY <1>4 DEF CloseTemp
  <2>3. temps' \in [Names -> Contents] /\ temps'[saving.name] = written /\ written # Absent
    BY <2>1, <2>2, <1>g DEF TypeOK, Contents
  <2>4. saving' = [saving EXCEPT !.stage = "rename"] /\ saving' \in Saves /\ saving'.name = saving.name /\ saving'.stage = "rename"
    BY <1>4, <2>1 DEF CloseTemp, Advance, Saves
  <2> QED
    BY <1>4, <2>3, <2>4 DEF CloseTemp, TypeOK, At
<1>5. CASE RenameTemp
  <2>1. saving \in Saves /\ saving.name \in Names
    BY <1>5, <1>f DEF RenameTemp, At
  <2>2. temps' \in [Names -> Contents] /\ files' \in [Names -> Contents] /\ told' = told
    BY <1>5, <2>1 DEF RenameTemp, TypeOK, Contents
  <2>3. CASE Advance("reply")
    BY <2>1, <2>2, <2>3 DEF Advance, TypeOK, At, Saves
  <2>4. CASE RenameFailed
    BY <2>2, <2>4 DEF RenameFailed, GiveUp, TypeOK, At
  <2> QED
    BY <1>5, <2>3, <2>4 DEF RenameTemp
<1>6. CASE ReplySaved
  <2>1. saving.name \in Names /\ saving.bp \in Contents
    BY <1>6, <1>f DEF ReplySaved, At, Contents
  <2> QED
    BY <1>6, <2>1 DEF ReplySaved, GiveUp, TypeOK, At
<1>7. ASSUME NEW n \in Names, Delete(n) PROVE TypeOK'
  BY <1>7 DEF Delete, TypeOK, At, Contents
<1>8. ASSUME NEW n \in Names, NEW b \in Blueprints, CopyIn(n, b) PROVE TypeOK'
  BY <1>8 DEF CopyIn, TypeOK, At, Contents
<1>9. CASE Crash
  BY <1>9 DEF Crash, TypeOK, At
<1>10. CASE UNCHANGED vars
  BY <1>10 DEF vars, TypeOK, At
<1> QED
  BY <1>1, <1>2, <1>3, <1>4, <1>5, <1>6, <1>7, <1>8, <1>9, <1>10 DEF Next, Save

\* The types of the library's state, and of a running save its stage and
\* temporary file in step (TypeOK), whatever fails.
THEOREM StorageTypeCorrect == Spec => []TypeOK
<1>1. Init => TypeOK
  BY DEF Init, TypeOK, Contents, At
<1> QED
  BY <1>1, NextTypes, PTL DEF Spec

----------------------------------------------------------------------------

LEMMA InitialStorage == Init => StorageInv
  BY StorageAssumption DEF Init, StorageInv, TypeOK, EntriesWhole, WholeOnceClosed, Reported,
                           Contents, At

\* The inductive invariant: what the rename moves into place is the blueprint
\* of the save, and the files are what was told but for a save not yet reported.
LEMMA NextStorage ==
  ASSUME WritesNoticed, StorageInv, [Next]_vars
  PROVE  StorageInv'
<1>t. TypeOK /\ TypeOK'
  BY NextTypes DEF StorageInv
<1> DEFINE Kept == EntriesWhole /\ WholeOnceClosed /\ Reported
<1>s. SUFFICES Kept'
  BY <1>t DEF StorageInv
<1>k. Kept
  BY DEF StorageInv
<1>f. saving # NoSave => saving \in Saves /\ saving.name \in Names /\ saving.bp \in Blueprints \ Newer
  BY SavingFacts, <1>t
<1>g. Torn \notin Blueprints /\ Absent # Torn
  BY StorageAssumption
<1>n. NoSave \notin Saves
  BY StorageAssumption
<1>0. ASSUME UNCHANGED <<files, told>>, ~At("reply"), ~At("rename")', ~At("reply")' PROVE Kept'
  BY <1>0, <1>k DEF EntriesWhole, WholeOnceClosed, Reported
<1>1. ASSUME NEW n \in Names, NEW b \in Blueprints \ Newer, BeginSave(n, b) PROVE Kept'
  <2>1. saving'.stage = "open" /\ saving = NoSave
    BY <1>1 DEF BeginSave
  <2> QED
    BY <1>1, <2>1, <1>0 DEF BeginSave, At
<1>2. CASE OpenTemp
  <2>1. At("open") /\ (saving' = NoSave \/ saving'.stage = "write")
    BY <1>2, <1>f DEF OpenTemp, OpenFailed, GiveUp, Advance, At, Saves
  <2> QED
    BY <1>2, <2>1, <1>0 DEF OpenTemp, At
<1>3. CASE WriteTemp
  <2>1. At("write") /\ (saving' = NoSave \/ saving'.stage = "close")
    BY <1>3, <1>f DEF WriteTemp, WriteFailed, GiveUp, Advance, At, Saves
  <2> QED
    BY <1>3, <2>1, <1>0 DEF WriteTemp, At
<1>4. CASE CloseTemp
  <2>1. saving \in Saves /\ saving.name \in Names /\ At("close")
    BY <1>4, <1>f DEF CloseTemp, At
  <2>2. temps' = [temps EXCEPT ![saving.name] = saving.bp]
    BY <1>4 DEF CloseTemp, WritesNoticed
  <2>3. saving'.stage = "rename" /\ saving'.name = saving.name /\ saving'.bp = saving.bp
    BY <1>4, <2>1 DEF CloseTemp, Advance, Saves
  <2>4. WholeOnceClosed'
    BY <1>t, <2>1, <2>2, <2>3 DEF WholeOnceClosed, TypeOK
  <2>5. EntriesWhole' /\ Reported'
    BY <1>4, <1>k, <2>1, <2>3 DEF CloseTemp, EntriesWhole, Reported, At
  <2> QED
    BY <2>4, <2>5
<1>5. CASE RenameTemp
  <2>1. saving \in Saves /\ saving.name \in Names /\ At("rename") /\ saving.bp # Torn
    BY <1>5, <1>f, <1>g DEF RenameTemp, At
  <2>2. told' = told /\ \A n \in Names : files[n] = told[n]
    BY <1>5, <1>k, <2>1 DEF RenameTemp, Reported, At
  <2>3. CASE files' = [files EXCEPT ![saving.name] = temps[saving.name]] /\ Advance("reply")
    <3>1. files' = [files EXCEPT ![saving.name] = saving.bp]
      BY <2>1, <2>3, <1>k DEF WholeOnceClosed
    <3>2. saving'.stage = "reply" /\ saving'.name = saving.name /\ saving'.bp = saving.bp
          /\ saving' \in Saves
      BY <2>1, <2>3 DEF Advance, Saves
    <3>3. EntriesWhole'
      BY <3>1, <2>1, <1>k, <1>t DEF EntriesWhole, TypeOK
    <3>4. Reported'
      BY <3>1, <3>2, <2>2, <1>t, <1>n DEF Reported, At, TypeOK
    <3> QED
      BY <3>2, <3>3, <3>4 DEF WholeOnceClosed, At
  <2>4. CASE RenameFailed /\ UNCHANGED files
    BY <2>1, <2>2, <2>4, <1>0, <1>k DEF RenameFailed, GiveUp, At
  <2> QED
    BY <1>5, <2>3, <2>4 DEF RenameTemp
<1>6. CASE ReplySaved
  <2>1. saving' = NoSave /\ files' = files /\ saving.name \in Names
        /\ told' = [told EXCEPT ![saving.name] = saving.bp] /\ At("reply")
    BY <1>6, <1>f DEF ReplySaved, GiveUp, At
  <2>2. Reported'
    BY <1>k, <1>t, <2>1 DEF Reported, At, TypeOK
  <2> QED
    BY <1>k, <2>1, <2>2 DEF EntriesWhole, WholeOnceClosed, At
<1>7. ASSUME NEW n \in Names, Delete(n) PROVE Kept'
  BY <1>7, <1>k, <1>t, <1>g DEF Delete, EntriesWhole, WholeOnceClosed, Reported, At, TypeOK
<1>8. ASSUME NEW n \in Names, NEW b \in Blueprints, CopyIn(n, b) PROVE Kept'
  BY <1>8, <1>k, <1>t, <1>g DEF CopyIn, EntriesWhole, WholeOnceClosed, Reported, At, TypeOK
<1>9. CASE Crash
  BY <1>9, <1>k DEF Crash, EntriesWhole, WholeOnceClosed, Reported, At
<1>10. CASE UNCHANGED vars
  BY <1>10, <1>k DEF vars, EntriesWhole, WholeOnceClosed, Reported, At
<1> QED
  BY <1>1, <1>2, <1>3, <1>4, <1>5, <1>6, <1>7, <1>8, <1>9, <1>10 DEF Next, Save

LEMMA StorageInvariant == WritesNoticed => (Spec => []StorageInv)
<1> SUFFICES ASSUME WritesNoticed PROVE Spec => []StorageInv
  OBVIOUS
<1>1. StorageInv /\ [Next]_vars => StorageInv'
  BY NextStorage
<1> QED
  BY <1>1, InitialStorage, PTL DEF Spec

\* No failure that is noticed, and no crash, leaves a truncated entry.
THEOREM EntriesStayWhole == WritesNoticed => (Spec => []EntriesWhole)
<1>1. StorageInv => EntriesWhole
  BY DEF StorageInv
<1> QED
  BY <1>1, StorageInvariant, PTL

\* The library always is what the admin was told.
THEOREM ToldTheTruth == WritesNoticed => (Spec => []LibraryAsTold)
<1>1. StorageInv => LibraryAsTold
  <2> SUFFICES ASSUME StorageInv, saving = NoSave
               PROVE  /\ List = {n \in Names : told[n] # Absent}
                      /\ \A n \in List :
                           Load(n) = IF told[n] \in Newer THEN Refused ELSE told[n]
    BY DEF LibraryAsTold
  <2>1. \A n \in Names : files[n] = told[n] /\ files[n] # Torn /\ files[n] \in Contents
    BY DEF StorageInv, Reported, At, EntriesWhole, TypeOK
  <2> QED
    BY <2>1, StorageAssumption DEF List, Load, Contents
<1> QED
  BY <1>1, StorageInvariant, PTL

\* Storage implements Library.
THEOREM StorageKeepsLibrary == WritesNoticed => (Spec => KeepsLibrary)
<1>1. Init => L!Init
  BY DEF Init, L!Init
<1>2. ASSUME StorageInv, [Next]_vars
      PROVE  [L!Next]_<<files, told>>
  <2>f. saving # NoSave => saving \in Saves /\ saving.name \in Names /\ saving.bp \in Blueprints \ Newer
    BY <1>2, SavingFacts DEF StorageInv
  <2>1. CASE RenameTemp
    <3>1. saving.name \in Names /\ saving.bp \in Blueprints /\ told' = told
          /\ temps[saving.name] = saving.bp
      BY <1>2, <2>1, <2>f DEF RenameTemp, At, StorageInv, WholeOnceClosed
    <3>2. CASE files' = [files EXCEPT ![saving.name] = saving.bp]
      BY <3>1, <3>2 DEF L!Next, L!Put
    <3>3. CASE files' = files
      BY <3>1, <3>3
    <3> QED
      BY <2>1, <3>1, <3>2, <3>3 DEF RenameTemp
  <2>2. CASE ReplySaved
    <3>1. saving.name \in Names /\ files[saving.name] = saving.bp
      BY <1>2, <2>2, <2>f DEF ReplySaved, At, StorageInv, Reported
    <3>2. L!Report(saving.name)
      BY <2>2, <3>1 DEF ReplySaved, L!Report
    <3> QED
      BY <3>1, <3>2 DEF L!Next
  <2>3. ASSUME NEW n \in Names, Delete(n) PROVE L!Remove(n)
    BY <2>3 DEF Delete, L!Remove
  <2>4. ASSUME NEW n \in Names, NEW b \in Blueprints, CopyIn(n, b) PROVE L!PutAndReport(n, b)
    BY <2>4 DEF CopyIn, L!PutAndReport
  <2>5. CASE Crash
    BY <2>5 DEF Crash, L!Next, L!LookAgain
  <2>6. ASSUME NEW n \in Names, NEW b \in Blueprints \ Newer, BeginSave(n, b)
        PROVE  UNCHANGED <<files, told>>
    BY <2>6 DEF BeginSave
  <2>7. CASE OpenTemp \/ WriteTemp \/ CloseTemp \/ UNCHANGED vars
    BY <2>7 DEF OpenTemp, WriteTemp, CloseTemp, vars
  <2> QED
    BY <1>2, <2>1, <2>2, <2>3, <2>4, <2>5, <2>6, <2>7 DEF Next, Save, L!Next
<1> QED
  BY <1>1, <1>2, StorageInvariant, PTL DEF Spec, KeepsLibrary, L!Promise
============================================================================
