------------------------------ MODULE Library ------------------------------
(***************************************************************************)
(* What src/src/Storage.cpp promises: a library whose entries are whole    *)
(* blueprints, put and removed in one step, and an admin who is told only  *)
(* of what is there.                                                       *)
(***************************************************************************)
CONSTANTS Names, Blueprints, Absent

VARIABLES entries, told

Init ==
  /\ entries = [n \in Names |-> Absent]
  /\ told = entries

Put(n, b) ==
  /\ entries' = [entries EXCEPT ![n] = b]
  /\ UNCHANGED told

\* Nothing is reported of other entries than the one put.
Report(n) ==
  /\ told' = [told EXCEPT ![n] = entries[n]]
  /\ UNCHANGED entries

PutAndReport(n, b) ==
  /\ entries' = [entries EXCEPT ![n] = b]
  /\ told' = [told EXCEPT ![n] = b]

Remove(n) ==
  /\ entries[n] # Absent
  /\ entries' = [entries EXCEPT ![n] = Absent]
  /\ told' = [told EXCEPT ![n] = Absent]

\* After a restart the admin looks for herself.
LookAgain ==
  /\ told' = entries
  /\ UNCHANGED entries

Next ==
  \/ \E n \in Names, b \in Blueprints : Put(n, b) \/ PutAndReport(n, b)
  \/ \E n \in Names : Report(n) \/ Remove(n)
  \/ LookAgain

Promise == Init /\ [][Next]_<<entries, told>>
============================================================================
