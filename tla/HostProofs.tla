----------------------------- MODULE HostProofs -----------------------------
(***************************************************************************)
(* No callback outlives the module it is in, for any plugins that do not   *)
(* answer to each other's names, any builds and any of the failures.       *)
(***************************************************************************)
EXTENDS Host, TLAPS

\* No two plugins register the same name of a kind.
NamesApart == \A p, q \in Plugins : Ids[p] \cap Ids[q] # {} => p = q

\* The strengthening of LoadedCodeOnly: what is registered is what the mapped
\* modules have registered, and callbacks are only called off a copy that was
\* made since the last of them went.
HostInv ==
  /\ refs \in [Plugins -> Nat]
  /\ \A p \in listed : p \in Plugins /\ refs[p] > 0
  /\ registered = UNION {Entries(p) : p \in {q \in Plugins : refs[q] > 0}}
  /\ queue \subseteq registered
  /\ frame \notin {"tick", "timer"} => queue = {}
  /\ dirs \in Seq(Plugins)

\* With no module left behind, a plugin is mapped once or not at all.
CountInv == \A p \in Plugins : refs[p] = IF p \in listed THEN 1 ELSE 0

LEMMA InitialHost == Init => HostInv /\ CountInv
<1> SUFFICES ASSUME Init PROVE HostInv /\ CountInv
  OBVIOUS
<1>1. refs \in [Plugins -> Nat] /\ \A p \in Plugins : refs[p] = 0
  BY DEF Init
<1>2. registered = UNION {Entries(p) : p \in {q \in Plugins : refs[q] > 0}}
  BY <1>1 DEF Init
<1>3. dirs \in Seq(Plugins)
  BY HostAssumption DEF Init
<1> QED BY <1>1, <1>2, <1>3 DEF Init, HostInv, CountInv

\* The entries of a plugin are told by their names.
LEMMA EntryFacts ==
  ASSUME NEW p \in Plugins, NEW c \in Entries(p)
  PROVE  /\ c.owner = p
         /\ [kind |-> c.kind, name |-> c.name] \in Ids[p]
         /\ c = Entry([kind |-> c.kind, name |-> c.name], p)
<1>1. PICK id \in Ids[p] : c = Entry(id, p)
  BY DEF Entries
<1>2. id = [kind |-> id.kind, name |-> id.name]
  BY HostAssumption
<1> QED BY <1>1, <1>2 DEF Entry

\* Loading a module adds its entries to those of the others.
LEMMA LoadKeeps ==
  ASSUME HostInv, NEW p \in Plugins, LoadModule(p)
  PROVE  /\ refs' \in [Plugins -> Nat]
         /\ registered' = UNION {Entries(q) : q \in {r \in Plugins : refs'[r] > 0}}
         /\ registered \subseteq registered'
         /\ \A q \in Plugins : refs'[q] = IF q = p THEN refs[q] + 1 ELSE refs[q]
<1>1. refs \in [Plugins -> Nat] /\ registered = UNION {Entries(q) : q \in {r \in Plugins : refs[r] > 0}}
  BY DEF HostInv
<1>2. refs' = [refs EXCEPT ![p] = @ + 1]
  BY DEF LoadModule
<1>3. /\ refs' \in [Plugins -> Nat]
      /\ \A q \in Plugins : refs'[q] = IF q = p THEN refs[q] + 1 ELSE refs[q]
  BY <1>1, <1>2
<1>4. {r \in Plugins : refs'[r] > 0} = {r \in Plugins : refs[r] > 0} \cup {p}
  BY <1>1, <1>3
<1>5. CASE refs[p] > 0
  <2>1. registered' = registered
    BY <1>5 DEF LoadModule, Mapped
  <2>2. {r \in Plugins : refs'[r] > 0} = {r \in Plugins : refs[r] > 0}
    BY <1>4, <1>5
  <2> QED BY <1>1, <1>3, <2>1, <2>2
<1>6. CASE ~(refs[p] > 0)
  <2>1. registered' = registered \cup Entries(p)
    BY <1>6 DEF LoadModule, Mapped
  <2>2. registered' = UNION {Entries(q) : q \in {r \in Plugins : refs[r] > 0} \cup {p}}
    BY <1>1, <2>1
  <2> QED BY <1>3, <1>4, <2>1, <2>2
<1> QED BY <1>5, <1>6

\* Taking back a plugin's names takes its entries and no other's.
LEMMA DetachedIsTheOthers ==
  ASSUME HostInv, NamesApart, NEW p \in Plugins, refs[p] > 0, NEW rest \in Detached(p)
  PROVE  rest = UNION {Entries(q) : q \in {r \in Plugins : refs[r] > 0 /\ r # p}}
<1>1. registered = UNION {Entries(q) : q \in {r \in Plugins : refs[r] > 0}}
  BY DEF HostInv
<1>2. \A id \in Ids[p] : Matches(id) = {Entry(id, p)}
  <2> SUFFICES ASSUME NEW id \in Ids[p] PROVE Matches(id) = {Entry(id, p)}
    OBVIOUS
  <2>1. id = [kind |-> id.kind, name |-> id.name]
    BY HostAssumption
  <2>2. Entry(id, p) \in Entries(p)
    BY DEF Entries
  <2>3. Entry(id, p) \in registered
    BY <1>1, <2>2
  <2>4. Entry(id, p).kind = id.kind /\ Entry(id, p).name = id.name
    BY DEF Entry
  <2>5. ASSUME NEW c \in registered, c.kind = id.kind, c.name = id.name
        PROVE  c = Entry(id, p)
    <3>1. PICK q \in Plugins : c \in Entries(q)
      BY <1>1
    <3>2. id \in Ids[q] /\ c = Entry(id, q)
      BY <2>1, <2>5, <3>1, EntryFacts
    <3>3. q = p
      BY <3>2 DEF NamesApart
    <3> QED BY <3>2, <3>3
  <2> QED BY <2>3, <2>4, <2>5 DEF Matches
<1>3. rest = registered \ Entries(p)
  <2> DEFINE ids == {id \in TakenBack(p) : Matches(id) # {}}
  <2>1. ids = Ids[p]
    BY <1>2 DEF TakenBack
  <2>2. PICK f \in [ids -> registered] : /\ \A id \in ids : f[id] \in Matches(id)
                                         /\ rest = registered \ {f[id] : id \in ids}
    BY DEF Detached
  <2>3. \A id \in ids : f[id] = Entry(id, p)
    BY <1>2, <2>1, <2>2
  <2>4. {f[id] : id \in ids} = Entries(p)
    BY <2>1, <2>3 DEF Entries
  <2> QED BY <2>2, <2>4
<1>4. \A q \in Plugins : q # p => Entries(q) \cap Entries(p) = {}
  BY EntryFacts
<1> QED BY <1>1, <1>3, <1>4

\* Letting go of a module takes its entries when it was the last reference.
LEMMA UnloadKeeps ==
  ASSUME HostInv, NamesApart, NEW p \in Plugins, p \in listed, UnloadModule(p), queue = {}
  PROVE  /\ refs' \in [Plugins -> Nat]
         /\ registered' = UNION {Entries(q) : q \in {r \in Plugins : refs'[r] > 0}}
         /\ \A q \in Plugins : refs'[q] = IF q = p THEN refs[q] - 1 ELSE refs[q]
         /\ listed' = listed \ {p}
<1>1. /\ refs \in [Plugins -> Nat] /\ refs[p] > 0
      /\ registered = UNION {Entries(q) : q \in {r \in Plugins : refs[r] > 0}}
  BY DEF HostInv
<1>2. /\ refs' = [refs EXCEPT ![p] = @ - 1] /\ listed' = listed \ {p}
      /\ registered' \in IF refs[p] = 1 THEN Detached(p) ELSE {registered}
  BY DEF UnloadModule
<1>3. /\ refs' \in [Plugins -> Nat]
      /\ \A q \in Plugins : refs'[q] = IF q = p THEN refs[q] - 1 ELSE refs[q]
  BY <1>1, <1>2
<1>4. CASE refs[p] = 1
  <2>1. registered' \in Detached(p)
    BY <1>2, <1>4
  <2>2. registered' = UNION {Entries(q) : q \in {r \in Plugins : refs[r] > 0 /\ r # p}}
    BY <1>1, <2>1, DetachedIsTheOthers
  <2>3. {r \in Plugins : refs'[r] > 0} = {r \in Plugins : refs[r] > 0 /\ r # p}
    BY <1>1, <1>3, <1>4
  <2> QED BY <1>2, <1>3, <2>2, <2>3
<1>5. CASE refs[p] # 1
  <2>1. registered' = registered
    BY <1>2, <1>5
  <2>2. {r \in Plugins : refs'[r] > 0} = {r \in Plugins : refs[r] > 0}
    BY <1>1, <1>3, <1>5
  <2> QED BY <1>1, <1>2, <1>3, <2>1, <2>2
<1> QED BY <1>4, <1>5

\* A load that is refused or done keeps the invariants; one that breaks off
\* keeps the first.
LEMMA LoadPluginKeeps ==
  ASSUME HostInv, NEW p \in Plugins, LoadPlugin(p), UNCHANGED queue
  PROVE  /\ refs' \in [Plugins -> Nat]
         /\ \A q \in listed' : q \in Plugins /\ refs'[q] > 0
         /\ registered' = UNION {Entries(q) : q \in {r \in Plugins : refs'[r] > 0}}
         /\ queue' \subseteq registered'
         /\ CountInv /\ "half_load" \notin Events => CountInv'
<1>1. CASE UNCHANGED modules
  <2>1. UNCHANGED <<refs, listed, registered>>
    BY <1>1 DEF modules
  <2> QED BY <2>1 DEF HostInv, CountInv
<1>2. CASE /\ p \notin listed
           /\ LoadModule(p)
           /\ \/ listed' = listed \cup {p}
              \/ "half_load" \in Events /\ UNCHANGED listed
  <2>1. /\ refs' \in [Plugins -> Nat]
        /\ registered' = UNION {Entries(q) : q \in {r \in Plugins : refs'[r] > 0}}
        /\ registered \subseteq registered'
        /\ \A q \in Plugins : refs'[q] = IF q = p THEN refs[q] + 1 ELSE refs[q]
    BY <1>2, LoadKeeps
  <2>2. /\ refs \in [Plugins -> Nat] /\ queue \subseteq registered
        /\ \A q \in listed : q \in Plugins /\ refs[q] > 0
    BY DEF HostInv
  <2>3. \A q \in listed' : q \in Plugins /\ refs'[q] > 0
    BY <1>2, <2>1, <2>2
  <2>4. CountInv /\ "half_load" \notin Events => CountInv'
    BY <1>2, <2>1, <2>2 DEF CountInv
  <2> QED BY <2>1, <2>2, <2>3, <2>4
<1> QED BY <1>1, <1>2 DEF LoadPlugin

LEMMA UnloadPluginKeeps ==
  ASSUME HostInv, NamesApart, NEW p \in Plugins, p \in listed, UnloadModule(p),
         queue = {}, UNCHANGED queue
  PROVE  /\ refs' \in [Plugins -> Nat]
         /\ \A q \in listed' : q \in Plugins /\ refs'[q] > 0
         /\ registered' = UNION {Entries(q) : q \in {r \in Plugins : refs'[r] > 0}}
         /\ queue' \subseteq registered'
         /\ CountInv => CountInv'
<1>1. /\ refs' \in [Plugins -> Nat]
      /\ registered' = UNION {Entries(q) : q \in {r \in Plugins : refs'[r] > 0}}
      /\ \A q \in Plugins : refs'[q] = IF q = p THEN refs[q] - 1 ELSE refs[q]
      /\ listed' = listed \ {p}
  BY UnloadKeeps
<1>2. /\ refs \in [Plugins -> Nat] /\ \A q \in listed : q \in Plugins /\ refs[q] > 0
  BY DEF HostInv
<1>3. \A q \in listed' : q \in Plugins /\ refs'[q] > 0
  BY <1>1, <1>2
<1>4. CountInv => CountInv'
  BY <1>1, <1>2 DEF CountInv
<1> QED BY <1>1, <1>3, <1>4

\* A directory the pass is at belongs to a plugin.
LEMMA HereIsAPlugin ==
  ASSUME HostInv, dirs # <<>>
  PROVE  Here \in Plugins /\ Tail(dirs) \in Seq(Plugins)
BY DEF HostInv, Here

LEMMA NextHost ==
  ASSUME HostInv, NamesApart, [Next]_vars
  PROVE  HostInv' /\ (CountInv /\ "half_load" \notin Events => CountInv')
<1> USE DEF modules, files, pass
<1>1. /\ refs \in [Plugins -> Nat]
      /\ \A p \in listed : p \in Plugins /\ refs[p] > 0
      /\ registered = UNION {Entries(p) : p \in {q \in Plugins : refs[q] > 0}}
      /\ queue \subseteq registered
      /\ frame \notin {"tick", "timer"} => queue = {}
      /\ dirs \in Seq(Plugins)
  BY DEF HostInv
<1>2. ASSUME UNCHANGED modules, queue' \subseteq registered,
             frame' \notin {"tick", "timer"} => queue' = {}, dirs' \in Seq(Plugins)
      PROVE  HostInv' /\ (CountInv => CountInv')
  <2>1. UNCHANGED <<refs, listed, registered>>
    BY <1>2
  <2> QED BY <1>1, <1>2, <2>1 DEF HostInv, CountInv
<1>3. CASE WorldTick
  BY <1>1, <1>2, <1>3 DEF WorldTick, OfKind
<1>4. CASE DefaultTimer
  BY <1>1, <1>2, <1>4 DEF DefaultTimer, OfKind
<1>5. CASE Calls
  <2>1. CASE CallNext
    BY <1>1, <1>2, <2>1 DEF CallNext
  <2>2. CASE CallsDone
    BY <1>1, <1>2, <2>2 DEF CallsDone
  <2>3. CASE DetectPluginChangesTimerCallback
    BY <1>1, <1>2, <2>3, HostAssumption DEF DetectPluginChangesTimerCallback, ReloadCheck
  <2> QED BY <1>5, <2>1, <2>2, <2>3 DEF Calls
<1>6. CASE Pass
  <2>1. CASE VisitAtStartup
    BY <1>1, <1>2, <2>1 DEF VisitAtStartup, GoOn
  <2>2. CASE VisitAtReload
    BY <1>1, <1>2, <2>2, HereIsAPlugin DEF VisitAtReload, InPass, GoOn, NextDir
  <2>3. CASE ReloadUnload
    <3>1. /\ Here \in Plugins /\ Tail(dirs) \in Seq(Plugins) /\ queue = {} /\ UNCHANGED queue
          /\ frame' = frame
      BY <1>1, <2>3, HereIsAPlugin DEF ReloadUnload, InPass
    <3>2. CASE CanUnload(Here)
      <4>1. UnloadModule(Here) /\ dirs' = dirs /\ Here \in listed
        BY <2>3, <3>2 DEF ReloadUnload, GoOn, CanUnload
      <4> QED BY <1>1, <3>1, <4>1, UnloadPluginKeeps DEF HostInv
    <3>3. CASE ~CanUnload(Here)
      BY <1>1, <1>2, <2>3, <3>1, <3>3 DEF ReloadUnload, NextDir
    <3> QED BY <3>2, <3>3
  <2>4. CASE CopyStaged
    BY <1>1, <1>2, <2>4, HereIsAPlugin DEF CopyStaged, InPass, GoOn, NextDir
  <2>5. CASE RemoveStaged
    BY <1>1, <1>2, <2>5, HereIsAPlugin DEF RemoveStaged, InPass, GoOn, NextDir
  <2>6. CASE LoadVisited
    <3>1. /\ Here \in Plugins /\ dirs' \in Seq(Plugins) /\ UNCHANGED queue /\ UNCHANGED frame
          /\ LoadPlugin(Here)
      BY <1>1, <2>6, HereIsAPlugin DEF LoadVisited, InPass, NextDir
    <3> QED BY <1>1, <3>1, LoadPluginKeeps DEF HostInv
  <2>7. CASE PassEnds
    BY <1>1, <1>2, <2>7 DEF PassEnds
  <2> QED BY <1>6, <2>1, <2>2, <2>3, <2>4, <2>5, <2>6, <2>7 DEF Pass
<1>7. ASSUME NEW p \in Plugins, ConsoleLoad(p)
      PROVE  HostInv' /\ (CountInv /\ "half_load" \notin Events => CountInv')
  <2>1. LoadPlugin(p) /\ UNCHANGED <<frame, queue, dirs>>
    BY <1>7 DEF ConsoleLoad
  <2> QED BY <1>1, <2>1, LoadPluginKeeps DEF HostInv
<1>8. ASSUME NEW p \in Plugins, ConsoleUnload(p)
      PROVE  HostInv' /\ (CountInv => CountInv')
  <2>1. UnloadModule(p) /\ p \in listed /\ queue = {} /\ UNCHANGED <<frame, queue, dirs>>
    BY <1>1, <1>8 DEF ConsoleUnload, CanUnload
  <2> QED BY <1>1, <2>1, UnloadPluginKeeps DEF HostInv
<1>9. CASE Play
  BY <1>1, <1>2, <1>9 DEF Play
<1>10. CASE Second
  BY <1>1, <1>2, <1>10 DEF Second
<1>11. ASSUME NEW p \in Plugins, NEW b \in Builds, Deploy(p, b)
       PROVE  HostInv' /\ (CountInv => CountInv')
  BY <1>1, <1>2, <1>11 DEF Deploy
<1>12. CASE Restart
  <2>1. /\ refs' = [p \in Plugins |-> 0] /\ listed' = {} /\ registered' = {} /\ queue' = {}
        /\ frame' = "startup" /\ dirs' = Order
    BY <1>12 DEF Restart
  <2>2. refs' \in [Plugins -> Nat] /\ \A p \in Plugins : refs'[p] = 0
    BY <2>1
  <2>3. registered' = UNION {Entries(p) : p \in {q \in Plugins : refs'[q] > 0}}
    BY <2>1, <2>2
  <2> QED BY <2>1, <2>2, <2>3, HostAssumption DEF HostInv, CountInv
<1>13. CASE UNCHANGED vars
  BY <1>1, <1>2, <1>13 DEF vars
<1> QED BY <1>3, <1>4, <1>5, <1>6, <1>7, <1>8, <1>9, <1>10, <1>11, <1>12, <1>13 DEF Next

\* "We call this here to avoid UnknownModule crashes" (HooksImpl.cpp:168): for
\* any number of plugins that do not answer to each other's names, whatever is
\* called is in a module that is mapped.
THEOREM CallsLoadedCode == NamesApart => (Spec => []LoadedCodeOnly)
<1> SUFFICES ASSUME NamesApart PROVE Spec => []LoadedCodeOnly
  OBVIOUS
<1>1. Init => HostInv
  BY InitialHost
<1>2. HostInv /\ [Next]_vars => HostInv'
  BY NextHost
<1>3. HostInv => LoadedCodeOnly
  <2> SUFFICES ASSUME HostInv, NEW c \in registered \cup queue PROVE Mapped(c.owner)
    BY DEF LoadedCodeOnly
  <2>1. c \in registered
    BY DEF HostInv
  <2>2. PICK p \in Plugins : refs[p] > 0 /\ c \in Entries(p)
    BY <2>1 DEF HostInv
  <2> QED BY <2>2, EntryFacts DEF Mapped
<1> QED BY <1>1, <1>2, <1>3, PTL DEF Spec

\* A plugin that is listed serves with all it registers, and one that is not is
\* gone, whatever fails on the way, unless a load breaks off after its module
\* was mapped (PluginManager.cpp:187-194).
THEOREM ListedServes ==
  NamesApart /\ "half_load" \notin Events => (Spec => []ServesWhatIsListed)
<1> SUFFICES ASSUME NamesApart, "half_load" \notin Events
             PROVE  Spec => []ServesWhatIsListed
  OBVIOUS
<1> DEFINE Inv == HostInv /\ CountInv
<1>1. Init => Inv
  BY InitialHost
<1>2. Inv /\ [Next]_vars => Inv'
  BY NextHost
<1>3. Inv => ServesWhatIsListed
  <2> SUFFICES ASSUME Inv, NEW p \in Plugins
               PROVE  OwnedBy(p) = IF p \in listed THEN Entries(p) ELSE {}
    BY DEF ServesWhatIsListed, CountInv
  <2>1. registered = UNION {Entries(q) : q \in {r \in Plugins : r \in listed}}
    <3>1. {r \in Plugins : refs[r] > 0} = {r \in Plugins : r \in listed}
      BY DEF CountInv
    <3> QED BY <3>1 DEF HostInv
  <2>2. \A q \in Plugins : \A c \in Entries(q) : c.owner = q
    BY EntryFacts
  <2> QED BY <2>1, <2>2 DEF OwnedBy
<1> QED BY <1>1, <1>2, <1>3, PTL DEF Spec

----------------------------------------------------------------------------
(* What is saved before a reload *)

\* Once a pass has saved the world, nothing in the pass changes it: plugins are
\* unloaded for a reload on a saved world, and for nothing else in a pass.
SavedInv ==
  /\ frame = "startup" => stage # "unload"
  /\ frame = "reload" /\ (stage = "unload" \/ ~save_world) => ~unsaved

LEMMA InitSaved == Init => SavedInv
BY DEF Init, SavedInv

LEMMA NextSaved ==
  ASSUME SavedInv, [Next]_vars
  PROVE  SavedInv'
<1> USE DEF SavedInv, files, modules, pass
<1>1. ASSUME WorldTick \/ DefaultTimer \/ Play
      PROVE  SavedInv'
  BY <1>1 DEF WorldTick, DefaultTimer, Play
<1>2. ASSUME Calls
      PROVE  SavedInv'
  BY <1>2 DEF Calls, CallNext, CallsDone, DetectPluginChangesTimerCallback, ReloadCheck
<1>3. ASSUME VisitAtStartup \/ VisitAtReload
      PROVE  SavedInv'
  BY <1>3 DEF VisitAtStartup, VisitAtReload, InPass, GoOn, NextDir, SavedFirst
<1>4. ASSUME ReloadUnload \/ LoadVisited
      PROVE  SavedInv'
  BY <1>4 DEF ReloadUnload, LoadVisited, InPass, GoOn, NextDir
<1>5. ASSUME CopyStaged \/ RemoveStaged
      PROVE  SavedInv'
  BY <1>5 DEF CopyStaged, RemoveStaged, InPass, GoOn, NextDir
<1>6. ASSUME PassEnds
      PROVE  SavedInv'
  BY <1>6 DEF PassEnds
<1>7. ASSUME NEW p \in Plugins, ConsoleLoad(p) \/ ConsoleUnload(p)
      PROVE  SavedInv'
  BY <1>7 DEF ConsoleLoad, ConsoleUnload
<1>8. ASSUME Second \/ \E p \in Plugins, b \in Builds : Deploy(p, b)
      PROVE  SavedInv'
  BY <1>8 DEF Second, Deploy
<1>9. ASSUME Restart
      PROVE  SavedInv'
  BY <1>9 DEF Restart
<1>10. ASSUME UNCHANGED vars
       PROVE  SavedInv'
  BY <1>10 DEF vars
<1> QED BY <1>1, <1>2, <1>3, <1>4, <1>5, <1>6, <1>7, <1>8, <1>9, <1>10 DEF Next, Pass

\* The host saves the world before reloading, in case that causes a crash
\* (PluginManager.cpp:343): no plugin is unloaded for a reload while the world
\* holds anything unsaved, for any plugins, whatever fails and whenever.
THEOREM AlwaysSavedFirst == Spec => SavedBeforeUnload
<1>1. SavedInv => (ReloadUnload => ~unsaved)
  BY DEF SavedInv, ReloadUnload, InPass
<1>2. [][ReloadUnload => ~unsaved]_vars => SavedBeforeUnload
  BY PTL DEF SavedBeforeUnload
<1> QED BY <1>1, <1>2, InitSaved, NextSaved, PTL DEF Spec

============================================================================
