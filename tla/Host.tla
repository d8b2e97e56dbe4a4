-------------------------------- MODULE Host --------------------------------
(***************************************************************************)
(* The plugin host of src/sdk/Private: PluginManager loads, unloads and    *)
(* reloads plugins, Commands keeps the callbacks they register, and the    *)
(* hooks of HooksImpl call them from the game thread. A new build comes as *)
(* a file beside the plugin's own (src/scripts/deploy.ps1), copied there   *)
(* by another process while all of this runs. AutomaticPluginReloading and *)
(* SaveWorldBeforePluginReload are taken as on: where the first is off no  *)
(* pass ever begins after startup, where the second is off none saves.     *)
(***************************************************************************)
EXTENDS Naturals, Sequences

CONSTANTS
  Order,          \* the directories of Plugins, as directory_iterator lists them
  Ids,            \* what each plugin registers: a set of [kind, name]
  Builds,         \* bound: the builds deployed, by number
  ReloadSeconds,  \* AutomaticPluginReloadSeconds
  Events          \* which failures are explored

Plugins == {Order[n] : n \in DOMAIN Order}
Kinds == {"chat", "tick", "timer"}
Torn == 99   \* a file cut short; no build has this number

ASSUME HostAssumption ==
  /\ Order \in Seq(Plugins)
  /\ \A p \in Plugins : \A id \in Ids[p] : id = [kind |-> id.kind, name |-> id.name]
  /\ Builds \subseteq 1..(Torn - 1)
  /\ ReloadSeconds \in Nat \ {0}

VARIABLES
  dll,         \* <plugin>.dll, 0 when there is none
  staged,      \* <plugin>.dll.ArkApi, 0 when there is none
  refs,        \* references to the mapped module; LoadLibrary counts them
  listed,      \* loaded_plugins_
  registered,  \* the entries of the vectors of Commands
  frame,       \* what the game thread is doing
  queue,       \* what is left of the callbacks copied for this round
  dirs,        \* the directories the pass has still to visit
  stage,       \* how far it is with the first of them
  save_world,  \* the pass has yet to save the world
  wait,        \* seconds to next_reload_check_
  unsaved      \* history: the world has changed since it was saved

files == <<dll, staged>>
modules == <<refs, listed, registered>>
pass == <<dirs, stage, save_world>>
vars == <<files, modules, frame, queue, pass, wait, unsaved>>

Mapped(p) == refs[p] > 0

----------------------------------------------------------------------------
(* Commands *)

Entry(id, p) == [kind |-> id.kind, name |-> id.name, owner |-> p]

Entries(p) == {Entry(id, p) : id \in Ids[p]}

OfKind(kind) == {c \in registered : c.kind = kind}

Matches(id) == {c \in registered : c.kind = id.kind /\ c.name = id.name}

\* Mistake: the frame callback is left registered.
ChatOnly(p) == {id \in Ids[p] : id.kind = "chat"}

\* What a plugin takes back when its module goes.
TakenBack(p) == Ids[p]

\* DllMain, when the last reference to the module goes. RemoveCommand takes out
\* one entry of that name, whoever put it there: the first of a vector whose
\* order is left open here.
Detached(p) ==
  LET ids == {id \in TakenBack(p) : Matches(id) # {}}
      picks == {f \in [ids -> registered] : \A id \in ids : f[id] \in Matches(id)}
  IN  {registered \ {f[id] : id \in ids} : f \in picks}

----------------------------------------------------------------------------
(* LoadPlugin and UnloadPlugin *)

\* LoadLibrary runs DllMain when the module was not mapped before.
LoadModule(p) ==
  /\ refs' = [refs EXCEPT ![p] = @ + 1]
  /\ registered' = IF Mapped(p) THEN registered ELSE registered \cup Entries(p)

\* Refused: missing, already loaded, too new for the host, or no module. An
\* exception after LoadLibrary leaves the module mapped and unlisted.
LoadPlugin(p) ==
  \/ /\ \/ dll[p] \in {0, Torn}
        \/ p \in listed
        \/ "load_fails" \in Events
     /\ UNCHANGED modules
  \/ /\ dll[p] \notin {0, Torn}
     /\ p \notin listed
     /\ LoadModule(p)
     /\ \/ listed' = listed \cup {p}
        \/ "half_load" \in Events /\ UNCHANGED listed

UnloadModule(p) ==
  /\ refs' = [refs EXCEPT ![p] = @ - 1]
  /\ registered' \in IF refs[p] = 1 THEN Detached(p) ELSE {registered}
  /\ listed' = listed \ {p}

\* Not loaded, no dll, or FreeLibrary refuses: only the first of the three can
\* be, as a listed module is mapped and the file of a mapped one is locked.
CanUnload(p) == p \in listed /\ dll[p] # 0 /\ Mapped(p)

----------------------------------------------------------------------------
(* The game thread *)

Init ==
  /\ \E first \in {0} \cup Builds : dll = [p \in Plugins |-> first]
  /\ staged = [p \in Plugins |-> 0]
  /\ refs = [p \in Plugins |-> 0]
  /\ listed = {}
  /\ registered = {}
  /\ frame = "startup"
  /\ queue = {}
  /\ dirs = Order
  /\ stage = "visit"
  /\ save_world = FALSE
  /\ wait = 0
  /\ unsaved = FALSE

\* Hook_UWorld_Tick: the callbacks are copied before the first is called.
WorldTick ==
  /\ frame = "world"
  /\ frame' = "tick"
  /\ queue' = OfKind("tick")
  /\ UNCHANGED <<files, modules, pass, wait, unsaved>>

\* Hook_AGameState_DefaultTimer.
DefaultTimer ==
  /\ frame = "world"
  /\ frame' = "timer"
  /\ queue' = OfKind("timer")
  /\ UNCHANGED <<files, modules, pass, wait, unsaved>>

\* What the callback does matters here as it changes the world.
CallNext ==
  /\ frame \in {"tick", "timer"}
  /\ \E c \in queue : queue' = queue \ {c}
  /\ unsaved' = TRUE
  /\ UNCHANGED <<files, modules, frame, pass, wait>>

CallsDone ==
  /\ frame = "tick"
  /\ queue = {}
  /\ frame' = "world"
  /\ UNCHANGED <<files, modules, queue, pass, wait, unsaved>>

\* Mistake: the check is one of the timer callbacks itself.
InTheMidst == frame = "timer"

\* "We call this here to avoid UnknownModule crashes": after the callbacks.
ReloadCheck == frame = "timer" /\ queue = {}

\* Mistake: put off by every check, made or not.
PutOff == ReloadSeconds

NextCheck == IF wait = 0 THEN ReloadSeconds ELSE wait

DetectPluginChangesTimerCallback ==
  /\ ReloadCheck
  /\ IF wait = 0
     THEN frame' = "reload" /\ dirs' = Order /\ stage' = "visit" /\ save_world' = TRUE
     ELSE frame' = "world" /\ UNCHANGED pass
  /\ wait' = NextCheck
  /\ UNCHANGED <<files, modules, queue, unsaved>>

\* plugins.load and plugins.unload, from the console or over RCON, and any
\* chat command: a player's doings change the world.
ConsoleLoad(p) ==
  /\ frame = "world"
  /\ LoadPlugin(p)
  /\ UNCHANGED <<files, frame, queue, pass, wait, unsaved>>

ConsoleUnload(p) ==
  /\ frame = "world"
  /\ CanUnload(p)
  /\ UnloadModule(p)
  /\ UNCHANGED <<files, frame, queue, pass, wait, unsaved>>

Play ==
  /\ frame = "world"
  /\ unsaved' = TRUE
  /\ UNCHANGED <<files, modules, frame, queue, pass, wait>>

----------------------------------------------------------------------------
(* A pass over the directories: LoadAllPlugins or DetectPluginChanges *)

InPass(at) == frame \in {"startup", "reload"} /\ dirs # <<>> /\ stage = at

Here == Head(dirs)

GoOn(at) == stage' = at /\ UNCHANGED dirs

\* The exception is caught and logged, and the next directory is visited.
NextDir == dirs' = Tail(dirs) /\ stage' = "visit"

VisitAtStartup ==
  /\ frame = "startup"
  /\ InPass("visit")
  /\ GoOn(IF staged[Here] # 0 THEN "copy" ELSE "load")
  /\ UNCHANGED <<files, modules, frame, queue, save_world, wait, unsaved>>

\* Mistake: saved after the plugins were reloaded.
SavedLater == unsaved

\* SaveWorld, unless this pass has saved.
SavedFirst == IF save_world THEN FALSE ELSE unsaved

VisitAtReload ==
  /\ frame = "reload"
  /\ InPass("visit")
  /\ IF staged[Here] # 0 /\ Here \in listed
     THEN /\ unsaved' = SavedFirst
          /\ save_world' = FALSE
          /\ GoOn("unload")
     ELSE NextDir /\ UNCHANGED <<unsaved, save_world>>
  /\ UNCHANGED <<files, modules, frame, queue, wait>>

ReloadUnload ==
  /\ InPass("unload")
  /\ IF CanUnload(Here) THEN UnloadModule(Here) /\ GoOn("copy")
     ELSE NextDir /\ UNCHANGED modules
  /\ UNCHANGED <<files, frame, queue, save_world, wait, unsaved>>

\* A mapped module cannot be written over, a file that is being written cannot
\* always be read, and copy_file may break off in the midst.
CopyStaged ==
  /\ InPass("copy")
  /\ \/ /\ ~Mapped(Here)
        /\ staged[Here] # 0
        /\ dll' = [dll EXCEPT ![Here] = staged[Here]]
        /\ GoOn("remove")
     \/ /\ \/ Mapped(Here)
           \/ staged[Here] = Torn
           \/ "copy_fails" \in Events
        /\ \/ UNCHANGED dll
           \/ ~Mapped(Here) /\ dll' = [dll EXCEPT ![Here] = Torn]
        /\ NextDir
  /\ UNCHANGED <<staged, modules, frame, queue, save_world, wait, unsaved>>

RemoveStaged ==
  /\ InPass("remove")
  /\ \/ staged' = [staged EXCEPT ![Here] = 0] /\ GoOn("load")
     \/ /\ staged[Here] = Torn \/ "copy_fails" \in Events
        /\ NextDir
        /\ UNCHANGED staged
  /\ UNCHANGED <<dll, modules, frame, queue, save_world, wait, unsaved>>

LoadVisited ==
  /\ InPass("load")
  /\ LoadPlugin(Here)
  /\ NextDir
  /\ UNCHANGED <<files, frame, queue, save_world, wait, unsaved>>

PassEnds ==
  /\ frame \in {"startup", "reload"}
  /\ dirs = <<>>
  /\ frame' = "world"
  /\ UNCHANGED <<files, modules, queue, pass, wait, unsaved>>

Pass == VisitAtStartup \/ VisitAtReload \/ ReloadUnload \/ CopyStaged \/ RemoveStaged
          \/ LoadVisited \/ PassEnds

----------------------------------------------------------------------------
(* Beside the game thread *)

Second ==
  /\ wait > 0
  /\ wait' = wait - 1
  /\ UNCHANGED <<files, modules, frame, queue, pass, unsaved>>

\* Nothing was ever staged: the copy of a first install has yet to end.
FirstInstall(p) == dll[p] = 0 \/ (dll[p] = Torn /\ staged[p] = 0)

\* deploy.ps1, with the server up: in place at a first install, else staged.
\* The copy takes its time, or does not. Bound: builds are deployed in order.
Deploy(p, b) ==
  /\ \A c \in {dll[p], staged[p]} \ {Torn} : c < b
  /\ \E v \in {b} \cup (IF "slow_copy" \in Events THEN {Torn} ELSE {}) :
       \/ dll[p] # 0 /\ staged' = [staged EXCEPT ![p] = v] /\ UNCHANGED dll
       \/ FirstInstall(p) /\ dll' = [dll EXCEPT ![p] = v] /\ UNCHANGED staged
  /\ UNCHANGED <<modules, frame, queue, pass, wait, unsaved>>

\* The server goes down and is started again, with what was saved.
Restart ==
  /\ "crash" \in Events
  /\ frame # "startup"
  /\ refs' = [p \in Plugins |-> 0]
  /\ listed' = {}
  /\ registered' = {}
  /\ frame' = "startup"
  /\ queue' = {}
  /\ dirs' = Order
  /\ stage' = "visit"
  /\ save_world' = FALSE
  /\ wait' = 0
  /\ unsaved' = FALSE
  /\ UNCHANGED files

Calls == CallNext \/ CallsDone \/ DetectPluginChangesTimerCallback

Next ==
  \/ WorldTick
  \/ DefaultTimer
  \/ Calls
  \/ Pass
  \/ \E p \in Plugins : ConsoleLoad(p) \/ ConsoleUnload(p)
  \/ Play
  \/ Second
  \/ \E p \in Plugins, b \in Builds : Deploy(p, b)
  \/ Restart

Spec == Init /\ [][Next]_vars

\* The game goes on: what is begun on its thread is finished, its timer fires
\* again and again whatever else happens, and time passes. No admin owes a step.
FairSpec == Spec /\ WF_vars(Calls) /\ WF_vars(Pass) /\ SF_vars(DefaultTimer) /\ WF_vars(Second)

----------------------------------------------------------------------------
(* Properties *)

OwnedBy(p) == {c \in registered : c.owner = p}

\* "We call this here to avoid UnknownModule crashes" (HooksImpl.cpp:168):
\* whatever may be called, a registered callback or one copied for this round,
\* is in a module that is mapped, in the midst of a reload too.
LoadedCodeOnly ==
  \A c \in registered \cup queue : Mapped(c.owner)

\* A plugin that is listed serves with all it registers; one that is not
\* is gone, whatever failed on the way (PluginManager.cpp:149-232 and the
\* plugin's own Load and Unload, Main.cpp:622-637).
ServesWhatIsListed ==
  \A p \in Plugins :
    /\ refs[p] = IF p \in listed THEN 1 ELSE 0
    /\ OwnedBy(p) = IF p \in listed THEN Entries(p) ELSE {}

\* The host "saves the world before reloading" (TESTING.md:45-46), "in case the
\* unload/load procedure causes crash" (PluginManager.cpp:343): no plugin is
\* unloaded for a reload while the world holds anything that is not saved.
SavedBeforeUnload ==
  [][ReloadUnload => ~unsaved]_vars

\* "ArkApi reloads within ~5s" (deploy.ps1:37): a build that is staged for a
\* loaded plugin does not lie there; it is taken in, or the plugin is unloaded.
StagedIsTaken ==
  \A p \in Plugins :
    (p \in listed /\ staged[p] # 0) ~> (staged[p] = 0 \/ p \notin listed)
=============================================================================
