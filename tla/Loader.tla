-------------------------------- MODULE Loader --------------------------------
(***************************************************************************)
(* Loader: loader.rs and the reload keys of lib.rs, on top of Unwind: the  *)
(* development plugin is taken out and loaded anew while the game throws   *)
(* exceptions.                                                             *)
(*                                                                         *)
(* The reload runs with LOADED_DEVELOPMENT_PLUGIN locked, on the thread    *)
(* that saw the keys: one of the threads that read the controller (mode    *)
(* "hook"), or smashline's own, which also loads the plugin at boot (mode  *)
(* "poll").  The purges of an uninstallation that concern other state than *)
(* CUSTOM_EH_MEM are modelled in Callbacks, AcmdScripts and StatusScripts. *)
(***************************************************************************)
EXTENDS Unwind

CONSTANTS
  InputThread, Poller,  \* threads that read the controller; smashline's own
  Dev,                  \* the builds that the plugin's file may hold
  Period, W,            \* of TIMER: the polls it counts down, 500; its values
  MaxLoads              \* bound: calls of load_development_plugin

ASSUME LoaderAssumption ==
  /\ Dev \subseteq Image \ (Resident \cup {Game}) /\ Poller \notin InputThread
  /\ IsFiniteSet(InputThread) /\ Null \notin InputThread \cup {Poller}
  /\ W \in Nat /\ Period \in 1..W - 1 /\ MaxLoads \in Nat \ {0}

VARIABLES
  mode,      \* whether add_nn_hid_hook is there: "hook" or "poll"
  timer,     \* TIMER
  pc,        \* per input thread
  holder,    \* of LOADED_DEVELOPMENT_PLUGIN, or Null
  loaded,    \* LOADED_DEVELOPMENT_PLUGIN
  plugin,    \* per input thread: the plugin it takes out or brings in
  count,     \* loads so far, which number the plugins
  heap,      \* buffers allocated and not freed: <<plugin, buffer>>
  ro,        \* of nn::ro: [nrr: plugins registered, nro: plugins loaded]
  outcome,   \* history, per plugin: "none", "new", "failed" or "loaded"
  polls,     \* history: polls since TIMER was set, up to Period
  overlap    \* history: polls of two threads have overlapped

loaderVars == <<mode, timer, pc, holder, loaded, plugin, count, heap, ro, outcome, polls, overlap>>
reload     == <<holder, loaded, plugin, count, heap, ro, outcome>>
vars       == <<unwindVars, loaderVars>>

Threads == InputThread \cup {Poller}
Buffer  == {"nro", "nrr", "bss"}
Number  == 1..MaxLoads
None    == [n |-> 0, slot |-> 0]

Init ==
  /\ UnwindInit
  /\ mode \in {"hook", "poll"}
  /\ pc = [t \in Threads |-> IF t = Poller /\ mode = "poll" THEN "lock" ELSE "idle"]
  /\ timer = 0 /\ holder = Null /\ loaded = None /\ plugin = [t \in Threads |-> None]
  /\ count = 0 /\ heap = {} /\ ro = [nrr |-> {}, nro |-> {}]
  /\ outcome = [n \in Number |-> "none"] /\ polls = Period /\ overlap = FALSE

-----------------------------------------------------------------------------
(* hid_hook, and the loop of the thread that polls.                        *)

LastMissed(n)   == n > 1              \* mutant: the last poll is not waited for
Waits(n)        == n # 0
Signed(n)       == n - 1              \* mutant: no wrapping
Decremented(n)  == (n - 1) % W        \* fetch_sub

Polled(t) ==
  /\ polls' = IF polls < Period THEN polls + 1 ELSE polls
  /\ overlap' = (overlap \/ \E u \in Threads \ {t} : pc[u] # "idle")

\* TIMER is read; the keys may be held.
Pressed == count + Cardinality({t \in Threads : pc[t] = "lock"}) < MaxLoads
HidHook(t) ==
  /\ state = "running" /\ mode = "hook" /\ t \in InputThread /\ pc[t] = "idle"
  /\ \E next \in IF Waits(timer) THEN {"decrement"} ELSE {"idle", "lock"} :
       /\ next = "lock" => Pressed
       /\ pc' = [pc EXCEPT ![t] = next]
  /\ Polled(t)
  /\ UNCHANGED <<unwindVars, mode, timer, reload>>
Decrement(t) ==
  /\ state = "running" /\ pc[t] = "decrement"
  /\ timer' = Decremented(timer) /\ pc' = [pc EXCEPT ![t] = "idle"]
  /\ UNCHANGED <<unwindVars, mode, reload, polls, overlap>>
StorePeriod(t) ==
  /\ state = "running" /\ pc[t] = "store"
  /\ timer' = Period /\ polls' = 0 /\ pc' = [pc EXCEPT ![t] = "idle"]
  /\ UNCHANGED <<unwindVars, mode, reload, overlap>>

\* The handheld controller and eight others are asked; one of them is enough.
PollControllers ==
  /\ state = "running" /\ mode = "poll" /\ pc[Poller] = "idle" /\ Pressed
  /\ pc' = [pc EXCEPT ![Poller] = "lock"]
  /\ UNCHANGED <<unwindVars, mode, timer, reload, polls, overlap>>

-----------------------------------------------------------------------------
(* load_development_plugin: one call into the system, or one holding of    *)
(* CUSTOM_EH_MEM, at a time.                                               *)

On(t, from, to) == state = "running" /\ pc[t] = from /\ pc' = [pc EXCEPT ![t] = to]
Aside           == UNCHANGED <<mode, timer, polls, overlap>>
Its(t, buffers) == {plugin[t].n} \X buffers

Unguarded(h) == TRUE                  \* mutant: the mutex is not waited for
CanLock(h)   == h = Null
Lock(t) ==
  /\ On(t, "lock", IF loaded = None THEN "read" ELSE "unregister") /\ CanLock(holder)
  /\ holder' = t /\ count' = count + 1
  /\ plugin' = [plugin EXCEPT ![t] = loaded] /\ loaded' = None   \* loaded.take()
  /\ Aside /\ UNCHANGED <<unwindVars, heap, ro, outcome>>

\* The guard is dropped on every way out.
Leaked(t)   == t                      \* mutant: it is not
Released(t) == Null
After(t)    == IF mode = "hook" THEN "store" ELSE "idle"

\* uninstall
Unregister(t) ==
  /\ On(t, "unregister", "unload")
  /\ UnregisterSkylinePlugin(plugin[t].slot * SlotSize)
  /\ Aside /\ UNCHANGED <<image, state, reload>>
UnloadModule(t) ==
  /\ On(t, "unload", "forget")
  /\ image' = [image EXCEPT ![plugin[t].slot] = Null] /\ unwinding' = Disturbed(plugin[t].slot)
  /\ ro' = [ro EXCEPT !.nro = @ \ {plugin[t].n}]
  /\ Aside /\ UNCHANGED <<customEhMem, state, holder, loaded, plugin, count, heap, outcome>>
UnregisterModuleInfo(t) ==
  /\ On(t, "forget", "read")
  /\ ro' = [ro EXCEPT !.nrr = @ \ {plugin[t].n}]
  /\ Aside /\ UNCHANGED <<unwindVars, holder, loaded, plugin, count, heap, outcome>>

\* DevelopmentPlugin::new: what it has allocated is freed when a call fails.
Fails(t, from, buffers) ==
  /\ On(t, from, After(t)) /\ holder' = Released(t)
  /\ heap' = heap \ Its(t, buffers) /\ plugin' = [plugin EXCEPT ![t] = None]
  /\ Aside /\ UNCHANGED <<unwindVars, loaded, count, ro>>
ReadFile(t) ==
  \/ Fails(t, "read", {}) /\ UNCHANGED outcome
  \/ /\ On(t, "read", "size")
     /\ plugin' = [plugin EXCEPT ![t] = [n |-> count, slot |-> 0]]
     /\ heap' = heap \cup {<<count, "nro">>}
     /\ Aside /\ UNCHANGED <<unwindVars, holder, loaded, count, ro, outcome>>
GetBufferSize(t) ==
  \/ Fails(t, "size", {"nro"}) /\ UNCHANGED outcome
  \/ /\ On(t, "size", "register") /\ heap' = heap \cup Its(t, {"nrr"})
     /\ Aside /\ UNCHANGED <<unwindVars, holder, loaded, plugin, count, ro, outcome>>
ImageOnly   == {"nro"}                \* mutant: the NRR image is not freed
Allocated == {"nro", "nrr"}
RegisterModuleInfo(t) ==
  \/ Fails(t, "register", Allocated) /\ UNCHANGED outcome
  \/ /\ On(t, "register", "load") /\ heap' = heap \cup Its(t, {"bss"})
     /\ ro' = [ro EXCEPT !.nrr = @ \cup {plugin[t].n}]
     /\ Aside /\ UNCHANGED <<unwindVars, holder, loaded, plugin, count, outcome>>
\* A module that fails to load leaves its NRR image registered, and freed.
LoadModule(t) ==
  \/ /\ Fails(t, "load", Buffer)
     /\ outcome' = [outcome EXCEPT ![plugin[t].n] = "failed"]
  \/ /\ On(t, "load", "install")
     /\ \E k \in SlotsOf(Null), b \in Dev :
          /\ image' = [image EXCEPT ![k] = b] /\ plugin' = [plugin EXCEPT ![t].slot = k]
     /\ ro' = [ro EXCEPT !.nro = @ \cup {plugin[t].n}]
     /\ outcome' = [outcome EXCEPT ![plugin[t].n] = "loaded"]
     /\ Aside /\ UNCHANGED <<customEhMem, unwinding, state, holder, loaded, count, heap>>

\* install, which panics when the plugin exports no smashline_install.
Install(t) ==
  \/ /\ On(t, "install", "install") /\ state' = "aborted"
     /\ Aside /\ UNCHANGED <<image, customEhMem, unwinding, reload>>
  \/ /\ On(t, "install", After(t)) /\ holder' = Released(t)
     /\ loaded' = plugin[t] /\ plugin' = [plugin EXCEPT ![t] = None]
     /\ Aside /\ UNCHANGED <<unwindVars, count, heap, ro, outcome>>

Loads(t) ==
  \/ Unregister(t) \/ UnloadModule(t) \/ UnregisterModuleInfo(t)
  \/ ReadFile(t) \/ GetBufferSize(t) \/ RegisterModuleInfo(t) \/ LoadModule(t) \/ Install(t)

Players ==
  /\ \/ \E k \in Slot : PluginRegisters(k)
     \/ \E t \in Thread : Throw(t) \/ Unwinds(t)
  /\ UNCHANGED loaderVars
Next ==
  \/ \E t \in Threads : HidHook(t) \/ Decrement(t) \/ StorePeriod(t) \/ Lock(t) \/ Loads(t)
  \/ PollControllers
  \/ Players

\* Threads go on; parking_lot's mutexes are eventually fair.
Fairness ==
  /\ \A t \in Threads : SF_vars(Lock(t)) /\ WF_vars(Decrement(t) \/ StorePeriod(t) \/ Loads(t))
Spec     == Init /\ [][Next]_vars
FairSpec == Spec /\ Fairness

-----------------------------------------------------------------------------
(* Properties.                                                             *)

\* Every variable keeps its type.
TypeOK ==
  /\ UnwindTypeOK
  /\ mode \in {"hook", "poll"} /\ timer \in 0..W - 1 /\ polls \in 0..Period
  /\ overlap \in BOOLEAN /\ holder \in Threads \cup {Null} /\ count \in 0..MaxLoads
  /\ pc \in [Threads -> {"idle", "decrement", "store", "lock", "unregister", "unload",
                         "forget", "read", "size", "register", "load", "install"}]
  /\ \A p \in {loaded} \cup Range(plugin) : p.n \in 0..MaxLoads /\ p.slot \in Slot
  /\ heap \subseteq Number \X Buffer /\ ro \in [nrr : SUBSET Number, nro : SUBSET Number]
  /\ outcome \in [Number -> {"none", "failed", "loaded"}]

\* Only one development plugin is loaded at a time, whoever presses the keys
\* during a reload; between reloads it is the one LOADED_DEVELOPMENT_PLUGIN
\* holds, and its NRR is the only one registered but those of modules that RO
\* refused to load.
OneDevelopmentPlugin ==
  /\ Cardinality(ro.nro) <= 1
  /\ holder = Null =>
       /\ ro.nro = {loaded.n} \ {0}
       /\ {n \in ro.nrr : outcome[n] # "failed"} = ro.nro
       /\ {k \in Slot : image[k] \in Dev} = (IF loaded = None THEN {} ELSE {loaded.slot})

\* Between reloads exactly the buffers of the plugins that RO took are
\* allocated: a call that fails on the way frees what was allocated before it,
\* and nothing RO uses is freed, but the NRR of a module it refused to load.
BuffersAccounted ==
  /\ holder = Null => heap = {n \in Number : outcome[n] = "loaded"} \X Buffer
  /\ ro.nro \X Buffer \subseteq heap
  /\ \A n \in ro.nrr : <<n, "nrr">> \in heap \/ outcome[n] = "failed"

\* Until polls of two threads have overlapped, TIMER counts down the polls
\* since the last reload, and the keys are not looked at before it is over.
Debounced ==
  ~overlap =>
    /\ (\A t \in Threads : pc[t] = "idle") /\ state = "running" => timer = Period - polls
    /\ \A t \in InputThread : pc[t] = "lock" => polls = Period

\* A reload that was asked for comes to an end, with the plugin or without.
EveryReloadEnds ==
  \A t \in Threads : pc[t] = "lock" ~> pc[t] = "idle" \/ state # "running"
=============================================================================
