# smashline_hook, modelled, checked and proved

smashline_hook is a Skyline plugin for Super Smash Bros. Ultimate.  Other plugins call it to
replace functions of the game: ACMD scripts, status scripts, move customizers, per-frame
functions and whole symbols of the modules (NROs) that the game loads and unloads.  It can also
hot-reload one *development plugin*, whose replacements it must take back before that plugin's
code is unmapped.  This directory holds TLA+ models of it, the TLC configurations that check
them, and proofs checked by TLAPS.  Paths such as `acmd.rs:119` are relative to the crate's
`src/` directory.

What can go wrong here is almost always the same thing: a function pointer outlives the module
it points into, or a pointer that should have been kept is lost.  The pointers live in
registries, in the tables of live agents, and in hooks; the threads that change them are the
game's, the plugins' and the hot reload's.  The models therefore represent a pointer as a
record (home module, load count of that module, function), so that "points into code that has
been unmapped, even if a module of the same name has been loaded again" can be said.

## 1. Inventory

| component | state | operations | correct when |
|---|---|---|---|
| ACMD scripts: `acmd.rs`, `scripts.rs` | `GAME_SCRIPTS` and three siblings, `LOADED_ACMD_AGENTS`, eight `*_CREATE_AGENTS` | `replace_acmd_script`, the hooked `create_agent` of four categories and their shared variants, `remove_acmd_scripts`, `clear_loaded_agent` | one entry per script; a high priority one stays; live and new agents agree; an uninstall leaves no pointer behind |
| Status scripts: `status.rs`, `scripts.rs` | `STATUS_SCRIPTS`, `COMMON_STATUS_SCRIPTS`, `STATUS_CUSTOMIZERS`, `LOADED_STATUS_AGENTS`, `STATUS_VTABLES`, `CONSTANT_RESOLVER` | `replace_status_script`, `replace_common_status_script`, `replace_move_customizer`, the resolution when "common" loads, `set_status_scripts`, `remove_status_scripts`, `release_status_vtables` | the same, and requests made before the constants are known are resolved without loss; vtables live as long as their agents |
| Callbacks: `callbacks.rs` | seven lists, three `Once`/`SHOULD_INSTALL_*` pairs, `COMMON_MEMORY_INFO` (`lib.rs`) | `add_*_callback`, `install`, the hooks that run a list, seven `remove_*` | lists lose nothing and keep nothing stale; the game never calls unmapped code; each list in use has one hook |
| Frame replacements: `callbacks.rs` | `FIGHTER_FRAMES`, `WEAPON_FRAMES`, `AGENT_FRAMES_MAIN` | `replace_*_frame`, the three `sys_line_*_init` hooks | the originals form a chain that ends in the game's function |
| Symbol hooks: `hooks.rs`, `rtld.rs` | `SYMBOL_HOOKS`, the symbol tables of loaded modules | `replace_symbol`, `replace_static_symbol`, `nro_load`, `nro_unload` | the patched value relocates to the replacement; chains of originals end |
| Development plugin: `loader.rs`, `lib.rs` | `LOADED_DEVELOPMENT_PLUGIN`, `TIMER` | `load_development_plugin`, `hid_hook`, the polling thread of `main` | one plugin at a time; everything it registered is gone before it is unmapped; a failed call frees what the calls before it allocated |
| Unwinding: `unwind.rs` | `CUSTOM_EH_MEM` | `register_skyline_plugin`, `unregister_skyline_plugin`, `step_replace`, `custom_eh_personality` | the regions are those of plugins still there; an exception lands in the right function, or says why it cannot |
| The mutexes, all files | who holds which | the lock sequences of every operation | nobody waits in a circle; every guard is dropped |
| Symbol lookup, pattern scans: `rtld.rs`, `scripts.rs`, `unwind.rs` | none | pure | result equals the linker's |
| `nro_hook.rs`, `nx.rs` | none | thin wrappers over the system | not applicable |

**Interactions.**  `lib.rs` registers `nro_load` and `nro_unload`, which call every component in
turn when the game loads or unloads a module.  Plugins call the `extern "Rust"` functions from
their `main`, the development plugin from its `smashline_install`.  The game calls the hooked
functions.  `load_development_plugin` runs either inside the game's input poll (`hid_hook`, when
`add_nn_hid_hook` is found) or on a thread of its own (the loop of `main`).  Every registry is a
`parking_lot::Mutex` (or a lazy one of the same kind); there is no other synchronisation, and
`COMMON_MEMORY_INFO`, `CONSTANT_RESOLVER` and `SHOULD_INSTALL_*` are plain `static mut`.

**What is hard.**  (1) Operations take several locks one after another, so other threads see the
states in between.  (2) An uninstallation undoes, in steps, what happened over a long history of
installs, supersessions, module loads and agents.  (3) The state is keyed by hash, while live
objects come and go by address.  (4) Initialisation is split between whoever comes first.
(5) Lock orders differ between requests and removals.
(6) Addresses of plugins are kept as numbers, and numbers outlive plugins; differences of addresses
wrap.  (7) A reload may overlap anything, an exception on its way through the plugin included.
The file `PROJECT.json` lists each such hazard at its line with the property that covers it, or
why none does.

## 2. Modules

| module | models | kind |
|---|---|---|
| `ScriptSlots` | what a registry promises: one holder per slot, free slots are claimed, low priority gives way, only the guest leaves | abstract specification |
| `AcmdScripts` | ACMD scripts, with the loader and `CUSTOM_EH_MEM` as far as they take part | component |
| `AcmdScriptsProofs` | theorems about `AcmdScripts`, threaded or not | proofs |
| `AcmdUninstallProofs` | what agents run and what an uninstall leaves behind in `AcmdScripts`, over the theorems before | proofs |
| `StatusScripts` | status scripts and customizers | component |
| `StatusScriptsProofs` | theorems about `StatusScripts`, threaded or not | proofs |
| `StatusUninstallProofs` | what an uninstall leaves behind in `StatusScripts`, over the theorems before | proofs |
| `Callbacks` | the callback lists, their hooks, the load of "common", the uninstallation | component |
| `CallbacksProofs` | theorems about `Callbacks` | proofs |
| `Rtld` | the hash and the two lookups of `rtld.rs`, and the table a linker makes | pure operators |
| `SymbolHooks` | `hooks.rs` over `Rtld`: modules and plugins in a memory of numbered addresses | component |
| `FrameChains` | the frame replacements, over `SymbolHooks`: a frame function is found as the loader resolves it, which a symbol hook may have changed | composition |
| `FrameChainsProofs` | theorems about `FrameChains`, `SymbolHooks` and the lookup of `Rtld` | proofs |
| `Unwind` | `unwind.rs` under a two-phase unwinder, `CUSTOM_EH_MEM` | component |
| `Loader` | `loader.rs` and the reload keys, over `Unwind`: the plugin leaves and comes while exceptions are on their way | composition |
| `LoaderProofs` | theorems about `Loader`, and about `Unwind` under its steps | proofs |
| `LockOrder` | every mutex and the order in which each operation takes it | composition of all locks |
| `LockOrderProofs` | theorems about `LockOrder` | proofs |
| `MCAcmdScripts`, `MCStatusScripts`, `MCCallbacks`, `MCFrameChains`, `MCLoader`, `MCLockOrder` | small instances | for TLC |

`FrameChains` EXTENDS `SymbolHooks`, which EXTENDS `Rtld`; `Loader` EXTENDS `Unwind`.  The
registries that `loader.rs:161-170` purges share no state with one another but the loads of the
plugin, so each has its own uninstallation in its own module, and `LockOrder` has the whole order.

### AcmdScripts

State: one variable per registry (`scripts`, `loadedAgents`, `customEhMem`), the game's agents
with their function tables, the load counts, and three program counters: `creating` (an agent
that `create_agent` has listed but not yet equipped, between the two locks of
`scripts.rs:38-39`), `pending` (a request installed live but not yet recorded, between the two
locks of `replace_acmd_script`), and `phase`/`todo` (the uninstallation, which takes the
registry lock once per agent while it holds the list of agents).

| action | code |
|---|---|
| `NroLoad`, `NroUnload` | `nro_load` and `nro_unload` of `lib.rs`, the latter with `clear_loaded_agent` |
| `CreateAgent`, `EquipAgent` | `create_agent_fighter_*`: the original and the listing; the registry over it |
| `DestroyAgent` | the game; nothing in the code is told |
| `InstallLive`, `RecordScript` | `register_skyline_plugin` and `install_live_acmd_scripts`; the rest of `replace_acmd_script` |
| `LoadDev`, `BeginUninstall`, `RestoreAgent`, `PurgeScripts`, `UnloadDev` | `load_development_plugin`, `remove_live_acmd_scripts`, `remove_acmd_scripts`, `unregister_skyline_plugin` and `UnloadModule` |

`Threaded` chooses between the two builds of `main`: with FALSE an operation is over before the
next begins (the reload runs inside the game's input poll and no plugin has a thread); with TRUE
all interleave.  An agent that the game has deleted stays in `LOADED_ACMD_AGENTS`; the next
install or removal for its hash dereferences it.  That access sets `ub`, and a run stops there:
what the build does afterwards is not described by the code.

What `nro_load` does here, `patch_create_agent_animcmd`, has no state of its own: the create
functions of a module, with their hashes, are the constant `Factory`, and `CreateAgent` asks that the
module is in memory.  `NroUnload` is one step, although `clear_loaded_agent` takes the list of agents
once per hash: it only takes agents off, and all of them are dead.  `UnloadDev` is
`unregister_skyline_plugin` and `UnloadModule` at once; `Loader` has the two apart, and what can come
between them.

Lists are sets, because `ScriptsUnique` (proved) makes the order of a list irrelevant.  A
function is a model value; strings and addresses do not appear.

### StatusScripts

Like `AcmdScripts`, with these differences in the code.  A request keeps the registry locked
from the live installation until it is recorded (`status.rs:242-267`), so it is one action.
Status kinds are constants the game fills in when "common" loads, so before that requests pile
up unchecked (`resolver`), and `LoadCommon` sorts them out (`Normalised`).  An agent gets its
table in three steps, each with another lock: `SetTable` (the original `set_status`, with the
common table and its scripts for fighters), `InstallStatuses`, `InstallWaza`.  Uninstalling is
`RemoveLiveStatuses`, `RemoveLiveWaza`, `PurgeStatuses`, `UnloadDev`.  Order matters before the
resolution, so entries carry their position.

### Callbacks

State: the lists, `once` and `should` of each lazy list, the hooks placed in the "common" now
loaded, `game` (the list the game runs and holds locked), `adding` (how far each plugin is in an
`add_*_callback`), `phase` (how many lists the uninstallation has purged).  `RunList`, `CallNext`
and `EndRun` are a hooked function; `BeginOnce`, `EndOnce`, `BeginPush` and `Push` an
`add_*_callback`; `LoadCommon` and `SetCommonInfo` the two ends of `lib.rs` `nro_load` for
"common", between which other threads see the hooks but not yet `COMMON_MEMORY_INFO`.
`overlap` is a history variable: the last load of "common" and some first registration overlap.
A callback's body is opaque: it returns, and does not register into the list it runs from (that
would wait for itself).

### Rtld, SymbolHooks, FrameChains

Memory is a row of slots, one image each; an address is `slot * SlotSize + offset`, below `W`, and
all arithmetic on addresses is modulo `W`, as it is on `u64` in a release build
(`OverflowChecks = TRUE` is a debug build, which panics instead).  An image holds a plugin's
functions (*pieces*) and the statics that their `original`s point to.  An entry of a registry keeps
the piece and the slot, which is what two addresses keep: whatever lies there later.

| action or operator | code |
|---|---|
| `HashStep`, `ElfHash`, `GetSymbolByName`, `GetSymbolByValue` | `gen_rtld_elf_hash` on 32 bits, `get_symbol_by_name`, `get_symbol_by_resolved_address` |
| `LinkerTable` | not the code but its input: buckets and chains over the ABI's hash |
| `LoadModule`, `UnloadModule` | `nro_load` with `lazy_symbol_replace` of every hook in turn; `nro_unload`, which nulls the originals |
| `ReplaceSymbol`, `StaticSymbol` | `replace_symbol`; `replace_static_symbol` by name or by the address the plugin was bound to, which may be a replacement already |
| `ReplaceFrame`, `SysLineInit` | `replace_*_frame`; the hooked init of an agent, which rebuilds the chain of originals and installs its head |
| `LoadDev`, `UnloadDev` | the development plugin comes with fresh statics and leaves its entries: neither `SYMBOL_HOOKS` nor the frame lists are purged |

The state `faulted` is a write to, or a call of, memory where no plugin is.  `patched` and `seen`
are history: the hooks a module was loaded with, and how long the list was when an agent was
initialised.  The loads, unloads and initialisations go through a list of entries with one and the same
three-field image (`Patching`, `Nulling`, `Chaining`: functions of how many entries are done).  The
properties follow the calls (`Reached`) from what the game calls, one entry at a time, to its end
(`Calls`).

### Unwind, Loader

A plugin's image has code cells, then data; some of its functions hold a marker.  libunwind is
external: it walks the stack once to search and once to clean up, and asks at each frame.
`StepReplace` is the hooked step, `MakeInfo` the rest of it (`byte_search` for the marker, which
goes on past the function), `CustomEhPersonality` the personality routine with its two looks at
`CUSTOM_EH_MEM` (`customEhMem`, a set of regions: nothing asks for their order).  A plugin that is
not known ends the process (`aborted`), as the code says it does.  What the compiler guarantees is a
named assumption, `CodeAssumption`: functions and markers lie in a module's text, a return address
lies in a function, and the outermost frame is the game's and catches everything.

| action of `Loader` | code |
|---|---|
| `HidHook`, `Decrement`, `StorePeriod` | `hid_hook`: `TIMER` is read, then decremented with `fetch_sub` (modulo `W`), and set when the reload is over |
| `PollControllers` | the loop of `main`, when `add_nn_hid_hook` is not there; both builds from `Init` |
| `Lock` | `LOADED_DEVELOPMENT_PLUGIN.lock()` and `take()` |
| `Unregister`, `UnloadModule`, `UnregisterModuleInfo` | `uninstall` |
| `ReadFile`, `GetBufferSize`, `RegisterModuleInfo`, `LoadModule` | `DevelopmentPlugin::new`; each may fail and then frees what was allocated |
| `Install` | `install`, which panics without `smashline_install` |
| `PluginRegisters`, `Throw`, `Unwinds` | what the rest of the game does meanwhile |

`disturbed`, `outcome`, `polls` and `overlap` are history: a frame's slot changed under an
unwinding; what became of each plugin; polls since `TIMER` was set; two threads polled at once.

### LockOrder

An operation is the sequence of its `lock`, `unlock` and `call` steps, written as nested blocks
(`Within`, `Briefly`, `EachBriefly`, `AllHeld`), so that the definitions read as the guards' scopes in
the code.  A `call` hands control to a plugin, which may call any exported function or read the
controllers.  Threads of the game run its hooked functions, an input thread reloads, a plugin's
thread calls what is exported.  Each category of ACMD scripts, and each callback list, has a
mutex of its own.

## 3. Runs

Twelve runs; all bounds are named constants (`MaxGen` and `MaxLoads` loads of a module or of the
development plugin, `MaxAgents` agents).  `CHECK_DEADLOCK FALSE` everywhere: with the loads and
agents used up, after an access to freed memory, and where threads wait for each other, the
models stop.

| run | instance | what it shows |
|---|---|---|
| `acmd_serial` | one module, two plugins, five requests, serial | `ReplacedNeverNative`, `OnlyDisplacedDangle`, `BackupNotSelf`, `HighPriorityKept` |
| `acmd_threaded` | two modules sharing a hash, two requests, threaded | `TypeOK`, `ScriptsUnique`, `ListedAgentsMapped`, `EntriesMapped`, `EhMemExact`, `LiveAgentsListed`, and `AcmdScripts` implements `ScriptSlots` |
| `acmd_backup` | as `acmd_serial` | violated: an uninstall does leave live agents running unmapped code |
| `acmd_self_backup` | as `acmd_threaded` | violated: a script can be saved as its own original |
| `status_uninstall` | two fighters that use the common table and a weapon; six requests, one of them for all fighters and one of a resident plugin with high priority; serial | `OnlyLowDangle`: what was given with high priority is taken back, but in `Exposed` slots (section 5) |
| `status_threaded` | a fighter with functions of its own, two plugins that both ask for it with high priority and one also with low, customizers, threaded | `TypeOK`, `ResolvedUnique`, `EntriesMapped`, `VtablesExact`, `InstalledEverywhere`, `FirstHighKept`, and the customizers implement `ScriptSlots` |
| `status_common_load` | low and high priority requests | violated: the resolution drops every low priority request |
| `status_stale_waza` | one customizer of the development plugin | violated: a reloaded plugin is refused in favour of its own unloaded code |
| `callbacks` | two plugins, three lists (two lazy), two loads of "common" | `TypeOK`, `CallsMapped`, `ListsExact`, `HookedOnce`, `UninstallEnds` |
| `hook_chains` | "common" and a static module, a resident and the development plugin, four slots, three symbol hooks and one frame function, two agents of equal kind number and different category | `SymbolChains`: a symbol leads through its replacements, newest first, to the game's function; `OriginalsNulled`; `AgentChains`: the same for what agents run every frame; `FaultsOnlyByStale`; `TypeOK` |
| `reload_unwind` | two input threads or the poller, two builds of the development plugin and one resident, three slots, six stacks | `OneDevelopmentPlugin`, `BuffersAccounted`, `Debounced`, `LandsInHandler`, `DiesOnlyIfDisturbed`, `EveryReloadEnds`, `TypeOK` |
| `lock_order` | one thread each of the game, the input and a plugin; one category, one list | `OnlyKnownCircles`: three kinds of waiting in a circle and no others; `HandlersInNoCircle`; `EveryCallReturns`; `TypeOK` |

**Why the bounds are enough.**  Two plugins are needed because priority and refusal are between
owners, and only the development plugin leaves: one resident and one guest make every pair.  Two
loads of it (`MaxGen = 2`) distinguish a stale instance from the present one; a third brings no
new relation between an entry and its home.  Two agents give one created before and one after
an operation, and two that share one entry's backup.  Scripts, statuses and categories are
independent of each other in every loop, so one suffices; the sharing of a hash by two modules
is in `acmd_threaded`.  In `status_threaded` two high priority requests compete for one slot, before
the resolution and after it, and the one of the plugin that leaves may be the first: each part of
`FirstHighStep`, its exception included, has states that need it.  In `status_uninstall` one fighter
is `Exposed` (a resident plugin asks for its status with high priority), one is not, and the weapon
is; without either disjunct of `Exposed` TLC finds the property violated.  Three callback lists give two lazy ones and one eager, and three purges
of which the game may hold any.  Between them the passing runs fire every action.

In `hook_chains` "common" and the plugin may lie in any free slot, on either side of each other
and of the modules that stay, so `replace - base` wraps in some states and not in others.  "common"
is loaded twice and the development plugin twice (`MaxLoads` is per image; after the last load an
image stays, so that the end of a history is the interesting state).  The table of "common" has
seven buckets so that two of its three names share one: `GetSymbolByName` has to walk a chain and
to pass over an import.  One of the names ("iiiiicos") makes the sum of the hash exceed 32 bits.
The two agents share kind 0, once of a fighter, once of a weapon.

In `reload_unwind` the period is 2 and the counter has four values: it can wrap, and the countdown
has more than one step.  Two loads give one uninstallation with a successor that may lie at the
same place with another size (the two builds differ in it), and a failure at each call of either.
The stacks go through a resident plugin, through either build, through functions without a marker
with and without a marker after them, and through no plugin.

In `lock_order` a circle of the three known kinds needs at most three threads, one of each kind:
the plugin's request, the loader, the load of "common".  Operations of one kind take their mutexes
one after another in the order of the list, so a second category or list would only add pairs of
that kind, always in that order.

**Fairness.**  Three runs need it.  Threads that can proceed do: weak fairness of the steps that
wait for nothing (in `callbacks` of the game's run, of `Once`, of `SetCommonInfo` and of the unload;
in `lock_order` of `Release` and `EnterPlugin`; in `reload_unwind` of the thread's own steps of a
reload), which assumes that callbacks and system calls return.  A thread that waits for a mutex
gets it even though others take it again and again (strong fairness of `Push` and `PurgeList`, of
`Acquire`, of `Lock`): parking_lot's mutexes hand over to a waiter after a bounded time ("eventual
fairness").  Nothing is assumed of whether anybody loads, registers, runs, throws, presses the
keys or uninstalls.

## 4. What is proved

For every value of the constants that satisfies the named assumptions, and so for any number of
agents, modules, plugins, lists and loads:

| theorem (module) | says |
|---|---|
| `TypeCorrect` (`AcmdScriptsProofs`) | `Spec => []TypeOK` |
| `ScriptsStayUnique`, `EntriesStayMapped`, `EhMemStaysExact` | the registry has one entry per script, no entry or request under way points into an unloaded plugin, and the unwinder knows exactly what it must |
| `ListedAgentsStayMapped`, `LiveAgentsStayListed` | `clear_loaded_agent`, which compares hashes, forgets every agent of the unloaded module, and a live one only if the module serves its hash too |
| `RegistryImplementsSlots` | `Spec => Slots!Spec`: seen slot by slot, the registry does what `ScriptSlots` says |
| `HighPriorityHeld` | from it: a script recorded with high priority is overridden by no later request |
| `ReplacedForGood` (`AcmdUninstallProofs`) | with one thread: no listed agent runs its own module's function where the registry has a replacement |
| `HighPriorityTakenBack` | with one thread: an uninstall leaves nothing of the plugin in listed agents but what it gave with low priority or as common, and what it puts back is in memory |
| `HighPriorityKeptForLife` | with one thread: an agent keeps what a resident plugin gave it with high priority, in every step until it dies |
| `BackupsOfOthers` | with one thread, under `NoFnForBoth`: no script is saved as its own original |
| `TypeCorrect` (`CallbacksProofs`) | `Spec => []TypeOK` |
| `ListsStayExact` | every list is what the plugins still there added to it |
| `CallsStayMapped` | the game never is in, nor will call in this run, a callback of a plugin that has left |
| `ListsStayHookedOnce` | unless its load overlapped a first registration, a loaded "common" has exactly one hook for every list in use |
| `ReloadInvariant` (`LoaderProofs`) | what is loaded, registered with RO and allocated at each point of a reload: the inductive invariant |
| `OneDevelopmentPluginHolds` | one development plugin at a time, whoever presses the keys during a reload; between reloads the one `LOADED_DEVELOPMENT_PLUGIN` holds |
| `BuffersAccountedHolds` | between reloads exactly the buffers of the plugins RO took are allocated, whichever call failed |
| `DebouncedHolds` | until polls overlap, `TIMER` counts down the polls since the last reload, for any period and width |
| `TypeCorrect` (`LoaderProofs`) | `Spec => []TypeOK` of `Loader`, the unwinding included |
| `UnwindInvariant` | what is true at each point of a walk of the stack: the inductive invariant |
| `ExceptionsLand` | an undisturbed exception lands in the innermost frame that catches or is a plugin's, in the pad of its own function |
| `OnlyDisturbedDie` | the process dies of an unwinding only if a function has no marker or a plugin on the stack was not registered all along |
| `TypeCorrect` (`FrameChainsProofs`) | `Spec => []TypeOK` |
| `OriginalsStayNulled` | while a module is not loaded the originals of its hooks are null |
| `LookupFinds` | in tables a linker made with the hash of `rtld.rs`, every defined symbol is found by its name, and `LinkedByHash` holds |
| `SymbolsLead` | under `LinkedByHash`: a symbol leads through its replacements, the newest first, to the game's function |
| `AgentsLead` | under `LinkedByHash`: so does what a live agent runs every frame, through exactly the replacements meant for it |
| `OnlyStaleFault` | under `LinkedByHash`: nothing is written to or called where nothing is, until a development plugin has left entries behind |
| `TypeCorrect` (`StatusScriptsProofs`) | `Spec => []TypeOK` |
| `RegistryCorrect`, `ListsResolved`, `RecordedIsMapped` | what is recorded is code of a plugin in memory that asked for it, and from the resolution on a slot has one entry |
| `VtablesCorrect` | a fighter's own vtable is there exactly as long as it may be used |
| `InstalledThroughout` | under `NoDevCommon`: what is recorded for a hash is in the table of every live agent of it, older or younger than the request |
| `FirstHighStays` | in every step the first high priority script of a slot stays, until its plugin leaves |
| `CustomizersImplementSlots`, `WazaHighPriorityHeld` | the registry of customizers does what `ScriptSlots` says; what follows from it for high priorities |
| `HighTakenBack` (`StatusUninstallProofs`) | under `NoDevCommon`, so that no slot is `Exposed`, with one thread: an uninstall leaves nothing of the plugin in live agents but what it gave with low priority |
| `TypeCorrect` (`LockOrderProofs`) | `Spec => []TypeOK` |
| `LockInvariant`, `OrderKept`, `NothingLeftLocked` | mutexes are nested only in the order `GameOrder` and `PluginOrder` say, and a thread that has done its work holds none |
| `CirclesAreKnown` | threads wait for each other only in the ways `OnlyKnownCircles` lists |
| `HandlersStayOut` | if game threads neither reload nor are a plugin's: a handler is in no circle but that of the load of "common" |

**Argument for the registry.**  `EntriesMapped` alone is not inductive: that `PurgeScripts`
comes before `UnloadDev` is not in it.  `RegistryInv` adds that a purged registry has no entry of
the development plugin, that its pending request is over by then, that resident plugins stay
mapped and that every pointer's region is registered.  `AgentsInv` ties each agent's hash to the
export that made it: a module unloads with all the hashes it serves, so a comparison of hashes
misses none of its agents.
The refinement maps a slot to the entry of its list; `ScriptsUnique` makes the map well defined,
`RecordScript` is a claim or an override, `PurgeScripts` is `Leave`, everything else stutters
(backups may change: they are not part of a holder).

With one thread `SerialInv` goes further.  `TurnsInv`: while an agent is made, a request is half
way or the plugin is being unloaded, nothing else is.  `MadeInv`: every entry stands for a request,
and what it saves is nothing, a fighter module's function or one requested for "common"; so a
function of the plugin put back from a backup was given as common.  `EquippedInv` says three things
of a live, listed agent that has its functions.  `Replaced`: nothing of its own module is left under
an entry of its list.  `Backed`: a plugin's function that no request gives with low priority or as
common has its entry in the list, or is under way to a free place in it; hence the uninstall, which
goes by the entries, meets it, and hence a resident's entry is what is there when it looks.  It
needs `Replaced`: a request finds an agent open only if the list has no entry for the script, so it
is not refused when it is recorded.  `SoundAgent`: a module's function, run or saved, is in memory,
of a module that serves the agent's hash, and so is forgotten with the agent.

**Argument for the callbacks.**  `IInv` adds to the properties that a plugin in the middle of a
registration is mapped (`AddInv`: the development plugin's uninstallation begins only when its
registration is over), that what the game has yet to call is still in the list it holds
(`GameInv`: the purge of that list needs its lock), and that the development plugin's additions
are forgotten with it (`LifeInv`).  The hooks need `OnceInv` (the flag is set exactly when the
`Once` has begun; a non-empty lazy list has been through its `Once`) and `CommonInv`
(`COMMON_MEMORY_INFO` is set whenever "common" is loaded); then `HookInv` is inductive: the load
places the hooks of the lists whose `Once` is done, and a later `Once` places its own.

**Argument for the loader.**  What `OneDevelopmentPlugin` says of the time between reloads
(`FreeInv`) is not inductive: the invariant also says what there is at each point in between.
`There(nro, good, slots, buffers)` names it: the modules RO has, the NRRs it has but for those of
modules it refused, the slots with a build of the plugin, and the buffers beyond those of the
plugins RO took.  `UninstallInv` and `NewInv` give `There` for each program counter; `HolderInv`
(who reloads holds the mutex, and only that one) makes those conditions speak of one thread at a
time, and `FreshInv` says that the number of a plugin on its way is nobody else's, so that freeing
its buffers frees no other's.  `CountInv` counts the threads that wait, and is needed only because
the model bounds the loads.  `TimerInv` is separate: until polls overlap at most one thread is not
idle, and it has either read `TIMER` and not decremented it, or found it zero.

**Argument for unwinding.**  `UnwindInv` is inductive together with the loader's `IInv`.
`RegionInv`: a region is of one slot, and of none of the game's.  `WalkInv`, for each point of a
walk: the frames gone by are the game's and catch nothing (`Passed`), and a walk stops at the first
other one (`StopsAt`), which is therefore the same in the search and in the cleanup.  `KnownInv`: as
long as nobody disturbed an unwinding each of its frames is in a function of an image that is still
there, and registered if it is a plugin's.  The load and the unload of an image, and the end of a
registration, are the steps that could break it, and they mark exactly the unwindings they touch;
that the slot unloaded is one of the development plugin comes from `IInv`.  `PadInv` then says that
`byte_search` found the marker of the frame's own function, and `DeadInv` that only an unknown or
unmarked frame ends the process.

**Argument for the status scripts.**  `TypeInv` adds two facts of the code's order of doing things to
`TypeOK`: an agent is a record from its creation on, and a list's entries have distinct positions
and a last one (the resolution and `FirstOf` ask for a first).  `CommonInv` ties
`COMMON_MEMORY_INFO` and the resolver to the last load of "common", which precedes every fighter
module and agent.  `RegistryInv`: plugins that stay are in memory, the development plugin is but for
the phase "unloaded"; every entry was asked for by a plugin in memory, the development plugin's
being gone once the lists are purged; resolved lists have one entry per slot.
`InstalledInv` strengthens `InstalledEverywhere` to the moments in which it is not `Quiet`: an agent
whose tables are complete has, for each entry of its list, a function that is neither its own, nor
of "common", nor none.  It holds because a request keeps the registry locked from the live
installation until it is recorded, and because the functions an agent is created with are of its own
module or "common".
`UndoInv` is the invariant of an uninstall: all that a live agent runs *lasts* (it is none, the
game's, a staying plugin's, or given with low priority), or it is the function of an entry still
recorded for the agent's hash; and what the development plugin's entries saved as backups lasts.
While an agent is being made (`Being`) neither is asked of it; with one thread no uninstall begins
meanwhile (`MakingInv`).

**Argument for symbol hooks and frames.**  `BaseInv` is what every other invariant rests on: types,
`MemoryInv` (images lie apart, residents stay at `Home`), and `EntriesInv`: in every list an entry that
is not stale is where its plugin is now, and there is one for a piece.  The model takes for granted that
a plugin registers a piece once between its load and its unload (`used`), as its install function does:
the same function twice in one list would be its own original.  An entry of an earlier load is stale
for good, even if the plugin comes back to the same place.
`NullInv` turns `OriginalsNulled` around: an original that is not null is that of a hook of a module that
is loaded.  Stated of the statics instead of the entries it survives plugins that come and go, and the
unload, which reaches the static of every hook of its module.

`ChainInv` and `AgentInv` say of the memory what `SymbolChains` and `AgentChains` say of a call.
`Leads(es, ps, j, native, address)`: the address is the newest entry of `ps` before position `j`, or
native if there is none; a chain is native linked to each entry's original in turn, and its end is
what a symbol or an agent has.  Patching a module and initialising an agent extend such a chain by one
(`Patching`, `Chaining`, by induction over the list); every other step has to leave the originals of the
chain alone, for which `EntriesInv` says that another symbol's, another list's or another module's
entries have other statics.  An agent initialised later rewrites the originals of the entries for its
kind and category, which is the same chain for all agents that have it, grown at its newer end only:
this is why `AgentInv` speaks of `seen`, and needs `ChainInv` for what the chain starts from.  An
address that a static symbol resolves to is in its module until the symbol is replaced and in a plugin's image from
then on (`WhereTo`), so `replace_static_symbol` patches the symbol meant, and once (`StaticEffect`).
From the chain the calls follow by induction from its newest end (`ChainCalls`).

`FaultInv` is `FaultsOnlyByStale`, inductive with the two before: a write goes to the static of an
entry, which is of a plugin in memory unless it is stale; the address a static symbol resolves to is
in an image by `ChainInv`; what an agent is given is the newest entry's function or the game's.  Hence it
needs `LinkedByHash` as they do: with another hash a lookup could miss the symbol that was already replaced.

**Argument for the mutexes.**  An operation is a finite sequence of steps, and a callback may put
another sequence before the rest of it, to any depth.  `Runs(t, A, s, B)` says that the steps of `s`
lead from holding `A` to holding `B`, each lock on the way being one that `MayLock` allows with what
is held then; it is closed under concatenation (`RunsBoth`) and under the blocks the operations are
written with, and every operation `Does` run from what it may be called with to the same set.  So
`LockInv`, that what a thread has yet to do runs from what it holds to nothing, is inductive.  A lock
of what is held already leads to `Stuck`, from where anything goes: the thread never leaves it.
In a circle every mutex waited for is held by a thread that waits for another, so the set of them
(`Wants`) has no first in the order.  What only the game's handlers lock drops out of it
(`HandlersUnwanted`), then, without plugin code under a lock, all but the status registries and the
live status agents (`StatusWanted`), which leaves the circles of `AgentsAgainstRequest`.  For
`HandlersStayOut` one counts: a circle has as many mutexes as threads (`EachItsOwn`), so an unloading
module that waits for the live status agents would be the request that waits for them too.

**Assumptions.**  The bounds are positive; names of different kinds differ; `Dev` is a plugin;
requests and exports are records of their types; and of the exports for one category and
sharing only one serves a hash (`create_agent` asks them in the order of a `HashMap`, so with two
the code itself would not say which one is taken).  For `Loader`: the builds of the
plugin are images that are not always there, the threads are finitely many, and the period is a value of the counter other than 0.
For `Unwind`, `CodeAssumption` (section 2).
All are `ASSUME`s of the components, evaluated by TLC in every run.

For `SymbolHooks`: `HooksAssumption` (the images that stay have different homes; pieces of a plugin
are at different places in it; what is registered at once is symbols of modules that come and go) and
`TablesAssumption`, what any linker makes: a module defines a name once, the indices in its table are
those of symbols, and its chains end.

Several theorems have hypotheses of their own. `LinkedByHash` says that each symbol is on the chain of
the bucket that `gen_rtld_elf_hash` puts its name in.  It is not an `ASSUME` of the model because the
hash is code: with a wrong one `SymbolChains` fails on the tables of `hook_chains`.  `LookupFinds`
proves it for every table that a linker makes, if the two hashes agree on the names in it.
`NoDevCommon` says that the development plugin does not replace status scripts of *all* fighters (`replace_common_status_script`). It cannot be dropped:
the counterexamples are in section 5. `~Threaded` is the build in which `hid_hook` reloads and no
plugin has a thread; with threads `OnlyLowDangle`, `ReplacedNeverNative`, `OnlyDisplacedDangle` and
`BackupNotSelf` are false, as section 5 says. `NoFnForBoth` says that no plugin replaces a script of
one agent and the same script of all of them with one function: `create_agent` would install that
function as common and then save it as the original of the agent's own entry (TLC finds this in
eight states when such a request is added to `acmd_serial`). `HandlersStayOut` needs the kinds of
threads to be apart: of a thread that both runs handlers and reloads, what it holds does not say
which it is at.

**Out of the prover's reach.**  `UninstallEnds`, `EveryReloadEnds` and `EveryCallReturns`
(liveness, fairness) are checked by TLC only.
So would be anything about `ENABLED`, or what `ElfHash` is in closed form.  The recursive functions of
`SymbolHooks` and `FrameChains` go along a list that is finite; what holds of them at each
position is proved by looking at the first position where it does not (`UpTo` and `DownTo`, over
`WellFoundedInduction`'s minimal elements).

**Only model-checked.**  The three liveness properties.  And of the code of `rtld.rs`: that
`gen_rtld_elf_hash` computes the ABI's hash of a name, which `hook_chains` checks on its names, one of
which overflows 32 bits; for others it is the hypothesis of `LookupFinds`.

## 5. What the models found

Four disagreements with what the source says of itself are runs with a violated property, and
findings in `PROJECT.json`: backups that guarantee nothing on uninstallation (`acmd_backup`), a
script that is its own original (`acmd_self_backup`), low priority status scripts forgotten when
"common" loads (`status_common_load`), customizers of unloaded code that refuse their own
successor (`status_stale_waza`).  The first and third need one thread only.

Other behaviours that the models exhibit, and that the properties above therefore exclude by an
explicit condition:

- `RestoreAgent` and `PurgeScripts` (ACMD), `RemoveLiveStatuses` and `PurgeStatuses` (status) are
  apart: with threads, an agent created in between takes a function of the leaving plugin.
  Hence `OnlyDisplacedDangle` and `OnlyLowDangle` are checked for the serial build.
- With threads, an agent created while a request is half way gets it from neither side:
  it was not listed when the request went through the live agents, and took its table before
  the request was recorded.  Hence `ReplacedNeverNative` is checked for the serial build; the
  status requests, which keep the registry locked, satisfy their counterpart
  `InstalledEverywhere` with threads too.
- A function of the development plugin given with low priority, or for all agents, may stay in a
  live agent after the uninstall: the entry was superseded, or is never looked at
  (`OnlyDisplacedDangle`, `OnlyLowDangle`).
- A common status request is installed in live agents before it is found to be refused
  (`status.rs:281-297`): live weapons, which have no common table, then run what nobody recorded.
- `remove_live_status_waza` ignores the range it is given (`scripts.rs:468-477`) and takes every
  plugin's customizer off the live agents.
- The common half of `remove_live_status_scripts` (`scripts.rs:497-507`) overwrites an agent's
  own high priority script for the same status.  So `InstalledEverywhere` needs `NoDevCommon`: a
  resident plugin replaces a fighter's own script, the development plugin the same status of all
  fighters; when that is uninstalled live fighters lose the resident's script, new ones have it.
- If the development plugin replaces a status of all fighters, an uninstall can leave one of its
  functions in a live agent, even one given with high priority and with one thread only.  One way:
  a resident plugin holds the slot of a fighter, or of all, with high priority; the development
  plugin's request is installed in the live agents that ran the function of "common"
  (`scripts.rs:406-415`) and then turned away from the list (`status.rs:251-259`), so that no
  uninstall knows of it.  Another: its entry for all fighters saves the function of "common" as
  backup (`status.rs:72-98`); after "common" and the fighters' module have been loaded again, the
  uninstall writes that backup, of the first load of "common", into a weapon, which has no common
  table and never ran the entry (`scripts.rs:497-507`).  `OnlyLowDangle` excepts these slots by name
  (`Exposed`), and its run has them; everywhere else what was given with high priority is taken
  back.  Without a request for all fighters no slot is `Exposed`, and `HighTakenBack` is proved.
- If the load of "common" and a first registration overlap, its hook is forgotten or placed twice,
  and after "common" has gone it is written where "common" was (`HookedOnce` excludes the
  overlap and shows that the next load puts things right).
- Agents that the game deletes while their module stays loaded remain listed and are
  dereferenced by the next request for their hash (`ub`).
- **Circles of waiting.**  Besides request against removal (`status.rs:242-245` and `214-217`
  against `scripts.rs:470-483`) there is one of three threads, none of which is wrong on its own:
  the load of "common" holds `STATUS_SCRIPTS` and wants `COMMON_STATUS_SCRIPTS` (`status.rs:109`),
  `replace_common_status_script` holds that and wants the live agents, the uninstallation holds
  those and wants `STATUS_SCRIPTS`.  A plugin that reads the controllers in its install or
  uninstall function, keys held, reloads within a reload and waits for itself (`loader.rs:181`), as
  a callback does that registers into its own list.  `OnlyKnownCircles` excepts these and no others.
- **Entries of a plugin that left.**  `uninstall` purges neither the frame lists
  (`callbacks.rs:108`) nor `SYMBOL_HOOKS` (`hooks.rs:31`).  The next agent's init writes the
  original of the missing plugin and installs its function; the next load of the module does the
  same.  If the plugin is loaded again at its old address, the old entry and the new are one
  function, which becomes its own original: a call never returns.  `SymbolChains` and `AgentChains`
  except symbols and agents with such an entry; `FaultsOnlyByStale` says nothing else goes astray.
- **A second static replacement is dropped.**  `replace_static_symbol` looks the address up in the
  image it lies in (`hooks.rs:102`).  After a first replacement that is the plugin, which has no
  such symbol.  `FirstPatch` says so on the side of the property.  Once that plugin has gone, the
  address may be in other code, or in none.
- **A debug build panics** whenever a plugin lies below the module it patches (`hooks.rs:65`), and
  on a symbol whose hash overflows 32 bits (`rtld.rs:19`).  The release build wraps, and
  `SymbolChains` shows that wrapping gives the right address and the linker's hash.
- **`TIMER`.**  Two input threads that both read 1 decrement it twice: it wraps to the largest value
  and reloads stop (`lib.rs:90`).  A thread that sees the keys during a reload is not held back by
  it and reloads at once (`lib.rs:98`).  Both need polls that overlap, which `Debounced` excepts.
- **Buffers.**  When `LoadModule` fails the NRR image is freed while RO still has it registered
  (`loader.rs:129`).  When it succeeds the three buffers are never freed: every reload leaks them.
  `BuffersAccounted` says that these two are all.
- **Landing in the wrong function.**  `byte_search` goes on past the function and its region
  (`unwind.rs:157`): a function without a marker lands in the next one that has one, or faults
  where memory ends, and rarely panics as `unwind.rs:160` says.  Excepted by `Marked`.
- **Reload during an exception.**  A plugin that is unregistered between the search and the cleanup
  of an exception ends the process; one registered again between `unregister_skyline_plugin` and
  `UnloadModule` leaves its region behind, which hides the size of the next plugin at that place
  (`unwind.rs:198`).  `disturbed` marks these unwindings; no other one dies.

## 6. Plan

In this order; at each step the properties first checked with TLC, then proved.

1. `AcmdScripts` with its proofs, `StatusScripts`, `Callbacks` with its proofs: done.
2. `LockOrder`; `Rtld`, `SymbolHooks` and `FrameChains`; `Unwind` and `Loader` with its proofs: done.
3. `StatusScriptsProofs`: `TypeOK`, `EntriesMapped`, `VtablesExact`, `ResolvedUnique`,
   `InstalledEverywhere`, `FirstHighKept` and the refinement of `ScriptSlots`;
   `StatusUninstallProofs`: `OnlyLowDangle`.  Done.
4. `LockOrderProofs`: that the operations take their mutexes in one order but for those of
   `OnlyKnownCircles`, for any number of threads.  Done.
5. `FrameChainsProofs`: `TypeOK` and `OriginalsNulled`; then, with induction over the lists of
   entries, `SymbolChains`, `AgentChains` and `FaultsOnlyByStale`.  Done.
6. `LoaderProofs`, the unwinding: `TypeOK`, `LandsInHandler`, `DiesOnlyIfDisturbed`, with the
   arithmetic of slots and cells.  Done.
7. `AcmdUninstallProofs`: `ReplacedNeverNative`, `OnlyDisplacedDangle`, `HighPriorityKept` and
   `BackupNotSelf`, with one thread.  Done.

The loader's uninstallation crosses all components in the order of `loader.rs:161-175`; each
component module contains its own part of that order, so no composition of the three is
planned beyond what `LockOrder` needs: they share no state but the load counts.

## 7. Not modelled, and why

Output, formatting and panics on missing system symbols.  `read_hashes_from_executable`,
`find_subsequence` and the byte patterns of `scripts.rs` and `unwind.rs`, which read machine code: a
module's hashes and libunwind's functions are given.  Of `unwind.rs` also `prevent_bad_info_check`
(it changes a cursor that nothing reads afterwards) and the log hooks.  `nx.rs` and `nro_hook.rs`,
wrappers over the system, but for what `query_memory` answers.  `LuaConstant`'s memoisation:
constants are compared by value.  `FIGHTER_STATUS_KIND_NONE` entries, skipped by the common table.
Bodies of callbacks, of replacements and of `smashline_install` and `smashline_uninstall`, but for
the calls of smashline they may make (`LockOrder`).  The pointers handed back through `original` in
`AcmdScripts` and `StatusScripts`: they are written where backups are, which are modelled.  The
panics of `replace_static_symbol` when the lookup fails (`hooks.rs:95-97`): static symbols are there.
In `LockOrder`, the lock that the unwinding hooks take of `CUSTOM_EH_MEM` alone (`unwind.rs:99`),
with nothing locked under it; and the three frame lists are one mutex, as no operation holds two.

External, modelled from how the code uses them: the game (agents, lists it runs, exceptions it
throws), libunwind's two phases, RO and its buffers, the linker's tables.

## 8. Running

    tlc -config AcmdSerial.cfg MCAcmdScripts.tla       # and the other .cfg files
    tlapm AcmdScriptsProofs.tla
    tlapm AcmdUninstallProofs.tla
    tlapm CallbacksProofs.tla
    tlapm FrameChainsProofs.tla
    tlapm LoaderProofs.tla
    tlapm LockOrderProofs.tla
    tlapm StatusScriptsProofs.tla
    tlapm StatusUninstallProofs.tla

`status_threaded` takes two to three minutes with two workers, `status_uninstall`, `reload_unwind`,
`hook_chains` and `lock_order` one to two, the others less.
