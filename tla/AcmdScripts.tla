---------------------------- MODULE AcmdScripts ----------------------------
(***************************************************************************)
(* ACMD script replacement: acmd.rs, the ACMD half of scripts.rs and the   *)
(* parts of loader.rs and unwind.rs they drive.                            *)
(*                                                                         *)
(* A plugin asks for a script of an agent to be replaced.  The request is  *)
(* installed in the agents already alive (under LOADED_ACMD_AGENTS), then  *)
(* recorded in a registry (under GAME_SCRIPTS and its three siblings) from *)
(* which every agent created later takes its functions.  Unloading the     *)
(* development plugin puts back the functions it displaced and purges its  *)
(* entries.  Fighter modules load and unload around all this.              *)
(*                                                                         *)
(* The steps of one operation are the stretches of code under one lock, so *)
(* operations of different threads interleave as the locks let them.  With *)
(* Threaded = FALSE they run to completion: the build in which the hot     *)
(* reload runs inside the game's own input poll (hid_hook).  With Threaded *)
(* = TRUE the reload has its own thread (the fallback of lib.rs main).     *)
(*                                                                         *)
(* A list of the registry is the set of its entries: ScriptsUnique makes   *)
(* the order of a list irrelevant to every loop over it.                   *)
(***************************************************************************)
EXTENDS Integers, FiniteSets

CONSTANTS
  Category,   \* acmd::Category
  Hash,       \* agent hashes: fighters and weapons
  Common,     \* Hash40::new("common"), the list every agent takes from
  Script,     \* script hashes
  Module,     \* fighter NROs
  Plugin,     \* skyline plugins, the development plugin among them
  Dev,        \* the development plugin, the only one ever unloaded
  Fn,         \* functions, of fighter modules and of plugins
  Factory,    \* create_agent exports: module, category, share, hashes, native
  Request,    \* the replace_acmd_script calls that plugins may make
  Null,
  MaxGen,     \* bound: times a module or the development plugin is loaded
  MaxAgents,  \* bound: agents created
  Threaded    \* whether the reload and the plugins have their own threads

Home    == Module \cup Plugin
AgentId == 1..MaxAgents
Pointer == [home : Home, gen : 0..MaxGen, fn : Fn]
Table   == [Script -> Pointer \cup {Null}]

FactoryType == [module : Module, category : Category, share : BOOLEAN,
                hashes : SUBSET Hash, native : [Script -> Fn \cup {Null}]]
RequestType == [plugin : Plugin, agent : Hash \cup {Common}, script : Script,
                category : Category, low : BOOLEAN, fn : Fn]
ScriptInfo  == [script : Script, low : BOOLEAN, fn : Pointer,
                backup : Pointer \cup {Null}]
Pending     == [agent : Hash \cup {Common}, category : Category,
                info : ScriptInfo]
Agent       == [factory : Factory, hash : Hash, gen : 0..MaxGen,
                alive : BOOLEAN, table : Table]

ASSUME BoundsAssumption ==
  MaxGen \in Nat \ {0} /\ MaxAgents \in Nat \ {0} /\ Threaded \in BOOLEAN

ASSUME NamesAssumption ==
  /\ Dev \in Plugin /\ Module \cap Plugin = {} /\ Common \notin Hash
  /\ Null \notin Pointer \cup AgentId \cup Pending \cup Agent \cup Fn

\* Requests and exports are records of those types, and of the exports for
\* one category and sharing only one serves a hash: the loop of create_agent
\* over the modules then has one match at most.
ASSUME DataAssumption ==
  /\ Request \subseteq RequestType /\ Factory \subseteq FactoryType
  /\ \A f, g \in Factory :
       f.category = g.category /\ f.share = g.share
         /\ f.hashes \cap g.hashes # {} => f = g

VARIABLES
  gen,          \* load count of each module and plugin: tells its instances apart
  mapped,       \* modules and plugins whose code is in memory
  agents,       \* the agents created, with their function tables
  created,      \* how many
  loadedAgents, \* LOADED_ACMD_AGENTS; creation order is the order of ids
  scripts,      \* GAME_SCRIPTS, EFFECT_SCRIPTS, SOUND_SCRIPTS, EXPRESSION_SCRIPTS
  creating,     \* the agent that create_agent has listed but not equipped
  pending,      \* the info each plugin has installed live but not recorded
  issued,       \* requests made (by the development plugin: since its load)
  phase,        \* of the development plugin's unloading
  todo,         \* agents remove_live_acmd_scripts has yet to visit
  customEhMem,  \* CUSTOM_EH_MEM
  ub            \* the memory of a destroyed agent has been accessed

vars == <<gen, mapped, agents, created, loadedAgents, scripts, creating,
          pending, issued, phase, todo, customEhMem, ub>>
pluginVars == <<pending, issued, customEhMem>>
loaderVars == <<phase, todo>>

Init ==
  /\ gen = [m \in Home |-> IF m \in Plugin \ {Dev} THEN 1 ELSE 0]
  /\ mapped = Plugin \ {Dev}
  /\ agents = [a \in AgentId |-> Null] /\ created = 0
  /\ loadedAgents = {} /\ creating = Null
  /\ scripts = [c \in Category |-> [h \in Hash \cup {Common} |-> {}]]
  /\ pending = [p \in Plugin |-> Null] /\ issued = {}
  /\ phase = "unloaded" /\ todo = {}
  /\ customEhMem = {} /\ ub = FALSE

\* loadedAgents is locked for as long as some agent remains to be visited.
LoadedAgentsFree == todo = {}
LoaderIdle       == todo = {} /\ phase \in {"unloaded", "running"}
Quiet            == creating = Null /\ LoaderIdle
                      /\ \A p \in Plugin : pending[p] = Null
MayBegin         == ~ub /\ (Threaded \/ Quiet)

IsMapped(ptr)  == ptr.home \in mapped /\ ptr.gen = gen[ptr.home]
Region(ptr)    == <<ptr.home, ptr.gen>>
InstanceOf(a)  == <<agents[a].factory.module, agents[a].gen>>
CategoryOf(a)  == agents[a].factory.category
ScriptsOf(a)   == scripts[CategoryOf(a)][agents[a].hash]

\* The function table once the entries of a list are installed over it.
Overlay(table, list) ==
  [s \in Script |-> IF \E e \in list : e.script = s
                    THEN (CHOOSE e \in list : e.script = s).fn
                    ELSE table[s]]

\* What the functions under the entries of a list are saved as.
SavedLate(list, table) ==   \* mutant: read after the replacement
  {[e EXCEPT !.backup = Overlay(table, list)[e.script]] : e \in list}
Saved(list, table) == {[e EXCEPT !.backup = table[e.script]] : e \in list}

\* The function table once the originals saved in a list are back in it.
RestoredIfAny(table, list) ==   \* mutant: a missing original is not put back
  [s \in Script |-> IF \E e \in list : e.script = s /\ e.backup # Null
                    THEN (CHOOSE e \in list : e.script = s).backup
                    ELSE table[s]]
Restored(table, list) ==
  [s \in Script |-> IF \E e \in list : e.script = s
                    THEN (CHOOSE e \in list : e.script = s).backup
                    ELSE table[s]]

-----------------------------------------------------------------------------
(* The game: fighter modules and their agents.                             *)

\* The module's create functions are registered by now: Factory has them, and
\* CreateAgent asks for the module.
NroLoad(m) ==
  /\ MayBegin /\ creating = Null
  /\ m \notin mapped /\ gen[m] < MaxGen
  /\ gen' = [gen EXCEPT ![m] = @ + 1]
  /\ mapped' = mapped \cup {m}
  /\ UNCHANGED <<agents, created, loadedAgents, scripts, creating, pluginVars,
                 loaderVars, ub>>

\* The functions the original factory gives an agent.
NativeOffsets(f) == f.native   \* mutant: not relocated to the loaded module
NativeTable(f) ==
  [s \in Script |->
     IF f.native[s] = Null THEN Null
     ELSE [home |-> f.module, gen |-> gen[f.module], fn |-> f.native[s]]]

\* The original factory makes the agent, which is listed at once.
CreateAgent(f, h) ==
  /\ MayBegin /\ creating = Null /\ LoadedAgentsFree
  /\ created < MaxAgents /\ f.module \in mapped
  /\ created' = created + 1
  /\ agents' = [agents EXCEPT ![created + 1] =
       [factory |-> f, hash |-> h, gen |-> gen[f.module], alive |-> TRUE,
        table |-> NativeTable(f)]]
  /\ loadedAgents' = loadedAgents \cup {created + 1}
  /\ creating' = created + 1
  /\ UNCHANGED <<gen, mapped, scripts, pluginVars, loaderVars, ub>>

\* With the registry locked, the common scripts go in (nothing is saved for
\* them), then the agent's own, each saving the function it displaces.
EquipAgent ==
  /\ ~ub /\ creating # Null
  /\ LET c      == CategoryOf(creating)
         h      == agents[creating].hash
         common == Overlay(agents[creating].table, scripts[c][Common])
     IN /\ agents' = [agents EXCEPT ![creating].table =
                        Overlay(common, scripts[c][h])]
        /\ scripts' = [scripts EXCEPT ![c][h] = Saved(@, common)]
  /\ creating' = Null
  /\ UNCHANGED <<gen, mapped, created, loadedAgents, pluginVars, loaderVars, ub>>

\* The game deletes an agent; nothing takes it off LOADED_ACMD_AGENTS.
DestroyAgent(a) ==
  /\ MayBegin /\ creating = Null
  /\ agents[a] # Null /\ agents[a].alive
  /\ agents' = [agents EXCEPT ![a].alive = FALSE]
  /\ UNCHANGED <<gen, mapped, created, loadedAgents, scripts, creating,
                 pluginVars, loaderVars, ub>>

\* The hashes that the exports of a module compare theirs with.
UnsharedHashesOf(m) ==   \* mutant: the shared exports are forgotten
  UNION {f.hashes : f \in {g \in Factory : g.module = m /\ ~g.share}}
HashesOf(m) == UNION {f.hashes : f \in {g \in Factory : g.module = m}}

\* clear_loaded_agent drops the agents of every hash the module serves.
ClearedInverted(m) == {a \in loadedAgents : agents[a].hash \in HashesOf(m)} \* mutant
Cleared(m) == {a \in loadedAgents : agents[a].hash \notin HashesOf(m)}

NroUnload(m) ==
  /\ MayBegin /\ creating = Null /\ LoadedAgentsFree
  /\ m \in mapped \cap Module
  /\ \A a \in AgentId : agents[a] # Null /\ InstanceOf(a) = <<m, gen[m]>>
                          => ~agents[a].alive
  /\ loadedAgents' = Cleared(m)
  /\ mapped' = mapped \ {m}
  /\ UNCHANGED <<gen, agents, created, scripts, creating, pluginVars,
                 loaderVars, ub>>

-----------------------------------------------------------------------------
(* The plugins: replace_acmd_script.                                       *)

UnsharedTargets(r) ==   \* mutant: the agents of shared exports are passed over
  {a \in loadedAgents : /\ agents[a].hash = r.agent /\ ~agents[a].factory.share
                        /\ CategoryOf(a) = r.category}
Targets(r) == {a \in loadedAgents : /\ agents[a].hash = r.agent
                                    /\ CategoryOf(a) = r.category}

\* The function an agent runs may be displaced if it is missing or the
\* module's own.
Displaceable(a, s) == LET ptr == agents[a].table[s]
                      IN ptr = Null \/ Region(ptr) = InstanceOf(a)

\* The loop saves into one info, so the last agent's function is what stays.
SavedBy(open, s) ==
  IF open = {} THEN Null
  ELSE agents[CHOOSE a \in open : \A b \in open : b <= a].table[s]

\* register_skyline_plugin, then install_live_acmd_scripts.
InstallLive(r) ==
  LET ptr  == [home |-> r.plugin, gen |-> gen[r.plugin], fn |-> r.fn]
      open == {a \in Targets(r) : Displaceable(a, r.script)}
      info == [script |-> r.script, low |-> r.low, fn |-> ptr,
               backup |-> SavedBy(open, r.script)]
  IN /\ MayBegin /\ LoadedAgentsFree
     /\ r.plugin \in mapped /\ pending[r.plugin] = Null /\ r \notin issued
     /\ r.plugin = Dev => phase = "running"
     /\ customEhMem' = customEhMem \cup {Region(ptr)}
     /\ issued' = issued \cup {r}
     /\ IF \E a \in Targets(r) : ~agents[a].alive
        THEN ub' = TRUE /\ UNCHANGED <<agents, pending>>
        ELSE /\ agents' = [a \in AgentId |->
                  IF a \in open THEN [agents[a] EXCEPT !.table[r.script] = ptr]
                  ELSE agents[a]]
             /\ pending' = [pending EXCEPT ![r.plugin] =
                  [agent |-> r.agent, category |-> r.category, info |-> info]]
             /\ UNCHANGED ub
     /\ UNCHANGED <<gen, mapped, created, loadedAgents, scripts, creating,
                    loaderVars>>

SameScript(list, info) == {e \in list : e.script = info.script}

\* A free script is taken, a low priority entry gives way, any other stays.
Appended(list, info)   == list \cup {info}   \* mutant: no search of the list
LastComesIn(list, info) ==                    \* mutant: no look at the priority
  (list \ SameScript(list, info)) \cup {info}
Recorded(list, info) ==
  LET same == SameScript(list, info)
  IN IF \A e \in same : e.low THEN (list \ same) \cup {info} ELSE list

RecordScript(p) ==
  /\ ~ub /\ pending[p] # Null
  /\ scripts' = [scripts EXCEPT ![pending[p].category][pending[p].agent] =
                   Recorded(@, pending[p].info)]
  /\ pending' = [pending EXCEPT ![p] = Null]
  /\ UNCHANGED <<gen, mapped, agents, created, loadedAgents, creating, issued,
                 loaderVars, customEhMem, ub>>

-----------------------------------------------------------------------------
(* The loader: load and unload of the development plugin.                  *)

LoadDev ==
  /\ MayBegin /\ phase = "unloaded" /\ gen[Dev] < MaxGen
  /\ gen' = [gen EXCEPT ![Dev] = @ + 1]
  /\ mapped' = mapped \cup {Dev}
  /\ phase' = "running"
  /\ UNCHANGED <<agents, created, loadedAgents, scripts, creating, pluginVars,
                 todo, ub>>

\* remove_live_acmd_scripts takes LOADED_ACMD_AGENTS.  The plugin's own
\* requests are over: it makes them in smashline_install, which the loader
\* runs under LOADED_DEVELOPMENT_PLUGIN.
BeginUninstall ==
  /\ MayBegin /\ phase = "running" /\ pending[Dev] = Null
  /\ phase' = "restoring" /\ todo' = loadedAgents
  /\ UNCHANGED <<gen, mapped, agents, created, loadedAgents, scripts, creating,
                 pluginVars, ub>>

\* The entries in the range of the development plugin.
AnyRange(list) == list   \* mutant: the range is not looked at
FromDev(list) == {e \in list : e.fn.home = Dev}

\* One agent's turn, with the registry of its category locked: only its own
\* scripts are looked at, and whatever the agent runs is overwritten.
RestoreAgent(a) ==
  LET list == FromDev(ScriptsOf(a))
  IN /\ ~ub /\ a \in todo /\ \A b \in todo : a <= b
     /\ todo' = todo \ {a}
     /\ IF agents[a].alive \/ list = {}
        THEN /\ agents' = [agents EXCEPT ![a].table = Restored(@, list)]
             /\ UNCHANGED ub
        ELSE ub' = TRUE /\ UNCHANGED agents
     /\ UNCHANGED <<gen, mapped, created, loadedAgents, scripts, creating,
                    pluginVars, phase>>

\* What remains of the list of one hash.
PurgedIfLoaded(c, h) ==   \* mutant: only the lists of loaded agents are cleaned
  IF \E a \in loadedAgents : agents[a].hash = h
  THEN scripts[c][h] \ FromDev(scripts[c][h]) ELSE scripts[c][h]
Purged(c, h) == scripts[c][h] \ FromDev(scripts[c][h])

\* remove_acmd_scripts, with the four registries locked.
PurgeScripts ==
  /\ ~ub /\ phase = "restoring" /\ todo = {}
  /\ scripts' = [c \in Category |-> [h \in Hash \cup {Common} |-> Purged(c, h)]]
  /\ phase' = "purged"
  /\ UNCHANGED <<gen, mapped, agents, created, loadedAgents, creating,
                 pluginVars, todo, ub>>

\* What unregister_skyline_plugin leaves.
StillRegistered == customEhMem   \* mutant: it is not called
Registered      == customEhMem \ {<<Dev, gen[Dev]>>}

\* unregister_skyline_plugin, then UnloadModule, which Loader has apart.
UnloadDev ==
  /\ ~ub /\ phase = "purged"
  /\ customEhMem' = Registered
  /\ mapped' = mapped \ {Dev}
  /\ issued' = {r \in issued : r.plugin # Dev}
  /\ phase' = "unloaded"
  /\ UNCHANGED <<gen, agents, created, loadedAgents, scripts, creating,
                 pending, todo, ub>>

-----------------------------------------------------------------------------
Game ==
  \/ \E m \in Module : NroLoad(m) \/ NroUnload(m)
  \/ \E f \in Factory : \E h \in f.hashes : CreateAgent(f, h)
  \/ EquipAgent
  \/ \E a \in AgentId : DestroyAgent(a)

Plugins ==
  \/ \E r \in Request : InstallLive(r)
  \/ \E p \in Plugin : RecordScript(p)

Loader ==
  \/ LoadDev \/ BeginUninstall
  \/ \E a \in AgentId : RestoreAgent(a)
  \/ PurgeScripts \/ UnloadDev

Next == Game \/ Plugins \/ Loader

Spec == Init /\ [][Next]_vars

-----------------------------------------------------------------------------
(* Properties.                                                             *)

TypeOK ==
  /\ gen \in [Home -> 0..MaxGen] /\ mapped \subseteq Home
  /\ agents \in [AgentId -> Agent \cup {Null}] /\ created \in 0..MaxAgents
  /\ \A a \in AgentId : agents[a] # Null <=> a <= created
  /\ loadedAgents \subseteq 1..created /\ creating \in (1..created) \cup {Null}
  /\ scripts \in [Category -> [Hash \cup {Common} -> SUBSET ScriptInfo]]
  /\ pending \in [Plugin -> Pending \cup {Null}] /\ issued \subseteq Request
  /\ phase \in {"unloaded", "running", "restoring", "purged"}
  /\ todo \subseteq 1..created
  /\ customEhMem \subseteq Plugin \X (0..MaxGen) /\ ub \in BOOLEAN

Entries == UNION {scripts[c][h] : c \in Category, h \in Hash \cup {Common}}

\* No list of the registry ever holds two entries for one script, whoever
\* records into it: the loop of replace_acmd_script runs under its lock.
ScriptsUnique ==
  \A c \in Category, h \in Hash \cup {Common} :
    \A d, e \in scripts[c][h] : d.script = e.script => d = e

\* Every agent in LOADED_ACMD_AGENTS belongs to the instance of its module
\* that is loaded now: clear_loaded_agent, which goes by hash, misses none.
ListedAgentsMapped ==
  \A a \in loadedAgents : /\ agents[a].factory.module \in mapped
                          /\ agents[a].gen = gen[agents[a].factory.module]

\* Every function in the registry, or on its way into it, is mapped code: no
\* agent created later can take a function of an unloaded plugin from it.
EntriesMapped ==
  /\ \A e \in Entries : IsMapped(e.fn)
  /\ \A p \in Plugin : pending[p] # Null => IsMapped(pending[p].info.fn)

\* The unwinder knows the region of every function of the registry, and knows
\* no region that has been unmapped.
EhMemExact ==
  /\ \A e \in Entries : Region(e.fn) \in customEhMem
  /\ \A r \in customEhMem : r[1] \in mapped /\ r[2] = gen[r[1]]

Live(a) == agents[a] # Null /\ agents[a].alive

\* Between operations, no listed agent runs its module's own function, or
\* none, for a script that the registry replaces: the installation into live
\* agents and the one into new agents leave no gap between them.
ReplacedNeverNative ==
  Quiet => \A a \in loadedAgents :
             Live(a) => \A e \in ScriptsOf(a) : ~Displaceable(a, e.script)

Displaced(ptr) ==
  \E r \in Request : r.fn = ptr.fn /\ (r.low \/ r.agent = Common)

Dangling(ptr) == ptr # Null /\ ~IsMapped(ptr)

\* Between operations, a listed agent is left with a function of unloaded code
\* only if that function was given as low priority or for "common": those
\* given for the agent with high priority are all taken back on uninstall.
OnlyDisplacedDangle ==
  Quiet => \A a \in loadedAgents, s \in Script :
    Live(a) /\ Dangling(agents[a].table[s]) => Displaced(agents[a].table[s])

\* No script is saved as its own original, the function to call from it and to
\* put back for it (ScriptInfo::backup, acmd.rs).
BackupNotSelf == \A e \in Entries : e.backup # e.fn

\* A live agent is missing from LOADED_ACMD_AGENTS only if a second module
\* serves its hash: unloading any other module forgets none but its own.
LiveAgentsListed ==
  \A a \in AgentId : Live(a) /\ a \notin loadedAgents =>
    \E m \in Module \ {agents[a].factory.module} : agents[a].hash \in HashesOf(m)

\* What a resident plugin gave an agent with high priority, the agent keeps
\* for life: hot reloads of the development plugin do not disturb it.
HighPriorityKept ==
  [][\A a \in AgentId, s \in Script :
       /\ Live(a) /\ Live(a)' /\ a # creating
       /\ agents[a].table[s] # Null /\ agents[a].table[s].home \in Plugin \ {Dev}
       /\ ~Displaced(agents[a].table[s])
       => agents'[a].table[s] = agents[a].table[s]]_vars

\* The registry, seen slot by slot, keeps the promises of ScriptSlots.
SlotKey    == Category \X (Hash \cup {Common}) \X Script
SlotHolder == [owner : Plugin, fn : Pointer, low : BOOLEAN]

HolderOf(e)     == [owner |-> e.fn.home, fn |-> e.fn, low |-> e.low]
HeldIn(list, s) == IF \E e \in list : e.script = s
                   THEN HolderOf(CHOOSE e \in list : e.script = s) ELSE Null
SlotMap         == [k \in SlotKey |-> HeldIn(scripts[k[1]][k[2]], k[3])]

Slots == INSTANCE ScriptSlots
           WITH Key <- SlotKey, Holder <- SlotHolder, Guest <- Dev, slot <- SlotMap

ImplementsSlots == Slots!Spec

-----------------------------------------------------------------------------
(* What the source says of itself, and the model refutes.                  *)

\* acmd.rs:20, of ScriptInfo::backup: "serves same purpose as `original`
\* except for guaranteeing something on uninstallation".  Between operations,
\* no live agent runs a function of unloaded code.
UninstallRestoresBackup ==
  Quiet => \A a \in AgentId, s \in Script :
    Live(a) => ~Dangling(agents[a].table[s])

=============================================================================
