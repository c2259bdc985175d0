---------------------------- MODULE StatusScripts ----------------------------
(***************************************************************************)
(* Status script replacement: status.rs and the status half of scripts.rs. *)
(*                                                                         *)
(* Status kinds are constants the game fills in when the "common" module   *)
(* loads, so requests made before pile up unresolved (CONSTANT_RESOLVER)   *)
(* and are sorted out at that load.  Fighter modules load after it.  An    *)
(* agent is made by the hooked create_agent, which gives it a vtable whose *)
(* set_status hook lets the game fill the agent's table and then installs  *)
(* the scripts for its hash and its customizer; scripts for all fighters   *)
(* come in through sub_set_fighter_common_table.                           *)
(*                                                                         *)
(* A request holds the lock of its registry from the installation into     *)
(* live agents until it is recorded, so it is one step here, unlike those  *)
(* of AcmdScripts.  Threaded is as in AcmdScripts.                         *)
(*                                                                         *)
(* A list of a registry is the set of its entries, numbered in its order.  *)
(***************************************************************************)
EXTENDS Integers, FiniteSets

CONSTANTS
  Module,       \* fighter NROs
  CommonNro,    \* the NRO named "common"
  Plugin, Dev,  \* plugins; the development plugin, the only one to leave
  Hash,         \* agent hashes
  FighterHash,  \* those of fighters: weapons take no common table
  Common,       \* Hash40::new("common"), key of COMMON_STATUS_SCRIPTS
  Slot,         \* pairs of a status kind and a condition
  Fn,           \* functions of all modules and plugins
  Export,       \* per module: hashes, acmdHashes, native table, native waza
  CommonNative, \* the table sub_set_fighter_common_table fills in
  Request,      \* replace_status_script and replace_common_status_script calls
  WazaRequest,  \* replace_move_customizer calls
  Null,
  MaxGen,       \* bound: times a module or the development plugin is loaded
  MaxAgents,    \* bound: agents created
  Threaded

Home    == Module \cup Plugin \cup {CommonNro}
Key     == Hash \cup {Common}
AgentId == 1..MaxAgents
Pointer == [home : Home, gen : 0..MaxGen, fn : Fn]
Target  == Pointer \cup {Null}

ExportType == [hashes : SUBSET Hash, acmdHashes : SUBSET Hash,
               native : [Slot -> Fn \cup {Null}], waza : Fn \cup {Null}]
RequestType == [plugin : Plugin, agent : Key, slot : Slot, low : BOOLEAN, fn : Fn]
WazaRequestType == [plugin : Plugin, agent : Hash, low : BOOLEAN, fn : Fn]
StatusInfo     == [slot : Slot, low : BOOLEAN, fn : Pointer, backup : Target,
                   at : Nat]
StatusWazaInfo == [low : BOOLEAN, fn : Pointer, backup : Target]
Agent == [module : Module, gen : 0..MaxGen, hash : Hash, alive : BOOLEAN,
          table : [Slot -> Target], waza : Target]

ASSUME BoundsAssumption ==
  MaxGen \in Nat \ {0} /\ MaxAgents \in Nat \ {0} /\ Threaded \in BOOLEAN

ASSUME NamesAssumption ==
  /\ Dev \in Plugin /\ FighterHash \subseteq Hash /\ Common \notin Hash
  /\ Module \cap Plugin = {} /\ CommonNro \notin Module \cup Plugin
  /\ Null \notin Pointer \cup Agent \cup StatusWazaInfo \cup Fn

\* Scripts for all fighters are never low priority; no two modules serve one
\* hash; a module serves with its scripts every hash it serves with its statuses.
ASSUME DataAssumption ==
  /\ Export \in [Module -> ExportType]
  /\ CommonNative \in [Slot -> Fn \cup {Null}]
  /\ Request \subseteq RequestType /\ WazaRequest \subseteq WazaRequestType
  /\ \A r \in Request : r.agent = Common => ~r.low
  /\ \A m \in Module : Export[m].hashes \subseteq Export[m].acmdHashes
  /\ \A m, n \in Module : m # n =>
       Export[m].acmdHashes \cap Export[n].acmdHashes = {}

VARIABLES
  gen,           \* load count of each module and plugin: tells its instances apart
  mapped,        \* modules and plugins whose code is in memory
  resolver,      \* CONSTANT_RESOLVER is set (never unset)
  commonInfo,    \* COMMON_MEMORY_INFO: the load of "common" it describes, 0 for None
  agents, created,
  setting,       \* what is left to do of the last agent's set_status_scripts
  loadedAgents,  \* LOADED_STATUS_AGENTS; creation order is the order of ids
  vtables,       \* STATUS_VTABLES: per module, the agents that own one
  scripts,       \* STATUS_SCRIPTS and, under Common, COMMON_STATUS_SCRIPTS
  customizers,   \* STATUS_CUSTOMIZERS
  issued,        \* requests made (by the development plugin: since its load)
  phase,         \* of the development plugin's unloading
  ub             \* the memory of a destroyed agent has been accessed

vars == <<gen, mapped, resolver, commonInfo, agents, created, setting,
          loadedAgents, vtables, scripts, customizers, issued, phase, ub>>
codeVars   == <<gen, mapped>>
commonVars == <<resolver, commonInfo>>
agentVars  == <<created, setting, loadedAgents, vtables>>

Init ==
  /\ gen = [m \in Home |-> IF m \in Plugin \ {Dev} THEN 1 ELSE 0]
  /\ mapped = Plugin \ {Dev}
  /\ resolver = FALSE /\ commonInfo = 0
  /\ agents = [a \in AgentId |-> Null] /\ created = 0 /\ setting = "nothing"
  /\ loadedAgents = {} /\ vtables = [m \in Module |-> {}]
  /\ scripts = [k \in Key |-> {}] /\ customizers = [h \in Hash |-> Null]
  /\ issued = {} /\ phase = "unloaded" /\ ub = FALSE

Quiet    == setting = "nothing" /\ phase \in {"unloaded", "running"}
MayBegin == ~ub /\ (Threaded \/ Quiet)
GameFree == MayBegin /\ setting = "nothing"

IsMapped(ptr)    == ptr.home \in mapped /\ ptr.gen = gen[ptr.home]
Region(ptr)      == <<ptr.home, ptr.gen>>
InstanceOf(a)    == <<agents[a].module, agents[a].gen>>
Live(a)          == agents[a] # Null /\ agents[a].alive
NotRelocated(m, fn) == fn   \* mutant: the offset for the address
Native(m, fn)    == IF fn = Null THEN Null
                    ELSE [home |-> m, gen |-> gen[m], fn |-> fn]
Replacement(r)   == [home |-> r.plugin, gen |-> gen[r.plugin], fn |-> r.fn]

\* The entry of a list for a slot, if any: when tables are filled there is at
\* most one (ResolvedUnique).
For(list, s)    == {e \in list : e.slot = s}
TheOne(list, s) == CHOOSE e \in For(list, s) : TRUE

Overlay(table, list) ==
  [s \in Slot |-> IF For(list, s) = {} THEN table[s] ELSE TheOne(list, s).fn]
Saved(list, table) ==
  {[e EXCEPT !.backup = table[e.slot]] : e \in list}
Restored(table, list) ==
  [s \in Slot |-> IF For(list, s) = {} THEN table[s] ELSE TheOne(list, s).backup]

-----------------------------------------------------------------------------
(* The "common" module.                                                    *)

\* Of each list the first high priority entry of every slot is kept.  The low
\* priority ones are only ever compared with an output that is still empty, so
\* none gets in.
NotNormalised(list) == list   \* mutant
Normalised(list) ==
  {e \in list : ~e.low /\ \A d \in For(list, e.slot) : d.low \/ e.at <= d.at}

\* status::nro_load with both registries locked, then COMMON_MEMORY_INFO: no
\* fighter can load before the hook returns, so nobody sees the state between.
LoadCommon ==
  /\ GameFree /\ CommonNro \notin mapped /\ gen[CommonNro] < MaxGen
  /\ gen' = [gen EXCEPT ![CommonNro] = @ + 1]
  /\ mapped' = mapped \cup {CommonNro}
  /\ resolver' = TRUE /\ commonInfo' = gen[CommonNro] + 1
  /\ scripts' = [k \in Key |-> Normalised(scripts[k])]
  /\ UNCHANGED <<agents, agentVars, customizers, issued, phase, ub>>

UnloadCommon ==
  /\ GameFree /\ CommonNro \in mapped /\ mapped \cap Module = {}
  /\ mapped' = mapped \ {CommonNro}
  /\ UNCHANGED <<gen, commonVars, agents, agentVars, scripts, customizers,
                 issued, phase, ub>>

-----------------------------------------------------------------------------
(* Fighter modules and their agents.                                       *)

\* The module's create function is registered by now: CreateAgent asks for the
\* module.
NroLoad(m) ==
  /\ GameFree /\ CommonNro \in mapped /\ m \notin mapped /\ gen[m] < MaxGen
  /\ gen' = [gen EXCEPT ![m] = @ + 1]
  /\ mapped' = mapped \cup {m}
  /\ UNCHANGED <<commonVars, agents, agentVars, scripts, customizers, issued,
                 phase, ub>>

\* clear_loaded_agent goes by the hashes of the module's ACMD exports;
\* release_status_vtables frees what is under the module's name.
ReleasedNone(m) == vtables   \* mutant: STATUS_VTABLES is left alone
Released(m)     == [vtables EXCEPT ![m] = {}]

NroUnload(m) ==
  /\ GameFree /\ m \in mapped \cap Module
  /\ \A a \in AgentId : Live(a) => InstanceOf(a) # <<m, gen[m]>>
  /\ loadedAgents' =
       {a \in loadedAgents : agents[a].hash \notin Export[m].acmdHashes}
  /\ vtables' = Released(m)
  /\ mapped' = mapped \ {m}
  /\ UNCHANGED <<gen, commonVars, agents, created, setting, scripts,
                 customizers, issued, phase, ub>>

CreateAgent(m, h) ==
  /\ GameFree /\ created < MaxAgents /\ m \in mapped /\ h \in Export[m].hashes
  /\ created' = created + 1
  /\ agents' = [agents EXCEPT ![created + 1] =
       [module |-> m, gen |-> gen[m], hash |-> h, alive |-> TRUE,
        table |-> [s \in Slot |-> Null], waza |-> Null]]
  /\ vtables' = [vtables EXCEPT ![m] = @ \cup {created + 1}]
  /\ loadedAgents' = loadedAgents \cup {created + 1}
  /\ setting' = "table"
  /\ UNCHANGED <<codeVars, commonVars, scripts, customizers, issued, phase, ub>>

\* The original set_status.  A fighter takes the common table, into which
\* sub_set_fighter_common_table_replace has put the common scripts, each saving
\* what it displaces; the module's own functions go over it.
SetTable ==
  /\ ~ub /\ setting = "table" /\ setting' = "statuses"
  /\ LET m      == agents[created].module
         given  == [s \in Slot |-> Native(CommonNro, CommonNative[s])]
         fighter == agents[created].hash \in FighterHash
         under  == IF fighter THEN Overlay(given, scripts[Common])
                   ELSE agents[created].table
     IN /\ agents' = [agents EXCEPT
             ![created].table = [s \in Slot |->
                IF Export[m].native[s] = Null THEN under[s]
                ELSE Native(m, Export[m].native[s])],
             ![created].waza = Native(m, Export[m].waza)]
        /\ scripts' = [scripts EXCEPT ![Common] =
                         IF fighter THEN Saved(@, given) ELSE @]
  /\ UNCHANGED <<codeVars, commonVars, created, loadedAgents, vtables,
                 customizers, issued, phase, ub>>

\* set_status_scripts, with STATUS_SCRIPTS locked.
InstallStatuses ==
  /\ ~ub /\ setting = "statuses" /\ setting' = "waza"
  /\ LET h == agents[created].hash
     IN /\ agents' = [agents EXCEPT ![created].table = Overlay(@, scripts[h])]
        /\ scripts' = [scripts EXCEPT ![h] = Saved(@, agents[created].table)]
  /\ UNCHANGED <<codeVars, commonVars, created, loadedAgents, vtables,
                 customizers, issued, phase, ub>>

\* set_status_scripts, with STATUS_CUSTOMIZERS locked.
InstallWaza ==
  /\ ~ub /\ setting = "waza" /\ setting' = "nothing"
  /\ LET h == agents[created].hash
     IN IF customizers[h] = Null
        THEN UNCHANGED <<agents, customizers>>
        ELSE /\ agents' = [agents EXCEPT ![created].waza = customizers[h].fn]
             /\ customizers' = [customizers EXCEPT ![h].backup =
                                  agents[created].waza]
  /\ UNCHANGED <<codeVars, commonVars, created, loadedAgents, vtables,
                 scripts, issued, phase, ub>>

\* Nothing takes the agent off LOADED_STATUS_AGENTS.
DestroyAgent(a) ==
  /\ GameFree /\ Live(a)
  /\ agents' = [agents EXCEPT ![a].alive = FALSE]
  /\ UNCHANGED <<codeVars, commonVars, agentVars, scripts, customizers, issued,
                 phase, ub>>

-----------------------------------------------------------------------------
(* The plugins' requests.                                                  *)

MayAsk(r) == /\ MayBegin /\ r.plugin \in mapped /\ r \notin issued
             /\ r.plugin = Dev => phase = "running"

OfAgent(ptr, a) == Region(ptr) = InstanceOf(a)
OfCommon(ptr)   == Region(ptr) = <<CommonNro, commonInfo>>

\* A live agent's function may be displaced if missing, of "common", or of the
\* agent's own module and the request is for that agent.
DisplaceableMissing(a, r) == agents[a].table[r.slot] = Null   \* mutant
Displaceable(a, r) ==
  LET ptr == agents[a].table[r.slot]
  IN ptr = Null \/ OfCommon(ptr) \/ (OfAgent(ptr, a) /\ r.agent # Common)

Targets(r) == {a \in loadedAgents : r.agent \in {agents[a].hash, Common}}

\* The loops save into one info, so the last agent's function is what stays.
LatestOf(S) == CHOOSE a \in S : \A b \in S : b <= a

Pushed(list, info) ==
  list \cup {[info EXCEPT !.at =
     1 + IF list = {} THEN 0 ELSE (CHOOSE e \in list : \A d \in list : d.at <= e.at).at]}
FirstOf(list) == CHOOSE e \in list : \A d \in list : e.at <= d.at

\* A free slot is taken, a low priority entry gives way, any other stays; but
\* until the slots can be told apart every request is taken.
LastComesIn(list, info) ==   \* mutant: no look at the priority
  Pushed(list \ For(list, info.slot), info)
Recorded(list, info) ==
  LET same == For(list, info.slot)
      old  == FirstOf(same)
  IN IF ~resolver \/ same = {} THEN Pushed(list, info)
     ELSE IF old.low THEN (list \ {old}) \cup {[info EXCEPT !.at = old.at]}
     ELSE list

\* replace_status_script and replace_common_status_script: live agents first,
\* once "common" has been loaded, then the list.
ReplaceStatus(r) ==
  LET targets == IF commonInfo = 0 THEN {} ELSE Targets(r)
      open    == {a \in targets : Displaceable(a, r)}
      info    == [slot |-> r.slot, low |-> r.low, fn |-> Replacement(r),
                  backup |-> IF open = {} THEN Null
                             ELSE agents[LatestOf(open)].table[r.slot],
                  at |-> 0]
  IN /\ MayAsk(r)
     /\ issued' = issued \cup {r}
     /\ IF \E a \in targets : ~agents[a].alive
        THEN ub' = TRUE /\ UNCHANGED <<agents, scripts>>
        ELSE /\ agents' = [a \in AgentId |->
                  IF a \in open
                  THEN [agents[a] EXCEPT !.table[r.slot] = Replacement(r)]
                  ELSE agents[a]]
             /\ scripts' = [scripts EXCEPT ![r.agent] = Recorded(@, info)]
             /\ UNCHANGED ub
     /\ UNCHANGED <<codeVars, commonVars, agentVars, customizers, phase>>

\* A free customizer is taken, a low priority one gives way, any other stays.
TakesWazaAlways(h) == h \in Hash   \* mutant: no look at the priority
TakesWaza(h)       == customizers[h] = Null \/ customizers[h].low

\* replace_move_customizer.
ReplaceWaza(r) ==
  LET targets == {a \in loadedAgents : agents[a].hash = r.agent}
      open    == {a \in targets : \/ agents[a].waza = Null
                                  \/ OfAgent(agents[a].waza, a)}
      info    == [low |-> r.low, fn |-> Replacement(r),
                  backup |-> IF open = {} THEN Null
                             ELSE agents[LatestOf(open)].waza]
  IN /\ MayAsk(r)
     /\ issued' = issued \cup {r}
     /\ IF \E a \in targets : ~agents[a].alive
        THEN ub' = TRUE /\ UNCHANGED <<agents, customizers>>
        ELSE /\ agents' = [a \in AgentId |->
                  IF a \in open THEN [agents[a] EXCEPT !.waza = Replacement(r)]
                  ELSE agents[a]]
             /\ customizers' = IF TakesWaza(r.agent)
                               THEN [customizers EXCEPT ![r.agent] = info]
                               ELSE customizers
             /\ UNCHANGED ub
     /\ UNCHANGED <<codeVars, commonVars, agentVars, scripts, phase>>

-----------------------------------------------------------------------------
(* Load and unload of the development plugin.                              *)

LoadDev ==
  /\ MayBegin /\ phase = "unloaded" /\ gen[Dev] < MaxGen
  /\ gen' = [gen EXCEPT ![Dev] = @ + 1]
  /\ mapped' = mapped \cup {Dev}
  /\ phase' = "running"
  /\ UNCHANGED <<commonVars, agents, agentVars, scripts, customizers, issued, ub>>

FromDev(list)    == {e \in list : e.fn.home = Dev}
NotFromDev(list) == {e \in list : e.fn.home # Dev}

\* What a listed agent is left with: the backups of its own scripts, then those
\* of the common ones, whatever the agent runs and whether it is a fighter.
UndoneOwn(a) == Restored(agents[a].table, FromDev(scripts[Common]))  \* mutant: own list forgotten
Undone(a) ==
  Restored(Restored(agents[a].table, FromDev(scripts[agents[a].hash])),
           FromDev(scripts[Common]))

\* remove_live_status_scripts, with the list of agents and both registries locked.
RemoveLiveStatuses ==
  /\ MayBegin /\ phase = "running"
  /\ phase' = "no statuses"
  /\ IF \E a \in loadedAgents :
          ~agents[a].alive /\ FromDev(scripts[agents[a].hash] \cup scripts[Common]) # {}
     THEN ub' = TRUE /\ UNCHANGED agents
     ELSE /\ agents' = [a \in AgentId |->
               IF a \in loadedAgents THEN [agents[a] EXCEPT !.table = Undone(a)]
               ELSE agents[a]]
          /\ UNCHANGED ub
  /\ UNCHANGED <<codeVars, commonVars, agentVars, scripts, customizers, issued>>

\* remove_live_status_waza: the range it is given is not looked at.
RemoveLiveWaza ==
  LET touched == {a \in loadedAgents : customizers[agents[a].hash] # Null}
  IN /\ ~ub /\ phase = "no statuses"
     /\ phase' = "no waza"
     /\ IF \E a \in touched : ~agents[a].alive
        THEN ub' = TRUE /\ UNCHANGED agents
        ELSE /\ agents' = [a \in AgentId |->
                  IF a \in touched
                  THEN [agents[a] EXCEPT !.waza = customizers[agents[a].hash].backup]
                  ELSE agents[a]]
             /\ UNCHANGED ub
     /\ UNCHANGED <<codeVars, commonVars, agentVars, scripts, customizers, issued>>

\* The rest of remove_status_scripts: both registries, but no customizer.
PurgedOwn    == [scripts EXCEPT ![Common] = NotFromDev(@)]   \* mutant
Purged       == [k \in Key |-> NotFromDev(scripts[k])]
PurgeStatuses ==
  /\ ~ub /\ phase = "no waza"
  /\ phase' = "purged"
  /\ scripts' = Purged
  /\ UNCHANGED <<codeVars, commonVars, agents, agentVars, customizers, issued, ub>>

UnloadDev ==
  /\ ~ub /\ phase = "purged"
  /\ phase' = "unloaded"
  /\ mapped' = mapped \ {Dev}
  /\ issued' = {r \in issued : r.plugin # Dev}
  /\ UNCHANGED <<gen, commonVars, agents, agentVars, scripts, customizers, ub>>

-----------------------------------------------------------------------------
Game ==
  \/ LoadCommon \/ UnloadCommon
  \/ \E m \in Module : NroLoad(m) \/ NroUnload(m)
  \/ \E m \in Module, h \in Hash : CreateAgent(m, h)
  \/ SetTable \/ InstallStatuses \/ InstallWaza
  \/ \E a \in AgentId : DestroyAgent(a)
Ask == \/ \E r \in Request : ReplaceStatus(r)
       \/ \E r \in WazaRequest : ReplaceWaza(r)
Loader == LoadDev \/ RemoveLiveStatuses \/ RemoveLiveWaza \/ PurgeStatuses \/ UnloadDev

Next == Game \/ Ask \/ Loader
Spec == Init /\ [][Next]_vars

-----------------------------------------------------------------------------
(* Properties.                                                             *)

\* Every variable keeps its type.
TypeOK ==
  /\ gen \in [Home -> 0..MaxGen] /\ mapped \subseteq Home
  /\ resolver \in BOOLEAN /\ commonInfo \in 0..MaxGen
  /\ agents \in [AgentId -> Agent \cup {Null}] /\ created \in 0..MaxAgents
  /\ setting \in {"nothing", "table", "statuses", "waza"}
  /\ loadedAgents \subseteq 1..created /\ vtables \in [Module -> SUBSET (1..created)]
  /\ scripts \in [Key -> SUBSET StatusInfo]
  /\ customizers \in [Hash -> StatusWazaInfo \cup {Null}]
  /\ issued \subseteq Request \cup WazaRequest
  /\ phase \in {"unloaded", "running", "no statuses", "no waza", "purged"}
  /\ ub \in BOOLEAN

\* Once "common" has been loaded, no list has two entries for one slot, though
\* requests made before pile up unchecked: the installation loops rely on it.
ResolvedUnique ==
  resolver => \A k \in Key : \A d, e \in scripts[k] : d.slot = e.slot => d = e

\* Every status function recorded is mapped code: what an agent created later
\* takes from the registries cannot belong to an unloaded plugin.
EntriesMapped == \A k \in Key : \A e \in scripts[k] : IsMapped(e.fn)

\* The vtable of every live agent is still allocated, and STATUS_VTABLES holds
\* none but those of agents of loaded modules: neither freed early nor leaked.
VtablesExact ==
  /\ \A a \in AgentId : Live(a) => a \in vtables[agents[a].module]
  /\ \A m \in Module : \A a \in vtables[m] : m \in mapped /\ InstanceOf(a) = <<m, gen[m]>>

\* The first high priority entry of a slot stays first, through requests before
\* and after the resolution, loads of "common" and reloads of other plugins:
\* "already replaced with high priority" (status.rs).
Highs(list, s)     == {e \in For(list, s) : ~e.low}
FirstHigh(list, s) == IF Highs(list, s) = {} THEN Null
                      ELSE FirstOf(Highs(list, s)).fn
FirstHighStep ==
  \A k \in Key, s \in Slot :
    LET first == FirstHigh(scripts[k], s)
    IN first # Null /\ FirstHigh(scripts'[k], s) # first
         => first.home = Dev /\ phase = "no waza"
FirstHighKept == [][FirstHighStep]_vars

\* The customizers keep the promises of ScriptSlots.
WazaHolder == [owner : Plugin, fn : Pointer, low : BOOLEAN]
WazaSlot(h) ==
  IF customizers[h] = Null THEN Null
  ELSE [owner |-> customizers[h].fn.home, fn |-> customizers[h].fn,
        low |-> customizers[h].low]
WazaSlots  == [h \in Hash |-> WazaSlot(h)]
Slots == INSTANCE ScriptSlots
           WITH Key <- Hash, Holder <- WazaHolder, Guest <- Dev, slot <- WazaSlots
ImplementsSlots == Slots!Spec

\* Between operations, no live agent of a hash runs its module's own function,
\* one of "common" or none, for a slot that the registry replaces for the hash.
InstalledEverywhere ==
  Quiet => \A a \in loadedAgents : Live(a) =>
    \A e \in scripts[agents[a].hash] :
      LET ptr == agents[a].table[e.slot]
      IN ptr # Null /\ ~OfCommon(ptr) /\ ~OfAgent(ptr, a)

\* An uninstall can miss a slot that the development plugin wants in all
\* fighters: in a weapon, which has no common table but is given the backups of
\* one; and where a resident plugin's high priority keeps a function of the
\* development plugin out of a list after live agents have been given it.
ForAllByDev(s) == \E r \in Request : r.plugin = Dev /\ r.agent = Common /\ r.slot = s
HeldByResident(h, s) ==
  \E r \in Request : r.plugin # Dev /\ ~r.low /\ r.agent \in {h, Common} /\ r.slot = s
Exposed(h, s) == ForAllByDev(s) /\ (h \notin FighterHash \/ HeldByResident(h, s))

\* Between operations, no live agent runs a status function of unloaded code
\* unless it was given with low priority: high priority ones are taken back,
\* the plugin's own for one agent and, but for Exposed slots, those for all.
OnlyLowDangle ==
  Quiet => \A a \in AgentId, s \in Slot :
    LET ptr == agents[a].table[s]
    IN Live(a) /\ ptr # Null /\ ~IsMapped(ptr)
         => \/ \E r \in Request : r.low /\ r.fn = ptr.fn
            \/ Exposed(agents[a].hash, s)

-----------------------------------------------------------------------------
(* What the source says of itself, and the model refutes.                  *)

\* status.rs:107-108: "On common load we need to resolve all of the statuses
\* added before the const table was filled in this way people can just do a
\* "one and done" approach".  No slot asked for is free again after that load.
CommonLoadKeepsSlots ==
  [][commonInfo' # commonInfo =>
       \A k \in Key, s \in Slot :
         For(scripts[k], s) # {} => For(scripts'[k], s) # {}]_vars

\* status.rs:224: the customizer "has already been replaced".  A request is
\* turned away only for a customizer whose plugin is still there.
RefusedForLiveWaza ==
  [][\A r \in WazaRequest :
       r \in issued' \ issued /\ ~ub' /\ customizers'[r.agent] # Null
         => IsMapped(customizers'[r.agent].fn)]_vars
=============================================================================
