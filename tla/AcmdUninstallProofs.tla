------------------------ MODULE AcmdUninstallProofs ------------------------
(***************************************************************************)
(* What agents run, and what an uninstall of the development plugin leaves *)
(* in them, with one thread: theorems about AcmdScripts for every number   *)
(* of agents, scripts, fighter modules and plugins.                        *)
(***************************************************************************)
EXTENDS AcmdScriptsProofs

-----------------------------------------------------------------------------
(* What is known between the steps.                                        *)

\* The request that an entry of a list stands for.
AskedFor(c, h, e) ==
  \E r \in Request : /\ r.category = c /\ r.agent = h /\ r.script = e.script
                     /\ r.low = e.low /\ r.plugin = e.fn.home /\ r.fn = e.fn.fn

\* What an entry saves: nothing, a fighter module's function, or, in the list of a
\* hash, the function that a request for "common" gives the same script.
SavesWell(c, h, e) ==
  \/ e.backup = Null
  \/ e.backup.home \in Module
  \/ /\ h # Common
     /\ \E r \in Request : /\ r.category = c /\ r.agent = Common
                           /\ r.script = e.script /\ r.plugin = e.backup.home
                           /\ r.fn = e.backup.fn
WellMade(c, h, e) == AskedFor(c, h, e) /\ SavesWell(c, h, e)

\* With one thread the game, the plugins and the loader take turns.
TurnsInv ==
  /\ creating # Null => LoaderIdle /\ \A p \in Plugin : pending[p] = Null
  /\ ~LoaderIdle => \A p \in Plugin : pending[p] = Null
  /\ \A p, q \in Plugin : pending[p] # Null /\ pending[q] # Null => p = q
  /\ todo # {} => phase = "restoring"
  /\ todo \subseteq loadedAgents
  /\ creating # Null =>
       /\ creating \in loadedAgents
       /\ \A s \in Script : Displaceable(creating, s)

\* Every entry, recorded or under way, is some request's.
MadeInv ==
  /\ \A c \in Category, h \in Hash \cup {Common} :
       \A e \in scripts[c][h] : WellMade(c, h, e)
  /\ \A p \in Plugin : pending[p] # Null =>
       WellMade(pending[p].category, pending[p].agent, pending[p].info)

\* An agent that has its functions.
Equipped(a) == a \in loadedAgents /\ Live(a) /\ a # creating
\* The request of p that is half way is for a's list.
PendingFor(a, p) == /\ pending[p] # Null /\ pending[p].agent = agents[a].hash
                    /\ pending[p].category = CategoryOf(a)
\* Whose functions of the development plugin have been taken back.
Undone(a) == phase = "restoring" /\ a \notin todo

\* No function of a's module is left where the registry has, or is about to have,
\* a replacement.
Replaced(a) ==
  /\ \A e \in ScriptsOf(a) :
       (Undone(a) /\ e.fn.home = Dev) \/ ~Displaceable(a, e.script)
  /\ \A p \in Plugin : PendingFor(a, p) =>
       ~Displaceable(a, pending[p].info.script)

\* A plugin's function that an uninstall must take back, or must leave, has its
\* entry in a's list, or one under way to a place that is free.
InList(list, s, ptr) == \E e \in list : e.script = s /\ e.fn = ptr
Backed(a, s) ==
  LET ptr == agents[a].table[s]
  IN ptr # Null /\ ptr.home \in Plugin /\ ~Displaced(ptr) =>
       /\ ptr.home = Dev => phase \in {"running", "restoring"} /\ ~Undone(a)
       /\ \/ InList(ScriptsOf(a), s, ptr)
          \/ /\ \A e \in ScriptsOf(a) : e.script # s
             /\ \E p \in Plugin : PendingFor(a, p) /\ pending[p].info.script = s
                                    /\ pending[p].info.fn = ptr

\* A module's function is in memory, of a module that serves the hash: the module's
\* unloading forgets the agents of that hash.
Sound(ptr, h) == ptr # Null /\ ptr.home \in Module =>
                   IsMapped(ptr) /\ h \in HashesOf(ptr.home)
SoundAgent(a) ==
  /\ \A s \in Script : Sound(agents[a].table[s], agents[a].hash)
  /\ \A e \in ScriptsOf(a) : Sound(e.backup, agents[a].hash)
  /\ \A p \in Plugin : PendingFor(a, p) =>
       Sound(pending[p].info.backup, agents[a].hash)

WellEquipped(a) == Replaced(a) /\ SoundAgent(a) /\ \A s \in Script : Backed(a, s)
EquippedInv == \A a \in AgentId : Equipped(a) => WellEquipped(a)

\* What makes the theorems below inductive, with one thread.
SerialInv == TurnsInv /\ MadeInv /\ EquippedInv

-----------------------------------------------------------------------------
(* Agents.                                                                 *)

\* What is known of an agent that is listed.
LEMMA ListedAgent ==
  ASSUME TypeOK, NEW a \in loadedAgents
  PROVE  /\ a \in AgentId /\ a <= created
         /\ agents[a] \in Agent /\ agents[a].factory \in Factory
         /\ agents[a].hash \in Hash /\ agents[a].hash # Common
         /\ agents[a].table \in Table
         /\ CategoryOf(a) \in Category /\ agents[a].factory.module \in Module
         /\ scripts[CategoryOf(a)][agents[a].hash] \in SUBSET ScriptInfo
         /\ scripts[CategoryOf(a)][Common] \in SUBSET ScriptInfo
<1>1. a \in AgentId /\ a <= created
  BY BoundsAssumption DEF TypeOK, AgentId
<1>2. agents[a] \in Agent /\ agents[a].factory \in Factory
  BY <1>1, AgentType DEF Agent
<1>3. /\ agents[a].hash \in Hash /\ agents[a].table \in Table
      /\ CategoryOf(a) \in Category /\ agents[a].factory.module \in Module
  BY <1>1, AgentType
<1>4. /\ scripts[CategoryOf(a)][agents[a].hash] \in SUBSET ScriptInfo
      /\ scripts[CategoryOf(a)][Common] \in SUBSET ScriptInfo
  BY <1>3 DEF TypeOK
<1> QED
  BY <1>1, <1>2, <1>3, <1>4, NamesAssumption

\* An agent stays of the export, the hash and the instance it was made with.
SameAgent(a) ==
  /\ agents'[a].factory = agents[a].factory /\ agents'[a].hash = agents[a].hash
  /\ agents'[a].gen = agents[a].gen
  /\ agents'[a].alive => agents[a].alive

\* No step makes another agent of one that is there.
LEMMA AgentsKept ==
  ASSUME TypeOK, [Next]_vars, NEW a \in AgentId, a <= created
  PROVE  SameAgent(a)
<1>0. /\ agents \in [AgentId -> Agent \cup {Null}] /\ agents[a] \in Agent
      /\ created \in 0..MaxAgents
  BY AgentType DEF TypeOK
<1>1. ASSUME NEW f \in Factory, NEW h \in f.hashes, CreateAgent(f, h)
      PROVE  SameAgent(a)
  <2> DEFINE new == [factory |-> f, hash |-> h, gen |-> gen[f.module],
                     alive |-> TRUE, table |-> NativeTable(f)]
  <2>1. agents' = [agents EXCEPT ![created + 1] = new]
    BY <1>1 DEF CreateAgent
  <2>2. a # created + 1
    BY <1>0, BoundsAssumption DEF AgentId
  <2> HIDE DEF new
  <2> QED BY <1>0, <2>1, <2>2 DEF SameAgent
<1>2. ASSUME NEW b, NEW t, agents' = [agents EXCEPT ![b].table = t]
      PROVE  SameAgent(a)
  BY <1>0, <1>2 DEF SameAgent, Agent
<1>3. ASSUME NEW b, agents' = [agents EXCEPT ![b].alive = FALSE]
      PROVE  SameAgent(a)
  BY <1>0, <1>3 DEF SameAgent, Agent
<1>4. ASSUME NEW r \in Request, InstallLive(r) PROVE SameAgent(a)
  <2> DEFINE ptr  == [home |-> r.plugin, gen |-> gen[r.plugin], fn |-> r.fn]
             open == {b \in Targets(r) : Displaceable(b, r.script)}
  <2>1. agents'[a] = agents[a] \/ agents'[a] = [agents[a] EXCEPT !.table[r.script] = ptr]
    BY <1>4 DEF InstallLive
  <2> HIDE DEF ptr, open
  <2> QED BY <1>0, <2>1 DEF SameAgent, Agent
<1>5. EquipAgent => \E t : agents' = [agents EXCEPT ![creating].table = t]
  BY DEF EquipAgent
<1>6. \A b \in AgentId :
        /\ DestroyAgent(b) => agents' = [agents EXCEPT ![b].alive = FALSE]
        /\ RestoreAgent(b) =>
             agents' = agents \/ \E t : agents' = [agents EXCEPT ![b].table = t]
  BY DEF DestroyAgent, RestoreAgent
<1>7. CASE agents' = agents
  BY <1>7 DEF SameAgent
<1> QED
  BY <1>1, <1>2, <1>3, <1>4, <1>5, <1>6, <1>7
  DEF Next, Game, Plugins, Loader, NroLoad, NroUnload, RecordScript, LoadDev,
      BeginUninstall, PurgeScripts, UnloadDev, vars

\* An agent that has its functions had them before, or has just been given them.
LEMMA EquippedBefore ==
  ASSUME TypeOK, [Next]_vars, NEW a \in AgentId, Equipped(a)'
  PROVE  /\ a \in loadedAgents /\ a <= created /\ SameAgent(a)
         /\ Equipped(a) \/ (EquipAgent /\ a = creating)
<1>0. created \in 0..MaxAgents
  BY DEF TypeOK
<1>1. a \in loadedAgents /\ (a # creating \/ EquipAgent)
  <2>1. ASSUME NEW f \in Factory, NEW h \in f.hashes, CreateAgent(f, h)
        PROVE  a \in loadedAgents /\ a # creating
    BY <1>0, <2>1, NamesAssumption DEF CreateAgent, Equipped
  <2>2. ASSUME NEW m \in Module, NroUnload(m)
        PROVE  a \in loadedAgents /\ a # creating
    BY <2>2 DEF NroUnload, Cleared, Equipped
  <2>3. CASE UNCHANGED <<loadedAgents, creating>>
    BY <2>3 DEF Equipped
  <2>4. CASE EquipAgent
    BY <2>4 DEF EquipAgent, Equipped
  <2> QED
    BY <2>1, <2>2, <2>3, <2>4
    DEF Next, Game, Plugins, Loader, NroLoad, DestroyAgent, InstallLive,
        RecordScript, LoadDev, BeginUninstall, RestoreAgent, PurgeScripts,
        UnloadDev, vars
<1>2. a <= created /\ agents[a] \in Agent /\ agents[a] # Null
  BY <1>1, ListedAgent DEF TypeOK
<1>3. SameAgent(a)
  BY <1>2, AgentsKept
<1>4. Live(a)
  BY <1>2, <1>3 DEF SameAgent, Equipped, Live
<1> QED
  BY <1>1, <1>2, <1>3, <1>4 DEF Equipped

-----------------------------------------------------------------------------
(* Turns.                                                                  *)

\* With one thread an operation begins when no other is under way.
LEMMA BeginsQuietly == ~Threaded /\ MayBegin => Quiet
BY DEF MayBegin

\* A new agent has nothing but its module's own functions.
LEMMA NewAgentNative ==
  ASSUME TypeOK, NEW f \in Factory, NEW h \in f.hashes, CreateAgent(f, h)
  PROVE  \A s \in Script : Displaceable(created, s)'
<1> DEFINE new == [factory |-> f, hash |-> h, gen |-> gen[f.module],
                   alive |-> TRUE, table |-> NativeTable(f)]
<1>1. /\ created + 1 \in AgentId /\ agents \in [AgentId -> Agent \cup {Null}]
      /\ agents' = [agents EXCEPT ![created + 1] = new]
      /\ created' = created + 1
  <2>1. created \in 0..MaxAgents
    BY DEF TypeOK
  <2> QED
    BY <2>1, BoundsAssumption DEF CreateAgent, AgentId, TypeOK
<1>2. agents'[created'] = new
  BY <1>1
<1>3. \A s \in Script : \/ new.table[s] = Null
                        \/ Region(new.table[s]) = <<new.factory.module, new.gen>>
  BY DEF NativeTable, Region
<1> HIDE DEF new
<1> QED
  BY <1>2, <1>3 DEF Displaceable, Region, InstanceOf

\* TurnsInv, step by step: what begins does so when nothing else is under way.
LEMMA NextTurns ==
  ~Threaded /\ TypeOK /\ TurnsInv /\ [Next]_vars => TurnsInv'
<1> SUFFICES ASSUME ~Threaded, TypeOK, TurnsInv, [Next]_vars PROVE TurnsInv'
  OBVIOUS
<1>0. \A a \in AgentId : a <= created => a # Null
  BY NamesAssumption
<1>1. ASSUME NEW m \in Module, NroLoad(m) PROVE TurnsInv'
  BY <1>1 DEF NroLoad, pluginVars, loaderVars, TurnsInv, LoaderIdle
<1>2. ASSUME NEW m \in Module, NroUnload(m) PROVE TurnsInv'
  <2>1. creating = Null /\ todo = {}
    BY <1>2 DEF NroUnload, LoadedAgentsFree
  <2> QED
    BY <1>2, <2>1 DEF NroUnload, pluginVars, loaderVars, TurnsInv, LoaderIdle
<1>3. ASSUME NEW f \in Factory, NEW h \in f.hashes, CreateAgent(f, h)
      PROVE  TurnsInv'
  <2>1. Quiet
    BY <1>3, BeginsQuietly DEF CreateAgent
  <2>2. /\ \A s \in Script : Displaceable(created, s)'
        /\ creating' = created' /\ created' \in loadedAgents'
        /\ loadedAgents \subseteq loadedAgents'
        /\ UNCHANGED <<pending, phase, todo>>
    BY <1>3, NewAgentNative DEF CreateAgent, pluginVars, loaderVars
  <2>3. \A s \in Script : Displaceable(creating, s)'
    BY <2>2 DEF Displaceable, Region, InstanceOf
  <2> QED
    BY <2>1, <2>2, <2>3 DEF TurnsInv, Quiet, LoaderIdle
<1>4. ASSUME EquipAgent PROVE TurnsInv'
  BY <1>4 DEF EquipAgent, pluginVars, loaderVars, TurnsInv, LoaderIdle
<1>5. ASSUME NEW a \in AgentId, DestroyAgent(a) PROVE TurnsInv'
  BY <1>5 DEF DestroyAgent, pluginVars, loaderVars, TurnsInv, LoaderIdle
<1>6. ASSUME NEW r \in Request, InstallLive(r) PROVE TurnsInv'
  <2>1. Quiet
    BY <1>6, BeginsQuietly DEF InstallLive
  <2>2. /\ \A p \in Plugin \ {r.plugin} : pending'[p] = Null
        /\ UNCHANGED <<creating, loadedAgents, phase, todo>>
    BY <1>6, <2>1 DEF InstallLive, loaderVars, Quiet, TypeOK
  <2> QED
    BY <2>1, <2>2 DEF TurnsInv, Quiet, LoaderIdle
<1>7. ASSUME NEW p \in Plugin, RecordScript(p) PROVE TurnsInv'
  <2>1. creating = Null /\ LoaderIdle /\ todo = {}
    BY <1>7 DEF RecordScript, TurnsInv, LoaderIdle
  <2>2. \A q \in Plugin : pending'[q] = Null \/ pending'[q] = pending[q]
    BY <1>7 DEF RecordScript, TypeOK
  <2> QED
    BY <1>7, <2>1, <2>2 DEF RecordScript, loaderVars, TurnsInv, LoaderIdle
<1>8. ASSUME LoadDev PROVE TurnsInv'
  <2>1. Quiet
    BY <1>8, BeginsQuietly DEF LoadDev
  <2> QED
    BY <1>8, <2>1 DEF LoadDev, pluginVars, TurnsInv, Quiet, LoaderIdle
<1>9. ASSUME BeginUninstall PROVE TurnsInv'
  <2>1. Quiet
    BY <1>9, BeginsQuietly DEF BeginUninstall
  <2> QED
    BY <1>9, <2>1 DEF BeginUninstall, pluginVars, TurnsInv, Quiet, LoaderIdle
<1>10. ASSUME NEW a \in AgentId, RestoreAgent(a) PROVE TurnsInv'
  <2>1. ~LoaderIdle /\ phase = "restoring"
    BY <1>10 DEF RestoreAgent, TurnsInv, LoaderIdle
  <2>2. creating = Null
    BY <2>1 DEF TurnsInv
  <2> QED
    BY <1>10, <2>1, <2>2 DEF RestoreAgent, pluginVars, TurnsInv, LoaderIdle
<1>11. ASSUME PurgeScripts PROVE TurnsInv'
  <2>1. ~LoaderIdle
    BY <1>11 DEF PurgeScripts, LoaderIdle
  <2>2. creating = Null
    BY <2>1 DEF TurnsInv
  <2> QED
    BY <1>11, <2>1, <2>2 DEF PurgeScripts, pluginVars, TurnsInv, LoaderIdle
<1>12. ASSUME UnloadDev PROVE TurnsInv'
  <2>1. ~LoaderIdle
    BY <1>12 DEF UnloadDev, LoaderIdle
  <2>2. creating = Null
    BY <2>1 DEF TurnsInv
  <2> QED
    BY <1>12, <2>1, <2>2 DEF UnloadDev, TurnsInv, LoaderIdle
<1>13. ASSUME UNCHANGED vars PROVE TurnsInv'
  BY <1>13 DEF vars, TurnsInv, LoaderIdle, Displaceable, Region, InstanceOf
<1> QED
  BY <1>1, <1>2, <1>3, <1>4, <1>5, <1>6, <1>7, <1>8, <1>9, <1>10, <1>11,
     <1>12, <1>13 DEF Next, Game, Plugins, Loader

-----------------------------------------------------------------------------
(* Entries.                                                                *)

\* What a table holds once a list is installed over it.
LEMMA OverlayValue ==
  ASSUME NEW table, NEW list, NEW s \in Script
  PROVE  \/ \E e \in list : e.script = s /\ Overlay(table, list)[s] = e.fn
         \/ (\A e \in list : e.script # s) /\ Overlay(table, list)[s] = table[s]
<1>1. CASE \E e \in list : e.script = s
  <2> DEFINE e == CHOOSE d \in list : d.script = s
  <2>1. e \in list /\ e.script = s
    BY <1>1
  <2>2. Overlay(table, list)[s] = e.fn
    BY <1>1 DEF Overlay
  <2> HIDE DEF e
  <2> QED BY <2>1, <2>2
<1>2. CASE \A e \in list : e.script # s
  BY <1>2 DEF Overlay
<1> QED
  BY <1>1, <1>2

\* What a table holds once the originals of a list are put back.
LEMMA RestoredValue ==
  ASSUME NEW table, NEW list, NEW s \in Script
  PROVE  \/ \E e \in list : e.script = s /\ Restored(table, list)[s] = e.backup
         \/ (\A e \in list : e.script # s) /\ Restored(table, list)[s] = table[s]
<1>1. CASE \E e \in list : e.script = s
  <2> DEFINE e == CHOOSE d \in list : d.script = s
  <2>1. e \in list /\ e.script = s
    BY <1>1
  <2>2. Restored(table, list)[s] = e.backup
    BY <1>1 DEF Restored
  <2> HIDE DEF e
  <2> QED BY <2>1, <2>2
<1>2. CASE \A e \in list : e.script # s
  BY <1>2 DEF Restored
<1> QED
  BY <1>1, <1>2

\* What install_live_acmd_scripts saves is what some agent ran.
LEMMA SavedByOne ==
  ASSUME TypeOK, NEW S \in SUBSET loadedAgents, NEW s
  PROVE  \/ SavedBy(S, s) = Null
         \/ \E a \in S : SavedBy(S, s) = agents[a].table[s]
<1>1. CASE S = {}
  BY <1>1 DEF SavedBy
<1>2. CASE S # {}
  <2>1. S \in SUBSET AgentId
    BY ListedAgent
  <2>2. (CHOOSE a \in S : \A b \in S : b <= a) \in S
    BY <1>2, <2>1, LastAgent
  <2> QED
    BY <1>2, <2>2 DEF SavedBy
<1> QED
  BY <1>1, <1>2

\* What may be displaced is missing or the agent's module's own.
LEMMA DisplaceableIsNative ==
  ASSUME NEW a, NEW s, Displaceable(a, s)
  PROVE  \/ agents[a].table[s] = Null
         \/ /\ agents[a].table[s].home = agents[a].factory.module
            /\ agents[a].table[s].gen = agents[a].gen
BY DEF Displaceable, Region, InstanceOf

\* The info that a request installs: its function, and what it saves.
InfoOf(r, info) ==
  /\ info \in ScriptInfo /\ info.script = r.script /\ info.low = r.low
  /\ info.fn = [home |-> r.plugin, gen |-> gen[r.plugin], fn |-> r.fn]
  /\ \/ info.backup = Null
     \/ \E a \in Targets(r) : Displaceable(a, r.script)
                                /\ info.backup = agents[a].table[r.script]

\* A request that finds a dead agent touches nothing more; any other leaves one
\* info to be recorded, and its function in every agent it may displace one of.
Gives(r, a) ==
  agents'[a] = IF a \in Targets(r) /\ Displaceable(a, r.script)
               THEN [agents[a] EXCEPT !.table[r.script] =
                       [home |-> r.plugin, gen |-> gen[r.plugin], fn |-> r.fn]]
               ELSE agents[a]

\* InstallLive, put so.
LEMMA Requested ==
  ASSUME TypeOK, NEW r \in Request, InstallLive(r)
  PROVE  \/ ub' /\ UNCHANGED <<agents, pending>>
         \/ /\ \A a \in Targets(r) : agents[a].alive
            /\ \A a \in AgentId : Gives(r, a)
            /\ \E info : /\ InfoOf(r, info)
                         /\ pending' = [pending EXCEPT ![r.plugin] =
                              [agent |-> r.agent, category |-> r.category,
                               info |-> info]]
<1> DEFINE ptr  == [home |-> r.plugin, gen |-> gen[r.plugin], fn |-> r.fn]
           open == {a \in Targets(r) : Displaceable(a, r.script)}
           info == [script |-> r.script, low |-> r.low, fn |-> ptr,
                    backup |-> SavedBy(open, r.script)]
<1>1. CASE \E a \in Targets(r) : ~agents[a].alive
  BY <1>1 DEF InstallLive
<1>2. CASE \A a \in Targets(r) : agents[a].alive
  <2>1. /\ agents' = [a \in AgentId |->
             IF a \in open THEN [agents[a] EXCEPT !.table[r.script] = ptr]
             ELSE agents[a]]
        /\ pending' = [pending EXCEPT ![r.plugin] =
             [agent |-> r.agent, category |-> r.category, info |-> info]]
    BY <1>2 DEF InstallLive
  <2>2. \A a \in AgentId : Gives(r, a)
    BY <2>1 DEF Gives
  <2>3. open \in SUBSET loadedAgents /\ open \in SUBSET (1..created)
    BY DEF Targets, TypeOK
  <2>4. \/ info.backup = Null
        \/ \E a \in Targets(r) : Displaceable(a, r.script)
                                   /\ info.backup = agents[a].table[r.script]
    <3>1. info.backup = SavedBy(open, r.script)
      OBVIOUS
    <3>2. \/ SavedBy(open, r.script) = Null
          \/ \E a \in open : SavedBy(open, r.script) = agents[a].table[r.script]
      <4> HIDE DEF open
      <4> QED BY <2>3, SavedByOne
    <3> QED
      BY <3>1, <3>2
  <2>5. info \in ScriptInfo
    <3>1. r \in RequestType
      BY DataAssumption
    <3>2. r.script \in Script /\ r.low \in BOOLEAN
      BY <3>1 DEF RequestType
    <3>3. ptr \in Pointer
      BY <3>1 DEF RequestType, Pointer, Home, TypeOK
    <3>4. SavedBy(open, r.script) \in Pointer \cup {Null}
      <4> HIDE DEF open
      <4> QED BY <2>3, <3>2, SavedByType
    <3> HIDE DEF ptr, open
    <3> QED BY <3>2, <3>3, <3>4 DEF ScriptInfo
  <2>6. InfoOf(r, info)
    BY <2>4, <2>5 DEF InfoOf
  <2> HIDE DEF info
  <2> QED
    BY <1>2, <2>1, <2>2, <2>6
<1> QED
  BY <1>1, <1>2

\* A list once it has recorded an info: it keeps what has high priority, and what
\* it did not have it takes.
LEMMA RecordedList ==
  ASSUME NEW list, NEW info
  PROVE  /\ \A d \in Recorded(list, info) : d \in list \/ d = info
         /\ \A e \in list : e \in Recorded(list, info) \/ e.low
         /\ (\A e \in list : e.script # info.script) =>
              info \in Recorded(list, info)
BY DEF Recorded, SameScript

\* The list of the request, and no other, records what the plugin has to record.
LEMMA RecordStep ==
  ASSUME TypeOK, NEW p \in Plugin, RecordScript(p)
  PROVE  /\ pending[p] \in Pending
         /\ \A c \in Category, h \in Hash \cup {Common} :
              scripts'[c][h] = IF c = pending[p].category /\ h = pending[p].agent
                               THEN Recorded(scripts[c][h], pending[p].info)
                               ELSE scripts[c][h]
         /\ \A q \in Plugin : pending'[q] = IF q = p THEN Null ELSE pending[q]
<1>1. pending[p] \in Pending
  BY DEF RecordScript, TypeOK
<1> DEFINE q == pending[p]
<1>2. q.category \in Category /\ q.agent \in Hash \cup {Common}
  BY <1>1 DEF Pending
<1>3. scripts' = [scripts EXCEPT ![q.category][q.agent] =
                    Recorded(scripts[q.category][q.agent], q.info)]
  BY DEF RecordScript
<1>4. \A c \in Category, h \in Hash \cup {Common} :
        scripts'[c][h] = IF c = q.category /\ h = q.agent
                         THEN Recorded(scripts[c][h], q.info) ELSE scripts[c][h]
  <2> HIDE DEF q
  <2> QED BY <1>2, <1>3 DEF TypeOK
<1> QED
  BY <1>1, <1>4 DEF RecordScript, TypeOK

\* What install_common and install give the agent that is made: the functions of
\* its own list, those of "common", or its module's; each of its entries saves
\* what was there before the entries went in.
LEMMA EquipStep ==
  ASSUME TypeOK, TurnsInv, EquipAgent, NEW c, NEW h,
         c = CategoryOf(creating), h = agents[creating].hash
  PROVE  /\ creating \in loadedAgents
         /\ \E common :
              /\ \A s \in Script :
                   \/ \E d \in scripts[c][Common] : d.script = s /\ common[s] = d.fn
                   \/ common[s] = Null
                   \/ /\ common[s].home = agents[creating].factory.module
                      /\ common[s].gen = agents[creating].gen
              /\ \A s \in Script :
                   \/ \E e \in scripts[c][h] :
                        e.script = s /\ agents'[creating].table[s] = e.fn
                   \/ /\ \A e \in scripts[c][h] : e.script # s
                      /\ agents'[creating].table[s] = common[s]
              /\ \A d \in scripts'[c][h] : \E e \in scripts[c][h] :
                   /\ d.script = e.script /\ d.fn = e.fn /\ d.low = e.low
                   /\ d.backup = common[e.script]
              /\ \A e \in scripts[c][h] : \E d \in scripts'[c][h] :
                   d.script = e.script /\ d.fn = e.fn
         /\ \A i \in Category, j \in Hash \cup {Common} :
              ~(i = c /\ j = h) => scripts'[i][j] = scripts[i][j]
         /\ \A a \in AgentId \ {creating} : agents'[a] = agents[a]
<1> DEFINE common == Overlay(agents[creating].table, scripts[c][Common])
           table  == Overlay(common, scripts[c][h])
<1>1. creating \in loadedAgents /\ \A s \in Script : Displaceable(creating, s)
  BY DEF EquipAgent, TurnsInv
<1>2. /\ creating \in AgentId /\ agents[creating] \in Agent
      /\ c \in Category /\ h \in Hash /\ agents[creating].table \in Table
      /\ scripts[c][Common] \in SUBSET ScriptInfo
      /\ scripts[c][h] \in SUBSET ScriptInfo
  BY <1>1, ListedAgent
<1>3. /\ agents' = [agents EXCEPT ![creating].table = table]
      /\ scripts' = [scripts EXCEPT ![c][h] = Saved(scripts[c][h], common)]
  BY DEF EquipAgent
<1>4. \A s \in Script :
        \/ \E d \in scripts[c][Common] : d.script = s /\ common[s] = d.fn
        \/ common[s] = Null
        \/ /\ common[s].home = agents[creating].factory.module
           /\ common[s].gen = agents[creating].gen
  BY <1>1, OverlayValue, DisplaceableIsNative
<1>5. common \in Table
  BY <1>2, OverlayType
<1> HIDE DEF common
<1>6. /\ agents'[creating].table = table
      /\ \A a \in AgentId \ {creating} : agents'[a] = agents[a]
  BY <1>2, <1>3 DEF TypeOK, Agent
<1>7. \A s \in Script :
        \/ \E e \in scripts[c][h] : e.script = s /\ table[s] = e.fn
        \/ (\A e \in scripts[c][h] : e.script # s) /\ table[s] = common[s]
  BY OverlayValue
<1>8. /\ scripts'[c][h] = Saved(scripts[c][h], common)
      /\ \A i \in Category, j \in Hash \cup {Common} :
           ~(i = c /\ j = h) => scripts'[i][j] = scripts[i][j]
  BY <1>2, <1>3 DEF TypeOK
<1>9. ASSUME NEW e \in scripts[c][h], NEW d, d = [e EXCEPT !.backup = common[e.script]]
      PROVE  /\ d.script = e.script /\ d.fn = e.fn /\ d.low = e.low
             /\ d.backup = common[e.script]
  BY <1>2, <1>9 DEF ScriptInfo
<1>10. /\ \A d \in Saved(scripts[c][h], common) : \E e \in scripts[c][h] :
            d = [e EXCEPT !.backup = common[e.script]]
       /\ \A e \in scripts[c][h] :
            [e EXCEPT !.backup = common[e.script]] \in Saved(scripts[c][h], common)
  BY <1>2, <1>5, SavedType
<1>11. ASSUME NEW d \in scripts'[c][h]
       PROVE  \E e \in scripts[c][h] :
                /\ d.script = e.script /\ d.fn = e.fn /\ d.low = e.low
                /\ d.backup = common[e.script]
  <2>1. PICK e \in scripts[c][h] : d = [e EXCEPT !.backup = common[e.script]]
    BY <1>8, <1>10
  <2> QED
    BY <1>9, <2>1
<1>12. ASSUME NEW e \in scripts[c][h]
       PROVE  \E d \in scripts'[c][h] : d.script = e.script /\ d.fn = e.fn
  <2>1. PICK d : d = [e EXCEPT !.backup = common[e.script]]
    OBVIOUS
  <2>2. d \in scripts'[c][h]
    BY <1>8, <1>10, <2>1
  <2> QED
    BY <1>9, <2>1, <2>2
<1> QED
  BY <1>1, <1>4, <1>6, <1>7, <1>8, <1>11, <1>12

\* Every entry stands for a request and saves what it may.
LEMMA NextMade ==
  TypeOK /\ TurnsInv /\ MadeInv /\ [Next]_vars => MadeInv'
<1> SUFFICES ASSUME TypeOK, TurnsInv, MadeInv, [Next]_vars PROVE MadeInv'
  OBVIOUS
<1>1. CASE UNCHANGED <<scripts, pending>>
  BY <1>1 DEF MadeInv
<1>2. ASSUME EquipAgent PROVE MadeInv'
  <2>1. PICK c, h : c = CategoryOf(creating) /\ h = agents[creating].hash
    OBVIOUS
  <2>2. /\ creating \in loadedAgents
        /\ \A i \in Category, j \in Hash \cup {Common} :
             ~(i = c /\ j = h) => scripts'[i][j] = scripts[i][j]
    BY <1>2, <2>1, EquipStep
  <2>3. /\ c \in Category /\ h \in Hash /\ h # Common
        /\ agents[creating].factory.module \in Module
    BY <2>1, <2>2, ListedAgent
  <2>4. ASSUME NEW d \in scripts'[c][h] PROVE WellMade(c, h, d)
    <3>1. PICK common :
            /\ \A s \in Script :
                 \/ \E b \in scripts[c][Common] : b.script = s /\ common[s] = b.fn
                 \/ common[s] = Null
                 \/ /\ common[s].home = agents[creating].factory.module
                    /\ common[s].gen = agents[creating].gen
            /\ \A b \in scripts'[c][h] : \E e \in scripts[c][h] :
                 /\ b.script = e.script /\ b.fn = e.fn /\ b.low = e.low
                 /\ b.backup = common[e.script]
      BY <1>2, <2>1, EquipStep
    <3>2. PICK e \in scripts[c][h] :
            /\ d.script = e.script /\ d.fn = e.fn /\ d.low = e.low
            /\ d.backup = common[e.script]
      BY <3>1
    <3>3. AskedFor(c, h, e) /\ e.script \in Script
      <4>1. scripts[c][h] \in SUBSET ScriptInfo
        BY <2>3 DEF TypeOK
      <4> QED
        BY <2>3, <4>1 DEF MadeInv, WellMade, ScriptInfo
    <3>4. AskedFor(c, h, d)
      BY <3>2, <3>3 DEF AskedFor
    <3>5. CASE \E b \in scripts[c][Common] : b.script = e.script /\ common[e.script] = b.fn
      <4>1. PICK b \in scripts[c][Common] : b.script = e.script /\ common[e.script] = b.fn
        BY <3>5
      <4>2. AskedFor(c, Common, b)
        BY <2>3 DEF MadeInv, WellMade
      <4>3. SavesWell(c, h, d)
        BY <2>3, <3>2, <4>1, <4>2 DEF AskedFor, SavesWell
      <4> QED
        BY <3>4, <4>3 DEF WellMade
    <3>6. CASE d.backup = Null \/ d.backup.home = agents[creating].factory.module
      BY <2>3, <3>4, <3>6 DEF WellMade, SavesWell
    <3> QED
      BY <3>1, <3>2, <3>3, <3>5, <3>6
  <2>5. UNCHANGED pending
    BY <1>2 DEF EquipAgent, pluginVars
  <2> QED
    BY <2>2, <2>4, <2>5 DEF MadeInv
<1>3. ASSUME NEW r \in Request, InstallLive(r) PROVE MadeInv'
  <2>1. UNCHANGED scripts
    BY <1>3 DEF InstallLive
  <2>2. CASE UNCHANGED pending
    BY <2>1, <2>2 DEF MadeInv
  <2>3. CASE \E info : /\ InfoOf(r, info)
                       /\ pending' = [pending EXCEPT ![r.plugin] =
                            [agent |-> r.agent, category |-> r.category, info |-> info]]
    <3>1. PICK info : /\ InfoOf(r, info)
                      /\ pending' = [pending EXCEPT ![r.plugin] =
                           [agent |-> r.agent, category |-> r.category, info |-> info]]
      BY <2>3
    <3>2. AskedFor(r.category, r.agent, info)
      BY <3>1 DEF InfoOf, AskedFor
    <3>3. SavesWell(r.category, r.agent, info)
      <4>1. ASSUME NEW a \in Targets(r), Displaceable(a, r.script)
            PROVE  \/ agents[a].table[r.script] = Null
                   \/ agents[a].table[r.script].home \in Module
        <5>1. agents[a].factory.module \in Module
          BY ListedAgent DEF Targets
        <5> QED
          BY <4>1, <5>1, DisplaceableIsNative
      <4> QED
        BY <3>1, <4>1 DEF InfoOf, SavesWell
    <3>4. \A p \in Plugin : pending'[p] = pending[p] \/
            pending'[p] = [agent |-> r.agent, category |-> r.category, info |-> info]
      BY <3>1 DEF TypeOK
    <3> QED
      BY <2>1, <3>2, <3>3, <3>4 DEF MadeInv, WellMade
  <2> QED
    BY <1>3, <2>2, <2>3, Requested
<1>4. ASSUME NEW p \in Plugin, RecordScript(p) PROVE MadeInv'
  <2>1. WellMade(pending[p].category, pending[p].agent, pending[p].info)
    BY <1>4 DEF RecordScript, MadeInv
  <2>2. ASSUME NEW c \in Category, NEW h \in Hash \cup {Common},
               NEW e \in scripts'[c][h]
        PROVE  WellMade(c, h, e)
    <3>1. \/ e \in scripts[c][h]
          \/ c = pending[p].category /\ h = pending[p].agent /\ e = pending[p].info
      BY <1>4, RecordStep, RecordedList
    <3> QED
      BY <2>1, <3>1 DEF MadeInv
  <2>3. \A q \in Plugin : pending'[q] = Null \/ pending'[q] = pending[q]
    BY <1>4, RecordStep
  <2> QED
    BY <2>2, <2>3 DEF MadeInv
<1>5. ASSUME PurgeScripts PROVE MadeInv'
  <2>1. \A c \in Category, h \in Hash \cup {Common} : scripts'[c][h] \subseteq scripts[c][h]
    BY <1>5 DEF PurgeScripts, Purged
  <2> QED
    BY <1>5, <2>1 DEF PurgeScripts, pluginVars, MadeInv
<1>6. \/ EquipAgent \/ PurgeScripts \/ UNCHANGED <<scripts, pending>>
      \/ \E p \in Plugin : RecordScript(p)
      \/ \E r \in Request : InstallLive(r)
  BY DEF Next, Game, Plugins, Loader, NroLoad, NroUnload, CreateAgent,
         DestroyAgent, LoadDev, BeginUninstall, RestoreAgent, UnloadDev,
         pluginVars, vars
<1> QED
  BY <1>1, <1>2, <1>3, <1>4, <1>5, <1>6

\* A function recorded with low priority or for "common" is one an uninstall need
\* not take back, and so is a function of a plugin that an entry saves.
LEMMA MadeDisplaced ==
  ASSUME NEW c, NEW h, NEW e, WellMade(c, h, e)
  PROVE  /\ e.low \/ h = Common => Displaced(e.fn)
         /\ e.backup # Null => e.backup.home \in Module \/ Displaced(e.backup)
<1>1. e.low \/ h = Common => Displaced(e.fn)
  BY DEF WellMade, AskedFor, Displaced
<1>2. e.backup # Null => e.backup.home \in Module \/ Displaced(e.backup)
  BY DEF WellMade, SavesWell, Displaced
<1> QED
  BY <1>1, <1>2

-----------------------------------------------------------------------------
(* What agents run.                                                        *)

\* A module's function that a listed agent runs, or that an entry saves for it,
\* stays in memory as long as the agent is listed: the module's unloading takes
\* every agent of its hashes off the list.
LEMMA SoundKept ==
  ASSUME TypeOK, [Next]_vars, NEW a \in loadedAgents, a \in loadedAgents',
         NEW ptr, NEW h, h = agents[a].hash, Sound(ptr, h)
  PROVE  Sound(ptr, h)'
<1>1. CASE UNCHANGED <<gen, mapped>>
  BY <1>1 DEF Sound, IsMapped
<1>2. ASSUME NEW m \in Module, NroLoad(m) PROVE Sound(ptr, h)'
  <2>1. /\ m \notin mapped /\ mapped' = mapped \cup {m}
        /\ \A x \in Home \ {m} : gen'[x] = gen[x]
    BY <1>2 DEF NroLoad, TypeOK
  <2>2. mapped \subseteq Home
    BY DEF TypeOK
  <2> QED
    BY <2>1, <2>2 DEF Sound, IsMapped
<1>3. ASSUME NEW m \in Module, NroUnload(m) PROVE Sound(ptr, h)'
  <2>1. mapped' = mapped \ {m} /\ UNCHANGED gen /\ h \notin HashesOf(m)
    BY <1>3 DEF NroUnload, Cleared
  <2> QED
    BY <2>1 DEF Sound, IsMapped
<1>4. CASE LoadDev \/ UnloadDev
  <2>1. \A m \in Module : gen'[m] = gen[m] /\ (m \in mapped => m \in mapped')
    BY <1>4, NamesAssumption DEF LoadDev, UnloadDev, TypeOK, Home
  <2> QED
    BY <2>1 DEF Sound, IsMapped
<1> QED
  BY <1>1, <1>2, <1>3, <1>4
  DEF Next, Game, Plugins, Loader, CreateAgent, EquipAgent, DestroyAgent,
      InstallLive, RecordScript, BeginUninstall, RestoreAgent, PurgeScripts, vars

\* The functions of an agent's own module are sound for it.
LEMMA NativeSound ==
  ASSUME TypeOK, AgentsInv, NEW a \in loadedAgents, NEW ptr,
         ptr = Null \/ (ptr.home = agents[a].factory.module /\ ptr.gen = agents[a].gen)
  PROVE  Sound(ptr, agents[a].hash)
<1>1. SameInstance(a) /\ agents[a].hash \in agents[a].factory.hashes
  <2>1. agents[a] # Null /\ a \in AgentId
    BY ListedAgent DEF TypeOK
  <2> QED
    BY <2>1 DEF AgentsInv, ListedAgentsMapped, SameInstance
<1>2. agents[a].hash \in HashesOf(agents[a].factory.module)
  BY <1>1, ListedAgent DEF HashesOf
<1> QED
  BY <1>1, <1>2 DEF Sound, IsMapped, SameInstance

\* A step that leaves alone what an agent runs, and of the entries of its list
\* all but what they save, keeps all that is known of the agent.
LEMMA EquippedKept ==
  ASSUME TypeOK, [Next]_vars, NEW a \in AgentId,
         a \in loadedAgents, a \in loadedAgents', WellEquipped(a), SameAgent(a),
         agents'[a].table = agents[a].table, UNCHANGED pending,
         Undone(a)' <=> Undone(a),
         phase \in {"running", "restoring"} => phase' \in {"running", "restoring"},
         NEW c, NEW h, c = CategoryOf(a), h = agents[a].hash,
         \A d \in scripts'[c][h] : \E e \in scripts[c][h] :
           /\ d.script = e.script /\ d.fn = e.fn
           /\ d.backup = e.backup \/ Sound(d.backup, h),
         \A e \in scripts[c][h] : \E d \in scripts'[c][h] :
           d.script = e.script /\ d.fn = e.fn
  PROVE  WellEquipped(a)'
<1>1. /\ agents'[a].hash = h /\ CategoryOf(a)' = c
      /\ ScriptsOf(a) = scripts[c][h] /\ ScriptsOf(a)' = scripts'[c][h]
      /\ \A p \in Plugin : PendingFor(a, p)' <=> PendingFor(a, p)
  BY DEF SameAgent, CategoryOf, ScriptsOf, PendingFor
<1>2. \A s : Displaceable(a, s)' <=> Displaceable(a, s)
  BY DEF Displaceable, Region, InstanceOf, SameAgent
<1>3. Replaced(a)'
  BY <1>1, <1>2 DEF WellEquipped, Replaced
<1>4. SoundAgent(a)'
  <2>1. \A ptr : Sound(ptr, h) => Sound(ptr, h)'
    BY SoundKept
  <2>2. \A s \in Script : Sound(agents[a].table[s], h)'
    BY <2>1 DEF WellEquipped, SoundAgent
  <2>3. \A d \in scripts'[c][h] : Sound(d.backup, h)'
    BY <1>1, <2>1 DEF WellEquipped, SoundAgent
  <2>4. \A p \in Plugin : PendingFor(a, p) => Sound(pending[p].info.backup, h)'
    BY <2>1 DEF WellEquipped, SoundAgent
  <2> QED
    BY <1>1, <2>2, <2>3, <2>4 DEF SoundAgent, Sound, IsMapped
<1>5. ASSUME NEW s \in Script PROVE Backed(a, s)'
  <2>1. Backed(a, s)
    BY DEF WellEquipped
  <2>2. \A ptr : InList(scripts[c][h], s, ptr) => InList(scripts'[c][h], s, ptr)
    BY DEF InList
  <2>3. (\A e \in scripts[c][h] : e.script # s) => (\A e \in scripts'[c][h] : e.script # s)
    OBVIOUS
  <2>4. Displaced(agents'[a].table[s]) <=> Displaced(agents[a].table[s])
    OBVIOUS
  <2> QED
    BY <1>1, <2>1, <2>2, <2>3, <2>4 DEF Backed, InList, Displaced
<1> QED
  BY <1>3, <1>4, <1>5 DEF WellEquipped

\* The functions of the registry belong to plugins, and so do those under way.
LEMMA EntryOfPlugin ==
  ASSUME RegistryInv, NEW c \in Category, NEW h \in Hash \cup {Common},
         NEW e \in scripts[c][h]
  PROVE  /\ e.fn.home \in Plugin /\ e.fn.home \notin Module
         /\ phase \in {"purged", "unloaded"} => e.fn.home # Dev
<1>1. e \in Entries
  BY DEF Entries
<1> QED
  BY <1>1, NamesAssumption DEF RegistryInv, Known

\* A plugin's function is not one that may be displaced.
LEMMA PluginStays ==
  ASSUME NEW a, agents[a].factory.module \in Module, NEW s,
         agents[a].table[s] # Null, agents[a].table[s].home \notin Module
  PROVE  ~Displaceable(a, s)
BY DisplaceableIsNative

\* install_common and install, for the agent that is made.
LEMMA EquipsMade ==
  ASSUME TypeOK, RegistryInv, AgentsInv, TurnsInv, MadeInv, [Next]_vars,
         EquipAgent, NEW a, a = creating
  PROVE  WellEquipped(a)'
<1>1. PICK c, h : c = CategoryOf(a) /\ h = agents[a].hash
  OBVIOUS
<1>2. /\ a \in loadedAgents /\ a \in AgentId /\ a <= created
      /\ c \in Category /\ h \in Hash
      /\ agents[a].factory.module \in Module
      /\ scripts[c][h] \in SUBSET ScriptInfo
  <2>1. a \in loadedAgents
    BY <1>1 DEF EquipAgent, TurnsInv
  <2> QED
    BY <1>1, <2>1, ListedAgent
<1>3. /\ SameAgent(a) /\ UNCHANGED <<gen, mapped, loadedAgents, pending, phase, todo>>
      /\ \A p \in Plugin : pending[p] = Null
      /\ phase \in {"unloaded", "running"} /\ todo = {}
  <2>1. SameAgent(a)
    BY <1>2, AgentsKept
  <2> QED
    BY <2>1 DEF EquipAgent, TurnsInv, LoaderIdle, pluginVars, loaderVars
<1>4. /\ agents'[a].hash = h /\ CategoryOf(a)' = c /\ ScriptsOf(a)' = scripts'[c][h]
      /\ \A p \in Plugin : ~PendingFor(a, p)'
  BY <1>1, <1>3 DEF SameAgent, CategoryOf, ScriptsOf, PendingFor
<1>5. PICK common :
        /\ \A s \in Script :
             \/ \E d \in scripts[c][Common] : d.script = s /\ common[s] = d.fn
             \/ common[s] = Null
             \/ /\ common[s].home = agents[a].factory.module
                /\ common[s].gen = agents[a].gen
        /\ \A s \in Script :
             \/ \E e \in scripts[c][h] :
                  e.script = s /\ agents'[a].table[s] = e.fn
             \/ /\ \A e \in scripts[c][h] : e.script # s
                /\ agents'[a].table[s] = common[s]
        /\ \A d \in scripts'[c][h] : \E e \in scripts[c][h] :
             /\ d.script = e.script /\ d.fn = e.fn /\ d.low = e.low
             /\ d.backup = common[e.script]
        /\ \A e \in scripts[c][h] : \E d \in scripts'[c][h] :
             d.script = e.script /\ d.fn = e.fn
  BY <1>1, EquipStep
<1>6. \A s \in Script : Sound(common[s], h)
  <2>1. \A d \in scripts[c][Common] : d.fn.home \notin Module
    BY <1>2, EntryOfPlugin
  <2>2. ASSUME NEW s \in Script,
               common[s] = Null \/ (common[s].home = agents[a].factory.module
                                      /\ common[s].gen = agents[a].gen)
        PROVE  Sound(common[s], h)
    BY <1>1, <1>2, <2>2, NativeSound
  <2> QED
    BY <1>5, <2>1, <2>2 DEF Sound
<1>7. \A s \in Script : Sound(agents'[a].table[s], h)
  <2>1. \A e \in scripts[c][h] : e.fn.home \notin Module
    BY <1>2, EntryOfPlugin
  <2> QED
    BY <1>5, <1>6, <2>1 DEF Sound
<1>8. Replaced(a)'
  <2>1. ASSUME NEW d \in scripts'[c][h] PROVE ~Displaceable(a, d.script)'
    <3>1. PICK e \in scripts[c][h] : d.script = e.script
      BY <1>5
    <3>2. e.script \in Script
      BY <1>2 DEF ScriptInfo
    <3>3. PICK b \in scripts[c][h] : agents'[a].table[d.script] = b.fn
      BY <1>5, <3>1, <3>2
    <3>4. b.fn \in Pointer /\ b.fn.home \notin Module
      BY <1>2, EntryOfPlugin DEF ScriptInfo
    <3>5. b.fn # Null
      BY <3>4, NamesAssumption
    <3> QED
      BY <1>2, <1>3, <3>3, <3>4, <3>5
      DEF Displaceable, Region, InstanceOf, SameAgent
  <2> QED
    BY <1>4, <2>1 DEF Replaced
<1>9. SoundAgent(a)'
  <2>1. \A d \in scripts'[c][h] : Sound(d.backup, h)
    <3>1. \A e \in scripts[c][h] : e.script \in Script
      BY <1>2 DEF ScriptInfo
    <3> QED
      BY <1>5, <1>6, <3>1
  <2> QED
    BY <1>3, <1>4, <1>7, <2>1 DEF SoundAgent, Sound, IsMapped
<1>10. ASSUME NEW s \in Script PROVE Backed(a, s)'
  <2>1. CASE \E e \in scripts[c][h] : e.script = s /\ agents'[a].table[s] = e.fn
    <3>1. InList(scripts'[c][h], s, agents'[a].table[s])
      BY <1>5, <2>1 DEF InList
    <3>2. agents'[a].table[s].home = Dev => phase = "running"
      BY <1>2, <1>3, <2>1, EntryOfPlugin
    <3> QED
      BY <1>3, <1>4, <3>1, <3>2 DEF Backed, Undone, InList, Displaced
  <2>2. CASE \E d \in scripts[c][Common] : agents'[a].table[s] = d.fn
    <3>1. PICK d \in scripts[c][Common] : agents'[a].table[s] = d.fn
      BY <2>2
    <3>2. WellMade(c, Common, d)
      BY <1>2 DEF MadeInv
    <3>3. Displaced(agents'[a].table[s])
      BY <3>1, <3>2, MadeDisplaced
    <3> QED
      BY <3>3 DEF Backed, Displaced
  <2>3. CASE \/ agents'[a].table[s] = Null
             \/ agents'[a].table[s].home = agents[a].factory.module
    <3>1. ~(agents'[a].table[s] # Null /\ agents'[a].table[s].home \in Plugin)
      BY <1>2, <2>3, NamesAssumption
    <3> QED
      BY <3>1 DEF Backed
  <2> QED
    BY <1>5, <2>1, <2>2, <2>3
<1> QED
  BY <1>8, <1>9, <1>10 DEF WellEquipped

\* And for the others: their list saves something else, no more.
LEMMA EquipsOther ==
  ASSUME TypeOK, RegistryInv, AgentsInv, TurnsInv, MadeInv, [Next]_vars,
         EquipAgent, NEW a \in AgentId, a # creating, a \in loadedAgents,
         WellEquipped(a)
  PROVE  WellEquipped(a)'
<1>1. PICK c, h : c = CategoryOf(a) /\ h = agents[a].hash
  OBVIOUS
<1>2. PICK i, j : i = CategoryOf(creating) /\ j = agents[creating].hash
  OBVIOUS
<1>3. /\ a <= created /\ c \in Category /\ h \in Hash
      /\ scripts[c][h] \in SUBSET ScriptInfo
  BY <1>1, ListedAgent
<1>4. PICK common :
        /\ \A s \in Script :
             \/ \E d \in scripts[i][Common] : d.script = s /\ common[s] = d.fn
             \/ common[s] = Null
             \/ /\ common[s].home = agents[creating].factory.module
                /\ common[s].gen = agents[creating].gen
        /\ \A d \in scripts'[i][j] : \E e \in scripts[i][j] :
             /\ d.script = e.script /\ d.fn = e.fn /\ d.low = e.low
             /\ d.backup = common[e.script]
        /\ \A e \in scripts[i][j] : \E d \in scripts'[i][j] :
             d.script = e.script /\ d.fn = e.fn
  BY <1>2, EquipStep
<1>5. /\ creating \in loadedAgents
      /\ \A k \in Category, l \in Hash \cup {Common} :
           ~(k = i /\ l = j) => scripts'[k][l] = scripts[k][l]
      /\ \A b \in AgentId \ {creating} : agents'[b] = agents[b]
  BY <1>2, EquipStep
<1>6. \A s \in Script : Sound(common[s], j)
  <2>1. \A d \in scripts[i][Common] : d.fn.home \notin Module
    BY <1>2, <1>5, ListedAgent, EntryOfPlugin
  <2>2. ASSUME NEW s \in Script,
               common[s] = Null \/ (common[s].home = agents[creating].factory.module
                                      /\ common[s].gen = agents[creating].gen)
        PROVE  Sound(common[s], j)
    BY <1>2, <1>5, <2>2, NativeSound
  <2> QED
    BY <1>4, <2>1, <2>2 DEF Sound
<1>7. /\ SameAgent(a) /\ agents'[a].table = agents[a].table
      /\ UNCHANGED <<pending, phase, todo>> /\ a \in loadedAgents'
      /\ Undone(a)' <=> Undone(a)
  BY <1>5, <1>3, AgentsKept DEF EquipAgent, pluginVars, loaderVars, Undone
<1>8. /\ \A d \in scripts'[c][h] : \E e \in scripts[c][h] :
           /\ d.script = e.script /\ d.fn = e.fn
           /\ d.backup = e.backup \/ Sound(d.backup, h)
      /\ \A e \in scripts[c][h] : \E d \in scripts'[c][h] :
           d.script = e.script /\ d.fn = e.fn
  <2>1. CASE c = i /\ h = j
    <3>1. \A e \in scripts[c][h] : e.script \in Script
      BY <1>3 DEF ScriptInfo
    <3> QED
      BY <1>4, <1>6, <2>1, <3>1
  <2>2. CASE ~(c = i /\ h = j)
    BY <1>3, <1>5, <2>2
  <2> QED
    BY <2>1, <2>2
<1> QED
  BY <1>1, <1>7, <1>8, EquippedKept

\* install_live_acmd_scripts: with one thread nothing else is under way.
LEMMA RequestEquips ==
  ASSUME ~Threaded, TypeOK, RegistryInv, AgentsInv, TurnsInv, [Next]_vars,
         NEW r \in Request, InstallLive(r),
         NEW a \in AgentId, a \in loadedAgents, WellEquipped(a)
  PROVE  WellEquipped(a)'
<1>1. PICK c, h : c = CategoryOf(a) /\ h = agents[a].hash
  OBVIOUS
<1>2. PICK ptr : ptr = [home |-> r.plugin, gen |-> gen[r.plugin], fn |-> r.fn]
  OBVIOUS
<1>3. /\ a <= created /\ c \in Category /\ h \in Hash
      /\ agents[a] \in Agent /\ agents[a].table \in Table
      /\ agents[a].factory.module \in Module
      /\ scripts[c][h] \in SUBSET ScriptInfo
  BY <1>1, ListedAgent
<1>4. /\ Quiet /\ \A p \in Plugin : pending[p] = Null
      /\ todo = {} /\ phase \in {"unloaded", "running"}
      /\ UNCHANGED <<gen, mapped, loadedAgents, scripts, phase, todo>>
      /\ r.plugin = Dev => phase = "running"
  <2>1. Quiet
    BY BeginsQuietly DEF InstallLive
  <2> QED
    BY <2>1 DEF InstallLive, loaderVars, Quiet, LoaderIdle
<1>5. /\ SameAgent(a) /\ agents'[a].hash = h /\ CategoryOf(a)' = c
      /\ ScriptsOf(a) = scripts[c][h] /\ ScriptsOf(a)' = scripts[c][h]
      /\ ~Undone(a) /\ ~Undone(a)'
  <2>1. SameAgent(a)
    BY <1>3, AgentsKept
  <2> QED
    BY <1>1, <1>4, <2>1 DEF SameAgent, CategoryOf, ScriptsOf, Undone
<1>6. ptr \in Pointer /\ ptr.home \in Plugin /\ ptr.home \notin Module /\ ptr # Null
      /\ r.script \in Script
  <2>1. r \in RequestType
    BY DataAssumption
  <2>2. ptr \in Pointer /\ ptr.home \in Plugin /\ r.script \in Script
    BY <1>2, <2>1 DEF RequestType, Pointer, Home, TypeOK
  <2> QED
    BY <2>2, NamesAssumption
<1>7. CASE ub' /\ UNCHANGED <<agents, pending>>
  <2>1. /\ \A d \in scripts'[c][h] : \E e \in scripts[c][h] :
             /\ d.script = e.script /\ d.fn = e.fn
             /\ d.backup = e.backup \/ Sound(d.backup, h)
        /\ \A e \in scripts[c][h] : \E d \in scripts'[c][h] :
             d.script = e.script /\ d.fn = e.fn
    BY <1>4
  <2> QED
    BY <1>1, <1>4, <1>5, <1>7, <2>1, EquippedKept
<1>8. ASSUME Gives(r, a), NEW info, InfoOf(r, info),
             pending' = [pending EXCEPT ![r.plugin] =
               [agent |-> r.agent, category |-> r.category, info |-> info]]
      PROVE  WellEquipped(a)'
  <2>1. \A p \in Plugin : pending'[p] # Null =>
          p = r.plugin /\ pending'[p] =
            [agent |-> r.agent, category |-> r.category, info |-> info]
    BY <1>4, <1>8 DEF TypeOK
  <2>2. \A p \in Plugin : PendingFor(a, p)' =>
          a \in Targets(r) /\ pending'[p].info = info
    BY <1>1, <1>5, <2>1 DEF PendingFor, Targets
  <2>3. info.script = r.script /\ info.fn = ptr
    BY <1>2, <1>8 DEF InfoOf
  <2>4. \A e \in scripts[c][h] : ~Displaceable(a, e.script)
    BY <1>5 DEF WellEquipped, Replaced
  <2>5. \A s \in Script : \/ agents'[a].table[s] = agents[a].table[s]
                          \/ /\ s = r.script /\ a \in Targets(r)
                             /\ Displaceable(a, s) /\ agents'[a].table[s] = ptr
    BY <1>2, <1>3, <1>8 DEF Gives, Agent, Table
  <2>6. a \in Targets(r) /\ Displaceable(a, r.script) =>
          agents'[a].table[r.script] = ptr
    BY <1>2, <1>3, <1>6, <1>8 DEF Gives, Agent, Table
  <2>7. \A s \in Script : ~Displaceable(a, s) => ~Displaceable(a, s)'
    <3>1. ~Displaceable(a, r.script) => agents'[a].table[r.script] = agents[a].table[r.script]
      BY <1>6, <2>5
    <3> QED
      BY <1>5, <2>5, <3>1 DEF Displaceable, Region, InstanceOf, SameAgent
  <2>8. a \in Targets(r) => ~Displaceable(a, r.script)'
    <3>1. CASE Displaceable(a, r.script)
      BY <1>3, <1>5, <1>6, <2>6, <3>1 DEF Displaceable, Region, InstanceOf, SameAgent
    <3> QED
      BY <1>6, <2>7, <3>1
  <2>9. Replaced(a)'
    <3>1. \A e \in scripts[c][h] : ~Displaceable(a, e.script)'
      BY <1>3, <2>4, <2>7 DEF ScriptInfo
    <3>2. ASSUME NEW p \in Plugin, PendingFor(a, p)'
          PROVE  ~Displaceable(a, pending[p].info.script)'
      <4>1. a \in Targets(r) /\ pending'[p].info.script = r.script
        BY <2>2, <2>3, <3>2
      <4> QED
        BY <2>8, <4>1 DEF Displaceable, Region, InstanceOf
    <3> QED
      BY <1>5, <3>1, <3>2 DEF Replaced
  <2>10. SoundAgent(a)'
    <3>1. \A s \in Script : Sound(agents'[a].table[s], h)
      BY <1>1, <1>6, <2>5 DEF WellEquipped, SoundAgent, Sound
    <3>2. \A e \in scripts[c][h] : Sound(e.backup, h)
      BY <1>1, <1>5 DEF WellEquipped, SoundAgent
    <3>3. ASSUME a \in Targets(r) PROVE Sound(info.backup, h)
      <4>1. ASSUME NEW b \in Targets(r), Displaceable(b, r.script)
            PROVE  Sound(agents[b].table[r.script], h)
        <5>1. b \in loadedAgents /\ agents[b].hash = h
          BY <1>1, <3>3 DEF Targets
        <5> QED
          BY <4>1, <5>1, NativeSound, DisplaceableIsNative
      <4>2. CASE info.backup = Null
        BY <4>2 DEF Sound
      <4> QED
        BY <1>8, <4>1, <4>2 DEF InfoOf
    <3> QED
      BY <1>4, <1>5, <2>2, <3>1, <3>2, <3>3 DEF SoundAgent, Sound, IsMapped
  <2>11. ASSUME NEW s \in Script PROVE Backed(a, s)'
    <3>1. CASE agents'[a].table[s] = agents[a].table[s]
      <4>1. Backed(a, s) /\ \A p \in Plugin : ~PendingFor(a, p)
        BY <1>4 DEF WellEquipped, PendingFor
      <4> QED
        BY <1>4, <1>5, <3>1, <4>1 DEF Backed, InList, Displaced
    <3>2. CASE /\ s = r.script /\ a \in Targets(r)
               /\ Displaceable(a, s) /\ agents'[a].table[s] = ptr
      <4>1. \A e \in scripts[c][h] : e.script # s
        BY <2>4, <3>2
      <4>2. PendingFor(a, r.plugin)' /\ pending'[r.plugin].info = info
        <5>1. r.plugin \in Plugin
          BY <1>2, <1>6
        <5>2. pending'[r.plugin] =
                [agent |-> r.agent, category |-> r.category, info |-> info]
          BY <1>8, <5>1 DEF TypeOK
        <5>3. pending'[r.plugin] # Null
          <6>1. pending'[r.plugin] \in Pending
            <7>1. r.agent \in Hash \cup {Common} /\ r.category \in Category
              BY DataAssumption DEF RequestType
            <7> QED
              BY <1>8, <5>2, <7>1 DEF InfoOf, Pending
          <6> QED
            BY <6>1, NamesAssumption
        <5> QED
          BY <1>1, <1>5, <3>2, <5>2, <5>3 DEF PendingFor, Targets
      <4>3. ptr.home = Dev => phase' = "running"
        BY <1>2, <1>4
      <4>4. r.plugin \in Plugin
        BY <1>2, <1>6
      <4> QED
        BY <1>5, <2>3, <3>2, <4>1, <4>2, <4>3, <4>4 DEF Backed
    <3> QED
      BY <2>5, <3>1, <3>2
  <2> QED
    BY <2>9, <2>10, <2>11 DEF WellEquipped
<1> QED
  BY <1>7, <1>8, Requested

\* The rest of replace_acmd_script.
LEMMA RecordEquips ==
  ASSUME TypeOK, TurnsInv, MadeInv, [Next]_vars, NEW p \in Plugin, RecordScript(p),
         NEW a \in AgentId, a \in loadedAgents, WellEquipped(a)
  PROVE  WellEquipped(a)'
<1>1. PICK c, h, info : /\ c = CategoryOf(a) /\ h = agents[a].hash
                        /\ info = pending[p].info
  OBVIOUS
<1>2. /\ a <= created /\ c \in Category /\ h \in Hash
      /\ scripts[c][h] \in SUBSET ScriptInfo
  BY <1>1, ListedAgent
<1>3. /\ pending[p] # Null /\ pending[p] \in Pending
      /\ scripts'[c][h] = IF PendingFor(a, p) THEN Recorded(scripts[c][h], info)
                          ELSE scripts[c][h]
      /\ \A q \in Plugin : pending'[q] = Null
      /\ UNCHANGED <<gen, mapped, agents, loadedAgents, phase, todo>>
  <2>1. /\ pending[p] \in Pending
        /\ scripts'[c][h] = IF c = pending[p].category /\ h = pending[p].agent
                            THEN Recorded(scripts[c][h], pending[p].info)
                            ELSE scripts[c][h]
        /\ \A q \in Plugin : pending'[q] = IF q = p THEN Null ELSE pending[q]
    BY <1>2, RecordStep
  <2>2. /\ pending[p] # Null /\ \A q \in Plugin : q # p => pending[q] = Null
        /\ UNCHANGED <<gen, mapped, agents, loadedAgents, phase, todo>>
    BY DEF RecordScript, loaderVars, TurnsInv
  <2>3. PendingFor(a, p) <=> c = pending[p].category /\ h = pending[p].agent
    BY <1>1, <2>2 DEF PendingFor
  <2> QED
    BY <1>1, <2>1, <2>2, <2>3
<1>4. /\ SameAgent(a) /\ agents'[a].hash = h /\ CategoryOf(a)' = c
      /\ ScriptsOf(a) = scripts[c][h] /\ ScriptsOf(a)' = scripts'[c][h]
      /\ Undone(a)' <=> Undone(a)
      /\ \A q \in Plugin : ~PendingFor(a, q)'
      /\ \A q \in Plugin : PendingFor(a, q) => q = p
      /\ \A s : Displaceable(a, s)' <=> Displaceable(a, s)
  BY <1>1, <1>3
  DEF SameAgent, CategoryOf, ScriptsOf, Undone, PendingFor, TurnsInv, Displaceable,
      Region, InstanceOf
<1>5. /\ \A d \in scripts'[c][h] :
           d \in scripts[c][h] \/ (PendingFor(a, p) /\ d = info)
      /\ \A e \in scripts[c][h] : e \in scripts'[c][h] \/ e.low
      /\ PendingFor(a, p) /\ (\A e \in scripts[c][h] : e.script # info.script)
           => info \in scripts'[c][h]
  <2>1. /\ \A d \in Recorded(scripts[c][h], info) : d \in scripts[c][h] \/ d = info
        /\ \A e \in scripts[c][h] : e \in Recorded(scripts[c][h], info) \/ e.low
        /\ (\A e \in scripts[c][h] : e.script # info.script) =>
              info \in Recorded(scripts[c][h], info)
    BY RecordedList
  <2> QED
    BY <1>3, <2>1
<1>6. Replaced(a)'
  BY <1>1, <1>4, <1>5 DEF WellEquipped, Replaced
<1>7. SoundAgent(a)'
  <2>1. \A d \in scripts'[c][h] : Sound(d.backup, h)
    BY <1>1, <1>4, <1>5 DEF WellEquipped, SoundAgent
  <2> QED
    BY <1>1, <1>3, <1>4, <2>1 DEF WellEquipped, SoundAgent, Sound, IsMapped
<1>8. ASSUME NEW s \in Script PROVE Backed(a, s)'
  <2>1. PICK ptr : ptr = agents[a].table[s]
    OBVIOUS
  <2>2. SUFFICES ASSUME ptr # Null, ptr.home \in Plugin, ~Displaced(ptr)
                 PROVE  /\ ptr.home = Dev => phase \in {"running", "restoring"}
                                               /\ ~Undone(a)
                        /\ InList(scripts'[c][h], s, ptr)
    BY <1>3, <1>4, <2>1 DEF Backed, InList, Displaced
  <2>3. /\ ptr.home = Dev => phase \in {"running", "restoring"} /\ ~Undone(a)
        /\ \/ InList(scripts[c][h], s, ptr)
           \/ /\ \A e \in scripts[c][h] : e.script # s
              /\ PendingFor(a, p) /\ info.script = s /\ info.fn = ptr
    BY <1>1, <1>4, <2>1, <2>2 DEF WellEquipped, Backed
  <2>4. CASE InList(scripts[c][h], s, ptr)
    <3>1. PICK e \in scripts[c][h] : e.script = s /\ e.fn = ptr
      BY <2>4 DEF InList
    <3>2. WellMade(c, h, e)
      BY <1>2 DEF MadeInv
    <3>3. ~e.low
      BY <2>2, <3>1, <3>2, MadeDisplaced
    <3> QED
      BY <1>5, <2>3, <3>1, <3>3 DEF InList
  <2>5. CASE /\ \A e \in scripts[c][h] : e.script # s
             /\ PendingFor(a, p) /\ info.script = s /\ info.fn = ptr
    BY <1>5, <2>3, <2>5 DEF InList
  <2> QED
    BY <2>3, <2>4, <2>5
<1> QED
  BY <1>6, <1>7, <1>8 DEF WellEquipped

\* remove_live_acmd_scripts, for the agent whose turn it is: the functions of the
\* development plugin that its own list backs give way to what was saved.
LEMMA RestoreEquips ==
  ASSUME TypeOK, RegistryInv, TurnsInv, MadeInv, [Next]_vars,
         NEW a \in AgentId, RestoreAgent(a), a \in loadedAgents, agents[a].alive,
         WellEquipped(a)
  PROVE  WellEquipped(a)'
<1>1. PICK c, h : c = CategoryOf(a) /\ h = agents[a].hash
  OBVIOUS
<1>2. /\ a <= created /\ c \in Category /\ h \in Hash
      /\ agents[a] \in Agent /\ agents[a].factory.module \in Module
      /\ scripts[c][h] \in SUBSET ScriptInfo
  BY <1>1, ListedAgent
<1>3. PICK dev : dev = FromDev(scripts[c][h])
  OBVIOUS
<1>4. /\ UNCHANGED <<gen, mapped, loadedAgents, scripts, pending, phase>>
      /\ a \in todo /\ todo' = todo \ {a} /\ phase = "restoring"
      /\ \A p \in Plugin : pending[p] = Null
  BY DEF RestoreAgent, TurnsInv, LoaderIdle, pluginVars
<1>5. agents'[a].table = Restored(agents[a].table, dev)
  BY <1>1, <1>2, <1>3 DEF RestoreAgent, ScriptsOf, TypeOK, Agent
<1>6. SameAgent(a)
  BY <1>2, AgentsKept
<1>7. /\ agents'[a].hash = h /\ CategoryOf(a)' = c
      /\ ScriptsOf(a) = scripts[c][h] /\ ScriptsOf(a)' = scripts[c][h]
      /\ ~Undone(a) /\ Undone(a)'
      /\ \A p \in Plugin : ~PendingFor(a, p) /\ ~PendingFor(a, p)'
  BY <1>1, <1>4, <1>6 DEF SameAgent, CategoryOf, ScriptsOf, Undone, PendingFor
<1>8. \A s \in Script :
        \/ \E e \in scripts[c][h] : /\ e.script = s /\ e.fn.home = Dev
                                    /\ agents'[a].table[s] = e.backup
        \/ /\ \A e \in scripts[c][h] : e.script = s => e.fn.home # Dev
           /\ agents'[a].table[s] = agents[a].table[s]
  <2>1. \A s \in Script :
          \/ \E e \in dev : e.script = s /\ Restored(agents[a].table, dev)[s] = e.backup
          \/ /\ \A e \in dev : e.script # s
             /\ Restored(agents[a].table, dev)[s] = agents[a].table[s]
    BY RestoredValue
  <2> QED
    BY <1>3, <1>5, <2>1 DEF FromDev
<1>9. Replaced(a)'
  <2>1. ASSUME NEW e \in scripts[c][h], e.fn.home # Dev
        PROVE  ~Displaceable(a, e.script)'
    <3>1. e.script \in Script
      BY <1>2 DEF ScriptInfo
    <3>2. \A d \in scripts[c][h] : d.script = e.script => d = e
      BY <1>2 DEF RegistryInv, ScriptsUnique
    <3>3. agents'[a].table[e.script] = agents[a].table[e.script]
      BY <1>8, <2>1, <3>1, <3>2
    <3>4. ~Displaceable(a, e.script)
      BY <1>7, <2>1 DEF WellEquipped, Replaced
    <3> QED
      BY <1>6, <3>3, <3>4 DEF Displaceable, Region, InstanceOf, SameAgent
  <2> QED
    BY <1>7, <2>1 DEF Replaced
<1>10. SoundAgent(a)'
  <2>1. /\ \A s \in Script : Sound(agents[a].table[s], h)
        /\ \A e \in scripts[c][h] : Sound(e.backup, h)
    BY <1>1, <1>7 DEF WellEquipped, SoundAgent
  <2>2. \A s \in Script : Sound(agents'[a].table[s], h)
    BY <1>8, <2>1
  <2> QED
    BY <1>4, <1>7, <2>1, <2>2 DEF SoundAgent, Sound, IsMapped
<1>11. ASSUME NEW s \in Script PROVE Backed(a, s)'
  <2>1. CASE \E e \in scripts[c][h] : /\ e.script = s /\ e.fn.home = Dev
                                      /\ agents'[a].table[s] = e.backup
    <3>1. PICK e \in scripts[c][h] : agents'[a].table[s] = e.backup
      BY <2>1
    <3>2. WellMade(c, h, e)
      BY <1>2 DEF MadeInv
    <3>3. \/ agents'[a].table[s] = Null
          \/ agents'[a].table[s].home \in Module
          \/ Displaced(agents'[a].table[s])
      BY <3>1, <3>2, MadeDisplaced
    <3> QED
      BY <3>3, NamesAssumption DEF Backed, Displaced
  <2>2. CASE /\ \A e \in scripts[c][h] : e.script = s => e.fn.home # Dev
             /\ agents'[a].table[s] = agents[a].table[s]
    <3>1. PICK ptr : ptr = agents[a].table[s]
      OBVIOUS
    <3>2. SUFFICES ASSUME ptr # Null, ptr.home \in Plugin, ~Displaced(ptr)
                   PROVE  ptr.home # Dev /\ InList(scripts[c][h], s, ptr)
      BY <1>4, <1>7, <2>2, <3>1 DEF Backed, InList, Displaced
    <3>3. InList(scripts[c][h], s, ptr)
      BY <1>7, <3>1, <3>2 DEF WellEquipped, Backed
    <3> QED
      BY <2>2, <3>3 DEF InList
  <2> QED
    BY <1>8, <2>1, <2>2
<1> QED
  BY <1>9, <1>10, <1>11 DEF WellEquipped

\* remove_acmd_scripts: every agent has been visited, so none runs what is purged.
LEMMA PurgeEquips ==
  ASSUME TypeOK, RegistryInv, TurnsInv, [Next]_vars, PurgeScripts,
         NEW a \in AgentId, a \in loadedAgents, WellEquipped(a)
  PROVE  WellEquipped(a)'
<1>1. PICK c, h : c = CategoryOf(a) /\ h = agents[a].hash
  OBVIOUS
<1>2. a <= created /\ c \in Category /\ h \in Hash
  BY <1>1, ListedAgent
<1>3. /\ UNCHANGED <<gen, mapped, agents, loadedAgents, pending, todo>>
      /\ Undone(a) /\ ~Undone(a)' /\ ~LoaderIdle
      /\ scripts'[c][h] = {e \in scripts[c][h] : e.fn.home # Dev}
  BY <1>2 DEF PurgeScripts, Purged, FromDev, Undone, LoaderIdle, pluginVars
<1>4. /\ SameAgent(a) /\ agents'[a].hash = h /\ CategoryOf(a)' = c
      /\ ScriptsOf(a) = scripts[c][h] /\ ScriptsOf(a)' = scripts'[c][h]
      /\ \A p \in Plugin : ~PendingFor(a, p) /\ ~PendingFor(a, p)'
      /\ \A s : Displaceable(a, s)' <=> Displaceable(a, s)
  BY <1>1, <1>3
  DEF SameAgent, CategoryOf, ScriptsOf, PendingFor, TurnsInv, Displaceable, Region,
      InstanceOf
<1>5. Replaced(a)'
  BY <1>3, <1>4 DEF WellEquipped, Replaced
<1>6. SoundAgent(a)'
  BY <1>1, <1>3, <1>4 DEF WellEquipped, SoundAgent, Sound, IsMapped
<1>7. ASSUME NEW s \in Script PROVE Backed(a, s)'
  <2>1. PICK ptr : ptr = agents[a].table[s]
    OBVIOUS
  <2>2. SUFFICES ASSUME ptr # Null, ptr.home \in Plugin, ~Displaced(ptr)
                 PROVE  ptr.home # Dev /\ InList(scripts'[c][h], s, ptr)
    BY <1>3, <1>4, <2>1 DEF Backed, InList, Displaced
  <2>3. ptr.home # Dev /\ InList(scripts[c][h], s, ptr)
    BY <1>3, <1>4, <2>1, <2>2 DEF WellEquipped, Backed
  <2> QED
    BY <1>3, <2>3 DEF InList
<1> QED
  BY <1>5, <1>6, <1>7 DEF WellEquipped

\* EquippedInv, step by step.
LEMMA NextEquipped ==
  ~Threaded /\ TypeOK /\ RegistryInv /\ AgentsInv /\ SerialInv /\ [Next]_vars
    => EquippedInv'
<1> SUFFICES ASSUME ~Threaded, TypeOK, RegistryInv, AgentsInv, SerialInv,
                    [Next]_vars, NEW a \in AgentId, Equipped(a)'
             PROVE  WellEquipped(a)'
  BY DEF EquippedInv
<1>0. TurnsInv /\ MadeInv /\ EquippedInv
  BY DEF SerialInv
<1>1. /\ a \in loadedAgents /\ a <= created /\ SameAgent(a) /\ a \in loadedAgents'
      /\ Equipped(a) \/ (EquipAgent /\ a = creating)
  BY EquippedBefore DEF Equipped
<1>2. CASE EquipAgent /\ a = creating
  BY <1>0, <1>2, EquipsMade
<1>3. CASE Equipped(a)
  <2>0. WellEquipped(a) /\ agents[a].alive /\ a # creating
    BY <1>0, <1>3 DEF EquippedInv, Equipped, Live
  <2>1. CASE EquipAgent
    BY <1>0, <1>1, <2>0, <2>1, EquipsOther
  <2>2. ASSUME NEW r \in Request, InstallLive(r) PROVE WellEquipped(a)'
    BY <1>0, <1>1, <2>0, <2>2, RequestEquips
  <2>3. ASSUME NEW p \in Plugin, RecordScript(p) PROVE WellEquipped(a)'
    BY <1>0, <1>1, <2>0, <2>3, RecordEquips
  <2>4. CASE RestoreAgent(a)
    BY <1>0, <1>1, <2>0, <2>4, RestoreEquips
  <2>5. CASE PurgeScripts
    BY <1>0, <1>1, <2>0, <2>5, PurgeEquips
  <2>6. ASSUME agents'[a].table = agents[a].table, UNCHANGED <<scripts, pending>>,
               Undone(a)' <=> Undone(a),
               phase \in {"running", "restoring"} => phase' \in {"running", "restoring"}
        PROVE  WellEquipped(a)'
    <3>1. PICK c, h : c = CategoryOf(a) /\ h = agents[a].hash
      OBVIOUS
    <3> QED
      BY <1>1, <2>0, <2>6, <3>1, EquippedKept
  <2>7. CASE UNCHANGED <<agents, phase, todo, scripts, pending>>
    BY <2>6, <2>7 DEF Undone
  <2>8. ASSUME NEW f \in Factory, NEW h \in f.hashes, CreateAgent(f, h)
        PROVE  WellEquipped(a)'
    <3>1. a # created + 1 /\ agents \in [AgentId -> Agent \cup {Null}]
      <4>1. created \in 0..MaxAgents
        BY DEF TypeOK
      <4> QED
        BY <1>1, <4>1, BoundsAssumption DEF AgentId, TypeOK
    <3>2. agents'[a] = agents[a]
      BY <2>8, <3>1 DEF CreateAgent
    <3> QED
      BY <2>6, <2>8, <3>2 DEF CreateAgent, pluginVars, loaderVars, Undone
  <2>9. ASSUME NEW b \in AgentId, DestroyAgent(b) PROVE WellEquipped(a)'
    <3>1. agents'[a].table = agents[a].table
      <4>1. agents[a] \in Agent /\ agents \in [AgentId -> Agent \cup {Null}]
        BY <1>1, ListedAgent DEF TypeOK
      <4> QED
        BY <2>9, <4>1 DEF DestroyAgent, Agent
    <3> QED
      BY <2>6, <2>9, <3>1 DEF DestroyAgent, pluginVars, loaderVars, Undone
  <2>10. CASE LoadDev
    BY <2>6, <2>10 DEF LoadDev, pluginVars, Undone
  <2>11. CASE BeginUninstall
    BY <1>1, <2>6, <2>11 DEF BeginUninstall, pluginVars, Undone
  <2>12. ASSUME NEW b \in AgentId, RestoreAgent(b), b # a PROVE WellEquipped(a)'
    <3>1. agents'[a] = agents[a]
      BY <2>12 DEF RestoreAgent, TypeOK
    <3> QED
      BY <2>6, <2>12, <3>1 DEF RestoreAgent, pluginVars, Undone
  <2>13. CASE UnloadDev
    BY <2>6, <2>13 DEF UnloadDev, Undone
  <2>14. ASSUME NEW m \in Module, NroLoad(m) \/ NroUnload(m) PROVE WellEquipped(a)'
    BY <2>7, <2>14 DEF NroLoad, NroUnload, pluginVars, loaderVars
  <2>15. CASE UNCHANGED vars
    BY <2>7, <2>15 DEF vars
  <2> QED
    BY <2>1, <2>2, <2>3, <2>4, <2>5, <2>8, <2>9, <2>10, <2>11, <2>12, <2>13,
       <2>14, <2>15 DEF Next, Game, Plugins, Loader
<1> QED
  BY <1>1, <1>2, <1>3

\* At the start there are no agents and nothing is recorded.
LEMMA InitSerial == Init => SerialInv
<1> SUFFICES ASSUME Init PROVE SerialInv
  OBVIOUS
<1>1. TurnsInv
  BY DEF Init, TurnsInv, LoaderIdle
<1>2. MadeInv
  BY DEF Init, MadeInv
<1>3. EquippedInv
  BY DEF Init, EquippedInv, Equipped
<1> QED
  BY <1>1, <1>2, <1>3 DEF SerialInv

\* All of it, over every run with one thread.
AllInv == TypeOK /\ RegistryInv /\ AgentsInv /\ SerialInv

THEOREM SerialCorrect == ~Threaded => (Spec => []AllInv)
<1> SUFFICES ASSUME ~Threaded PROVE Spec => []AllInv
  OBVIOUS
<1>1. Init => AllInv
  BY InitTypeOK, InitRegistry, InitAgents, InitSerial DEF AllInv
<1>2. AllInv /\ [Next]_vars => AllInv'
  <2> SUFFICES ASSUME AllInv, [Next]_vars PROVE AllInv'
    OBVIOUS
  <2>1. TypeOK' /\ RegistryInv' /\ AgentsInv'
    BY NextTypeOK, NextRegistry, NextAgents DEF AllInv
  <2>2. TurnsInv' /\ MadeInv' /\ EquippedInv'
    BY NextTurns, NextMade, NextEquipped DEF AllInv, SerialInv
  <2> QED
    BY <2>1, <2>2 DEF AllInv, SerialInv
<1> QED
  BY <1>1, <1>2, PTL DEF Spec

-----------------------------------------------------------------------------
(* What agents run, and what an uninstall leaves.                          *)

\* With one thread an agent in LOADED_ACMD_AGENTS runs no function of its own
\* module where the registry has a replacement for it: what is installed in the
\* agents alive and what is given to new ones leave no gap between them.
THEOREM ReplacedForGood == ~Threaded => (Spec => []ReplacedNeverNative)
<1> SUFFICES ASSUME ~Threaded PROVE Spec => []ReplacedNeverNative
  OBVIOUS
<1>1. AllInv => ReplacedNeverNative
  <2> SUFFICES ASSUME AllInv, Quiet, NEW a \in loadedAgents, Live(a),
                      NEW e \in ScriptsOf(a)
               PROVE  ~Displaceable(a, e.script)
    BY DEF ReplacedNeverNative
  <2>1. a \in AgentId /\ a # Null /\ Equipped(a)
    BY ListedAgent, NamesAssumption DEF AllInv, Equipped, Quiet
  <2>2. Replaced(a) /\ ~Undone(a)
    BY <2>1 DEF AllInv, SerialInv, EquippedInv, WellEquipped, Quiet, LoaderIdle, Undone
  <2> QED
    BY <2>2 DEF Replaced
<1> QED
  BY <1>1, SerialCorrect, PTL

\* With one thread the development plugin leaves no function behind in an agent
\* but those given with low priority or as common: remove_live_acmd_scripts takes
\* back every other, and what it puts back is still in memory.
THEOREM HighPriorityTakenBack == ~Threaded => (Spec => []OnlyDisplacedDangle)
<1> SUFFICES ASSUME ~Threaded PROVE Spec => []OnlyDisplacedDangle
  OBVIOUS
<1>1. AllInv => OnlyDisplacedDangle
  <2> SUFFICES ASSUME AllInv, Quiet, NEW a \in loadedAgents, NEW s \in Script, Live(a),
                      Dangling(agents[a].table[s]), ~Displaced(agents[a].table[s])
               PROVE  FALSE
    BY DEF OnlyDisplacedDangle
  <2>0. TypeOK /\ RegistryInv /\ EquippedInv
    BY DEF AllInv, SerialInv
  <2>1. /\ a \in AgentId /\ CategoryOf(a) \in Category /\ agents[a].hash \in Hash
        /\ agents[a].table \in Table
    BY <2>0, ListedAgent
  <2>2. WellEquipped(a)
    BY <2>0, <2>1, NamesAssumption DEF EquippedInv, Equipped, Quiet
  <2>3. PICK ptr : ptr = agents[a].table[s]
    OBVIOUS
  <2>4. ptr # Null /\ ptr \in Pointer /\ ~IsMapped(ptr)
    BY <2>1, <2>3 DEF Dangling, Table
  <2>5. ptr.home \in Plugin
    <3>1. ptr.home \notin Module
      BY <2>2, <2>3, <2>4 DEF WellEquipped, SoundAgent, Sound
    <3> QED
      BY <2>4, <3>1 DEF Pointer, Home
  <2>6. InList(ScriptsOf(a), s, ptr)
    BY <2>2, <2>3, <2>4, <2>5 DEF WellEquipped, Backed, PendingFor, Quiet
  <2>7. PICK e \in ScriptsOf(a) : e.fn = ptr
    BY <2>6 DEF InList
  <2>8. e \in Entries
    BY <2>1, <2>7 DEF Entries, ScriptsOf
  <2> QED
    BY <2>0, <2>4, <2>7, <2>8 DEF RegistryInv, Known
<1> QED
  BY <1>1, SerialCorrect, PTL

\* With one thread a live agent keeps, for life, what a resident plugin gave it
\* with high priority: no request displaces it, and no hot reload of the
\* development plugin puts something else back in its place.
THEOREM HighPriorityKeptForLife == ~Threaded => (Spec => HighPriorityKept)
<1> DEFINE Kept(a, s) ==
      /\ Live(a) /\ Live(a)' /\ a # creating
      /\ agents[a].table[s] # Null /\ agents[a].table[s].home \in Plugin \ {Dev}
      /\ ~Displaced(agents[a].table[s])
      => agents'[a].table[s] = agents[a].table[s]
<1> SUFFICES ASSUME ~Threaded PROVE Spec => HighPriorityKept
  OBVIOUS
<1>1. AllInv /\ [Next]_vars => [\A a \in AgentId, s \in Script : Kept(a, s)]_vars
  <2> SUFFICES ASSUME AllInv, Next, NEW a \in AgentId, NEW s \in Script,
                      Live(a), a # creating, agents[a].table[s] # Null,
                      agents[a].table[s].home \in Plugin \ {Dev},
                      ~Displaced(agents[a].table[s])
               PROVE  agents'[a].table[s] = agents[a].table[s]
    OBVIOUS
  <2>0. /\ TypeOK /\ RegistryInv /\ TurnsInv /\ EquippedInv
        /\ a <= created /\ agents[a] \in Agent /\ agents[a].factory.module \in Module
        /\ agents \in [AgentId -> Agent \cup {Null}]
    <3>1. TypeOK /\ RegistryInv /\ TurnsInv /\ EquippedInv
      BY DEF AllInv, SerialInv
    <3>2. a <= created
      BY <3>1 DEF TypeOK, Live
    <3> QED
      BY <3>1, <3>2, AgentType DEF TypeOK
  <2>1. CASE UNCHANGED agents
    BY <2>1
  <2>2. ASSUME NEW f \in Factory, NEW h \in f.hashes, CreateAgent(f, h)
        PROVE  agents'[a].table[s] = agents[a].table[s]
    <3>1. a # created + 1
      <4>1. created \in 0..MaxAgents
        BY <2>0 DEF TypeOK
      <4> QED
        BY <2>0, <4>1, BoundsAssumption DEF AgentId
    <3> QED
      BY <2>0, <2>2, <3>1 DEF CreateAgent
  <2>3. CASE EquipAgent
    BY <2>0, <2>3 DEF EquipAgent
  <2>4. ASSUME NEW b \in AgentId, DestroyAgent(b)
        PROVE  agents'[a].table[s] = agents[a].table[s]
    BY <2>0, <2>4 DEF DestroyAgent, Agent
  <2>5. ASSUME NEW r \in Request, InstallLive(r)
        PROVE  agents'[a].table[s] = agents[a].table[s]
    <3>1. UNCHANGED agents \/ Gives(r, a)
      BY <2>0, <2>5, Requested
    <3>2. ~Displaceable(a, s)
      BY <2>0, NamesAssumption, PluginStays
    <3> QED
      BY <2>0, <3>1, <3>2 DEF Gives, Agent, Table
  <2>6. ASSUME NEW b \in AgentId, RestoreAgent(b)
        PROVE  agents'[a].table[s] = agents[a].table[s]
    <3>1. CASE b # a
      BY <2>0, <2>6, <3>1 DEF RestoreAgent
    <3>2. CASE b = a
      <4>1. /\ a \in loadedAgents /\ \A p \in Plugin : pending[p] = Null
        BY <2>0, <2>6, <3>2 DEF RestoreAgent, TurnsInv, LoaderIdle
      <4>2. Backed(a, s)
        BY <2>0, <4>1 DEF EquippedInv, Equipped, WellEquipped
      <4>3. PICK e \in ScriptsOf(a) : e.script = s /\ e.fn = agents[a].table[s]
        BY <4>1, <4>2 DEF Backed, InList, PendingFor
      <4>4. \A d \in FromDev(ScriptsOf(a)) : d.script # s
        <5>1. CategoryOf(a) \in Category /\ agents[a].hash \in Hash
          BY <2>0, AgentType
        <5>2. \A d \in ScriptsOf(a) : d.script = s => d = e
          BY <2>0, <4>3, <5>1 DEF RegistryInv, ScriptsUnique, ScriptsOf
        <5> QED
          BY <4>3, <5>2 DEF FromDev
      <4>5. Restored(agents[a].table, FromDev(ScriptsOf(a)))[s] = agents[a].table[s]
        BY <4>4, RestoredValue
      <4> QED
        BY <2>0, <2>6, <3>2, <4>5 DEF RestoreAgent, Agent
    <3> QED
      BY <3>1, <3>2
  <2> QED
    BY <2>1, <2>2, <2>3, <2>4, <2>5, <2>6
    DEF Next, Game, Plugins, Loader, NroLoad, NroUnload, RecordScript, LoadDev,
        BeginUninstall, PurgeScripts, UnloadDev
<1> QED
  BY <1>1, SerialCorrect, PTL DEF Spec, HighPriorityKept

\* No plugin replaces a script of an agent with a function with which it also
\* replaces that script for all of them.
NoFnForBoth ==
  \A q, r \in Request :
    q.plugin = r.plugin /\ q.category = r.category /\ q.script = r.script
      /\ q.fn = r.fn => (q.agent = Common <=> r.agent = Common)

\* Then, with one thread, no script is saved as its own original: what install
\* saves for an entry is what "common" or the fighter module had there.
THEOREM BackupsOfOthers == ~Threaded /\ NoFnForBoth => (Spec => []BackupNotSelf)
<1> SUFFICES ASSUME ~Threaded, NoFnForBoth PROVE Spec => []BackupNotSelf
  OBVIOUS
<1>1. AllInv => BackupNotSelf
  <2> SUFFICES ASSUME AllInv, NEW c \in Category, NEW h \in Hash \cup {Common},
                      NEW e \in scripts[c][h]
               PROVE  e.backup # e.fn
    BY DEF BackupNotSelf, Entries
  <2>1. /\ AskedFor(c, h, e) /\ SavesWell(c, h, e) /\ RegistryInv
        /\ e \in ScriptInfo
    BY DEF AllInv, SerialInv, MadeInv, WellMade, TypeOK
  <2>2. e.fn \in Pointer /\ e.fn # Null /\ e.fn.home \notin Module
    BY <2>1, EntryOfPlugin, NamesAssumption DEF ScriptInfo
  <2>3. CASE e.backup = Null \/ e.backup.home \in Module
    BY <2>2, <2>3
  <2>4. ASSUME h # Common, NEW r \in Request, r.category = c, r.agent = Common,
               r.script = e.script, r.plugin = e.backup.home, r.fn = e.backup.fn
        PROVE  e.backup # e.fn
    BY <2>1, <2>4 DEF AskedFor, NoFnForBoth
  <2> QED
    BY <2>1, <2>3, <2>4 DEF SavesWell
<1> QED
  BY <1>1, SerialCorrect, PTL
=============================================================================
