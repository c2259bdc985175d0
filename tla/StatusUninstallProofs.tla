----------------------- MODULE StatusUninstallProofs -----------------------
(***************************************************************************)
(* What an uninstall of the development plugin leaves in live agents, with *)
(* one thread: a theorem about StatusScripts for every number of agents,   *)
(* statuses, modules and plugins.                                          *)
(***************************************************************************)
EXTENDS StatusScriptsProofs

-----------------------------------------------------------------------------
(* What an uninstall leaves, with one thread.                              *)

\* A function that a live agent may run whatever becomes of the development
\* plugin: none, one of "common", one of its own module, one of a plugin that
\* stays, or one that was given with low priority.
LowGiven(ptr) == \E r \in Request : r.low /\ r.fn = ptr.fn
Lasting(ptr, a) == \/ ptr = Null \/ OfCommon(ptr) \/ OfAgent(ptr, a)
                   \/ ptr.home \in Plugin \ {Dev} /\ IsMapped(ptr)
                   \/ LowGiven(ptr)

\* Live agents are listed, under a hash of their module; low entries are given
\* with low priority; and while an agent is made no plugin is being unloaded.
ListedInv ==
  \A a \in AgentId : Live(a) =>
    a \in loadedAgents /\ agents[a].hash \in Export[agents[a].module].hashes
LowEntries == \A k \in Key : \A e \in scripts[k] : e.low => LowGiven(e.fn)
MakingInv  == setting # "nothing" => Live(created) /\ phase \in {"unloaded", "running"}

\* Being(a): the scripts of a are yet to be installed.  All it runs lasts, but
\* for the functions of entries that are still recorded; and what the development
\* plugin's entries save lasts.
Being(a) == a = created /\ setting \in {"table", "statuses"}
TableLasts(a) ==
  \A s \in Slot : \/ Lasting(agents[a].table[s], a)
                  \/ /\ phase = "running" /\ ~Being(a)
                     /\ \E e \in scripts[agents[a].hash] :
                          e.slot = s /\ e.fn = agents[a].table[s]
BackupsLast(a) ==
  ~Being(a) => \A e \in scripts[agents[a].hash] :
                 e.fn.home = Dev => Lasting(e.backup, a)
UndoInv == \/ ub /\ ~Quiet
           \/ \A a \in AgentId : Live(a) => TableLasts(a) /\ BackupsLast(a)

\* All that is known; and what there is to show of one agent.
UndoInvs == InstallInvs /\ ListedInv /\ LowEntries /\ MakingInv /\ UndoInv

\* A live agent was live before, or is new.
LEMMA LiveBefore ==
  ASSUME TypeInv, [Next]_vars, NEW a \in AgentId, Live(a)'
  PROVE  \/ a <= created /\ Live(a) /\ SameAgent(a)
         \/ a = created + 1 /\ \E m \in Module, h \in Hash : CreateAgent(m, h)
<1>1. a <= created'
  <2>1. TypeInv'
    BY NextTypeInv
  <2> QED
    BY <2>1 DEF TypeInv, AgentsMade, Live
<1>2. a <= created => Live(a) /\ SameAgent(a)
  <2>1. a <= created => SameAgent(a) /\ agents[a] # Null
    BY AgentsKept, AgentType
  <2> QED
    BY <2>1 DEF SameAgent, Live
<1>3. CASE \E m \in Module, h \in Hash : CreateAgent(m, h)
  <2>1. created' = created + 1
    BY <1>3 DEF CreateAgent
  <2>2. a <= created \/ a = created + 1
    <3>1. a \in 1..MaxAgents /\ created \in 0..MaxAgents
      BY DEF TypeInv, TypeOK, AgentId
    <3> QED
      BY <1>1, <2>1, <3>1, BoundsAssumption
  <2> QED
    BY <1>2, <1>3, <2>2
<1>4. CASE ~ \E m \in Module, h \in Hash : CreateAgent(m, h)
  <2>1. created' = created
    BY <1>4, ModulesTouched DEF LoadCommon, UnloadCommon, NroLoad, NroUnload,
                                ModulesUntouched, agentVars
  <2> QED
    BY <1>1, <1>2, <2>1
<1> QED
  BY <1>3, <1>4

\* Live agents of one hash are of one instance of one module.
LEMMA OneInstance ==
  ASSUME TypeInv, VtablesExact, ListedInv, NEW a \in AgentId, NEW b \in AgentId,
         Live(a), Live(b), agents[a].hash = agents[b].hash
  PROVE  InstanceOf(a) = InstanceOf(b)
<1>1. a <= created /\ b <= created
  BY DEF Live, TypeInv, AgentsMade
<1>2. agents[a].module \in Module /\ agents[b].module \in Module
  BY <1>1, AgentType
<1>3. agents[a].module = agents[b].module
  BY <1>2, DataAssumption DEF ListedInv
<1> QED
  BY <1>2, <1>3 DEF VtablesExact

LEMMA NextListed == TypeInv /\ VtablesExact /\ ListedInv /\ [Next]_vars => ListedInv'
<1> SUFFICES ASSUME TypeInv, VtablesExact, ListedInv, [Next]_vars,
                    NEW a \in AgentId, Live(a)'
             PROVE  a \in loadedAgents' /\ agents'[a].hash \in Export[agents'[a].module].hashes
  BY DEF ListedInv
<1>0. agents \in [AgentId -> Agent \cup {Null}]
  BY DEF TypeInv, TypeOK
<1>1. CASE a = created + 1 /\ \E m \in Module, h \in Hash : CreateAgent(m, h)
  BY <1>0, <1>1 DEF CreateAgent
<1>2. CASE a <= created /\ Live(a) /\ SameAgent(a)
  <2>1. /\ a \in loadedAgents /\ agents'[a].hash \in Export[agents'[a].module].hashes
        /\ agents[a].module \in Module
    BY <1>2, AgentType DEF ListedInv, SameAgent
  <2>2. CASE \E m \in Module : NroUnload(m)
    <3>1. PICK m \in Module : NroUnload(m)
      BY <2>2
    <3>2. agents[a].module # m
      BY <1>2, <2>1, <3>1 DEF NroUnload, VtablesExact
    <3>3. agents[a].hash \notin Export[m].acmdHashes
      BY <1>2, <2>1, <3>2, DataAssumption DEF ListedInv
    <3> QED
      BY <2>1, <3>1, <3>3 DEF NroUnload
  <2>3. CASE ~ \E m \in Module : NroUnload(m)
    <3>1. loadedAgents \subseteq loadedAgents'
      BY <2>3 DEF Next, Game, Ask, Loader, LoadCommon, UnloadCommon, NroLoad,
                  CreateAgent, SetTable, InstallStatuses, InstallWaza, DestroyAgent,
                  ReplaceStatus, ReplaceWaza, LoadDev, RemoveLiveStatuses,
                  RemoveLiveWaza, PurgeStatuses, UnloadDev, vars, agentVars
    <3> QED
      BY <2>1, <3>1
  <2> QED
    BY <2>2, <2>3
<1> QED
  BY <1>1, <1>2, LiveBefore

\* What recording lets in and what it lets go.
LEMMA RecordedEntries ==
  ASSUME NEW list \in SUBSET StatusInfo, Numbered(list), NEW info \in StatusInfo
  PROVE  /\ \A d \in Recorded(list, info) : d \in list \/ IsEntryOf(d, info)
         /\ \A e \in list : e \in Recorded(list, info) \/ e.low
         /\ For(list, info.slot) = {} =>
              \E new \in Recorded(list, info) : IsEntryOf(new, info)
<1>1. /\ \A d \in Recorded(list, info) : d \in list \/ IsEntryOf(d, info)
      /\ \A e \in list : e \in Recorded(list, info) \/ e.low
  BY RecordedList DEF TurnsAway, Appends, Displaces
<1>2. ASSUME For(list, info.slot) = {}
      PROVE  \E new \in Recorded(list, info) : IsEntryOf(new, info)
  <2>1. Recorded(list, info) = Pushed(list, info)
    BY <1>2 DEF Recorded
  <2> QED
    BY <2>1, PushedList
<1> QED
  BY <1>1, <1>2

LEMMA NextLow == TypeInv /\ LowEntries /\ [Next]_vars => LowEntries'
<1> SUFFICES ASSUME TypeInv, LowEntries, [Next]_vars,
                    NEW k \in Key, NEW d \in scripts'[k], d.low
             PROVE  LowGiven(d.fn)
  BY DEF LowEntries, LowGiven
<1>1. CASE Within(scripts'[k], scripts[k])
  BY <1>1 DEF Within, LowEntries
<1>2. ASSUME NEW r \in Request, ReplaceStatus(r) PROVE LowGiven(d.fn)
  <2>1. scripts \in [Key -> SUBSET StatusInfo] /\ Numbered(scripts[k])
    BY DEF TypeInv, TypeOK, ListsNumbered
  <2>2. PICK info : /\ InfoOf(info, r)
                    /\ \/ UNCHANGED scripts
                       \/ scripts' = [scripts EXCEPT ![r.agent] =
                                        Recorded(scripts[r.agent], info)]
    BY <1>2, StatusRequested
  <2>3. scripts'[k] = scripts[k] \/ scripts'[k] = Recorded(scripts[k], info)
    BY <2>1, <2>2
  <2>4. d \in scripts[k] \/ IsEntryOf(d, info)
    BY <2>1, <2>2, <2>3, RecordedEntries DEF InfoOf
  <2>5. Replacement(r).fn = r.fn
    BY DEF Replacement
  <2> QED
    BY <2>2, <2>4, <2>5 DEF InfoOf, IsEntryOf, LowEntries, LowGiven
<1> QED
  BY <1>1, <1>2, ListsWithin

LEMMA NextMaking == ~Threaded /\ TypeInv /\ MakingInv /\ [Next]_vars => MakingInv'
<1> SUFFICES ASSUME ~Threaded, TypeInv, MakingInv, [Next]_vars, setting' # "nothing"
             PROVE  Live(created)' /\ phase' \in {"unloaded", "running"}
  BY DEF MakingInv
<1>0. agents \in [AgentId -> Agent \cup {Null}]
  BY DEF TypeInv, TypeOK
<1>1. CASE \E m \in Module, h \in Hash : CreateAgent(m, h)
  <2>1. PICK m \in Module, h \in Hash : CreateAgent(m, h)
    BY <1>1
  <2> DEFINE new == [module |-> m, gen |-> gen[m], hash |-> h, alive |-> TRUE,
                     table |-> [s \in Slot |-> Null], waza |-> Null]
  <2>2. /\ created' = created + 1 /\ created + 1 \in AgentId
        /\ agents' = [agents EXCEPT ![created + 1] = new]
        /\ phase' = phase /\ Quiet
    <3>1. created \in 0..MaxAgents
      BY DEF TypeInv, TypeOK
    <3> QED
      BY <2>1, <3>1, BoundsAssumption DEF CreateAgent, GameFree, MayBegin, AgentId
  <2>3. agents'[created + 1] = new
    BY <1>0, <2>2
  <2>4. new # Null
    <3>1. TypeInv'
      BY NextTypeInv
    <3>2. created' \in AgentId /\ created' <= created'
      BY <2>2, BoundsAssumption DEF AgentId
    <3> HIDE DEF new
    <3> QED BY <2>2, <2>3, <3>1, <3>2 DEF TypeInv, AgentsMade
  <2>5. new.alive
    OBVIOUS
  <2> HIDE DEF new
  <2> QED
    BY <2>2, <2>3, <2>4, <2>5 DEF Live, Quiet
<1>2. CASE ~ \E m \in Module, h \in Hash : CreateAgent(m, h)
  <2>1. created' = created /\ setting # "nothing"
    BY <1>2 DEF Next, Game, Ask, Loader, LoadCommon, UnloadCommon, NroLoad, NroUnload,
                SetTable, InstallStatuses, InstallWaza, DestroyAgent, ReplaceStatus,
                ReplaceWaza, LoadDev, RemoveLiveStatuses, RemoveLiveWaza,
                PurgeStatuses, UnloadDev, vars, agentVars
  <2>2. ~MayBegin /\ phase \in {"unloaded", "running"} /\ Live(created)
    BY <2>1 DEF MayBegin, Quiet, MakingInv
  <2>3. phase' = phase
    <3>1. ~LoadDev /\ ~PurgeStatuses /\ ~UnloadDev
      BY <2>2 DEF LoadDev, PurgeStatuses, UnloadDev
    <3>2. ~RemoveLiveStatuses /\ ~RemoveLiveWaza
      BY <2>2 DEF RemoveLiveStatuses, RemoveLiveWaza
    <3> QED
      BY <2>2, <3>1, <3>2, PhaseUntouched
  <2>4. created \in AgentId /\ created <= created
    <3>1. created \in 0..MaxAgents /\ created \in AgentId
      BY <2>1 DEF TypeInv, TypeOK, AgentsMade
    <3> QED
      BY <3>1
  <2>5. ~DestroyAgent(created)
    BY <2>2 DEF DestroyAgent, GameFree
  <2>6. agents'[created] # Null
    <3>1. TypeInv'
      BY NextTypeInv
    <3> QED
      BY <2>1, <2>4, <3>1 DEF TypeInv, AgentsMade
  <2> QED
    BY <2>1, <2>2, <2>3, <2>4, <2>5, <2>6, AgentsKept DEF Live, SameAgent
<1> QED
  BY <1>1, <1>2

-----------------------------------------------------------------------------
(* What lasts.                                                             *)

\* What is known of a live agent.
LEMMA LiveAgent ==
  ASSUME TypeInv, NEW a \in AgentId, Live(a)
  PROVE  /\ a <= created /\ agents[a] \in Agent /\ agents[a].table \in Table
         /\ agents[a].module \in Module
         /\ agents[a].hash \in Hash /\ agents[a].hash \in Key /\ agents[a].hash # Common
         /\ scripts[agents[a].hash] \in SUBSET StatusInfo
         /\ Numbered(scripts[agents[a].hash])
<1>1. a <= created
  BY DEF Live, TypeInv, AgentsMade
<1>2. /\ agents[a] \in Agent /\ agents[a].table \in Table
      /\ agents[a].module \in Module /\ agents[a].hash \in Hash
      /\ scripts[agents[a].hash] \in SUBSET StatusInfo
  BY <1>1, AgentType
<1> QED
  BY <1>1, <1>2, NamesAssumption DEF Key, TypeInv, ListsNumbered

\* What lasts for a live agent goes on lasting: "common" stays as long as there
\* are agents, and so does every plugin but the development plugin.
LEMMA LastingKept ==
  ASSUME TypeInv, CommonInv, VtablesExact, RegistryInv, [Next]_vars,
         NEW a \in AgentId, Live(a), NEW ptr, Lasting(ptr, a)
  PROVE  Lasting(ptr, a)'
<1>1. SameAgent(a)
  BY LiveAgent, AgentsKept
<1>2. commonInfo' = commonInfo
  <2>1. ~LoadCommon
    BY NobodyBeforeCommon DEF LoadCommon
  <2> QED
    BY <2>1, ModulesTouched DEF UnloadCommon, NroLoad, NroUnload, CreateAgent,
                                commonVars, ModulesUntouched
<1>3. \A p \in Plugin \ {Dev} : gen'[p] = gen[p] /\ (p \in mapped' <=> p \in mapped)
  <2>1. CASE LoadDev \/ UnloadDev
    BY <2>1 DEF LoadDev, UnloadDev, TypeInv, TypeOK, Home
  <2> QED
    BY <2>1, PluginsUntouched
<1>4. OfCommon(ptr) => OfCommon(ptr)'
  BY <1>2 DEF OfCommon, Region
<1>5. OfAgent(ptr, a) => OfAgent(ptr, a)'
  BY <1>1 DEF OfAgent, Region, InstanceOf, SameAgent
<1>6. ptr.home \in Plugin \ {Dev} /\ IsMapped(ptr) => IsMapped(ptr)'
  BY <1>3 DEF IsMapped
<1>7. LowGiven(ptr) => LowGiven(ptr)'
  BY DEF LowGiven
<1> QED
  BY <1>4, <1>5, <1>6, <1>7 DEF Lasting

\* What lasts for an agent lasts for every live agent of its hash.
LEMMA LastingShared ==
  ASSUME TypeInv, VtablesExact, ListedInv, NEW a \in AgentId, NEW b \in AgentId,
         Live(a), Live(b), agents[a].hash = agents[b].hash, NEW ptr, Lasting(ptr, b)
  PROVE  Lasting(ptr, a)
BY OneInstance DEF Lasting, OfAgent

\* With one thread a request, or the plugin's unloading, begins while no agent
\* is being made.
LEMMA NobodyMade ==
  ASSUME ~Threaded, MayBegin, NEW a
  PROVE  setting = "nothing" /\ phase \in {"unloaded", "running"} /\ ~Being(a)
BY DEF MayBegin, Quiet, Being

\* An agent that was made is being made after a step only if it was before.
LEMMA BeingKept ==
  ASSUME TypeInv, [Next]_vars, NEW a \in AgentId, a <= created
  PROVE  /\ Being(a)' => Being(a)
         /\ Being(a) => Being(a)' \/ InstallStatuses
<1>1. CASE \E m \in Module, h \in Hash : CreateAgent(m, h)
  <2>1. a # created' /\ setting = "nothing"
    <3>1. created \in 0..MaxAgents
      BY DEF TypeInv, TypeOK
    <3> QED
      BY <1>1, <3>1, BoundsAssumption DEF CreateAgent, GameFree, AgentId
  <2> QED
    BY <2>1 DEF Being
<1>2. CASE SetTable \/ InstallStatuses \/ InstallWaza
  BY <1>2 DEF SetTable, InstallStatuses, InstallWaza, Being
<1>3. ASSUME ~ \E m \in Module, h \in Hash : CreateAgent(m, h),
             ~SetTable, ~InstallStatuses, ~InstallWaza
      PROVE  UNCHANGED <<created, setting>>
  BY <1>3 DEF Next, Game, Ask, Loader, LoadCommon, UnloadCommon, NroLoad, NroUnload,
              DestroyAgent, ReplaceStatus, ReplaceWaza, LoadDev, RemoveLiveStatuses,
              RemoveLiveWaza, PurgeStatuses, UnloadDev, vars, agentVars
<1> QED
  BY <1>1, <1>2, <1>3 DEF Being

\* The list of a hash is left alone but by requests, installations, the load of
\* "common" and the purge, which only takes from it.
LEMMA HashListsKept ==
  ASSUME TypeInv, [Next]_vars, NEW h \in Hash, ~InstallStatuses, ~LoadCommon,
         ~ \E r \in Request : ReplaceStatus(r)
  PROVE  /\ scripts'[h] \in SUBSET scripts[h]
         /\ phase = "running" => scripts'[h] = scripts[h]
<1>0. scripts \in [Key -> SUBSET StatusInfo] /\ h \in Key /\ h # Common
  BY NamesAssumption DEF TypeInv, TypeOK, Key
<1>1. CASE SetTable
  BY <1>0, <1>1 DEF SetTable
<1>2. CASE PurgeStatuses
  BY <1>0, <1>2 DEF PurgeStatuses, Purged, NotFromDev
<1> QED
  BY <1>1, <1>2, ListsUntouched

\* After an access to freed memory nothing happens any more.
LEMMA UbStops ==
  ASSUME ub, [Next]_vars
  PROVE  UNCHANGED vars
BY DEF Next, Game, Ask, Loader, LoadCommon, UnloadCommon, NroLoad, NroUnload,
       CreateAgent, SetTable, InstallStatuses, InstallWaza, DestroyAgent,
       ReplaceStatus, ReplaceWaza, LoadDev, RemoveLiveStatuses, RemoveLiveWaza,
       PurgeStatuses, UnloadDev, MayAsk, GameFree, MayBegin

\* A function that a registry holds for a plugin that stays lasts.
LEMMA EntriesLast ==
  ASSUME RegistryInv, NEW k \in Key, NEW e \in scripts[k], e.fn.home # Dev, NEW a
  PROVE  Lasting(e.fn, a)
BY DEF RegistryInv, Holds, Lasting

-----------------------------------------------------------------------------
(* Every step keeps it.                                                    *)

\* An agent whose table is left alone, and whose list only loses entries once
\* the unloading has begun.
LEMMA UntouchedKept ==
  ASSUME UndoInvs, ~ub, [Next]_vars, NEW a \in AgentId, Live(a),
         agents'[a].table = agents[a].table, Being(a)' <=> Being(a),
         scripts'[agents[a].hash] \in SUBSET scripts[agents[a].hash],
         phase = "running" => /\ phase' = "running"
                              /\ scripts'[agents[a].hash] = scripts[agents[a].hash]
  PROVE  TableLasts(a)' /\ BackupsLast(a)'
<1> USE DEF UndoInvs, InstallInvs
<1>1. TableLasts(a) /\ BackupsLast(a)
  BY DEF UndoInv
<1>2. agents'[a].hash = agents[a].hash
  BY LiveAgent, AgentsKept DEF SameAgent
<1>3. TableLasts(a)'
  <2> SUFFICES ASSUME NEW s \in Slot, ~Lasting(agents[a].table[s], a)'
               PROVE  /\ phase' = "running" /\ ~Being(a)'
                      /\ \E e \in scripts'[agents[a].hash] :
                           e.slot = s /\ e.fn = agents[a].table[s]
    BY <1>2 DEF TableLasts
  <2>1. ~Lasting(agents[a].table[s], a)
    BY LastingKept
  <2> QED
    BY <1>1, <2>1 DEF TableLasts
<1>4. BackupsLast(a)'
  <2> SUFFICES ASSUME ~Being(a), NEW e \in scripts[agents[a].hash], e.fn.home = Dev
               PROVE  Lasting(e.backup, a)'
    BY <1>2 DEF BackupsLast
  <2> QED
    BY <1>1, LastingKept DEF BackupsLast
<1> QED
  BY <1>3, <1>4

\* The installation: what an agent is given is recorded or lasts, and what is
\* saved of its table lasts for every agent of its hash.
LEMMA InstallKept ==
  ASSUME UndoInvs, ~ub, ~Threaded, [Next]_vars, InstallStatuses,
         NEW a \in AgentId, Live(a)
  PROVE  TableLasts(a)' /\ BackupsLast(a)'
<1> USE DEF UndoInvs, InstallInvs
<1> DEFINE h    == agents[created].hash
           list == scripts[h]
           old  == agents[created].table
<1>0. agents \in [AgentId -> Agent \cup {Null}] /\ scripts \in [Key -> SUBSET StatusInfo]
  BY DEF TypeInv, TypeOK
<1>1. /\ created \in AgentId /\ Live(created) /\ Being(created)
      /\ phase \in {"unloaded", "running"} /\ phase' = phase
      /\ created' = created /\ setting' = "waza"
  BY DEF InstallStatuses, TypeInv, AgentsMade, MakingInv, Being
<1>2. /\ h \in Key /\ list \in SUBSET StatusInfo /\ old \in Table
      /\ agents[created] \in Agent
  BY <1>1, LiveAgent
<1>3. \A s \in Slot : Lasting(old[s], created)
  BY <1>1 DEF UndoInv, TableLasts
<1>4. /\ agents' = [agents EXCEPT ![created].table = Overlay(old, list)]
      /\ scripts' = [scripts EXCEPT ![h] = Saved(list, old)]
  BY DEF InstallStatuses
<1>5. /\ agents[a] \in Agent /\ agents[a].hash \in Key /\ agents'[a].hash = agents[a].hash
      /\ scripts[agents[a].hash] \in SUBSET StatusInfo
  BY LiveAgent, AgentsKept DEF SameAgent
<1>6. ~Being(a)'
  BY <1>1 DEF Being
<1>7. BackupsLast(a)'
  <2> SUFFICES ASSUME NEW d \in scripts'[agents[a].hash], d.fn.home = Dev
               PROVE  Lasting(d.backup, a)'
    BY <1>5 DEF BackupsLast
  <2>1. CASE agents[a].hash = h
    <3>1. scripts'[h] = Saved(list, old)
      BY <1>0, <1>2, <1>4
    <3>2. PICK e \in list : d = [e EXCEPT !.backup = old[e.slot]]
      BY <1>2, <2>1, <3>1, SavedType
    <3>3. d.backup = old[e.slot] /\ e.slot \in Slot
      BY <1>2, <3>2 DEF StatusInfo
    <3>4. Lasting(d.backup, a)
      BY <1>1, <1>3, <2>1, <3>3, LastingShared
    <3> QED
      BY <3>4, LastingKept
  <2>2. CASE agents[a].hash # h
    <3>1. d \in scripts[agents[a].hash] /\ a # created
      BY <1>0, <1>2, <1>4, <1>5, <2>2
    <3>2. ~Being(a)
      BY <3>1 DEF Being
    <3>3. Lasting(d.backup, a)
      BY <3>1, <3>2 DEF UndoInv, BackupsLast
    <3> QED
      BY <3>3, LastingKept
  <2> QED
    BY <2>1, <2>2
<1>8. \A e \in scripts[agents[a].hash] : \E d \in scripts'[agents[a].hash] :
        d.slot = e.slot /\ d.fn = e.fn
  <2>1. CASE agents[a].hash = h
    <3>1. scripts'[h] = Saved(list, old)
      BY <1>0, <1>2, <1>4
    <3> HIDE DEF list, old
    <3> QED BY <1>2, <2>1, <3>1, SavedType DEF list
  <2>2. CASE agents[a].hash # h
    BY <1>0, <1>4, <1>5, <2>2
  <2> QED
    BY <2>1, <2>2
<1>9. TableLasts(a)'
  <2> SUFFICES ASSUME NEW s \in Slot, NEW ptr, ptr = agents'[a].table[s]
               PROVE  \/ Lasting(ptr, a)'
                      \/ /\ phase = "running"
                         /\ \E e \in scripts[agents[a].hash] : e.slot = s /\ e.fn = ptr
    BY <1>1, <1>5, <1>6, <1>8 DEF TableLasts
  <2>1. CASE a = created
    <3>1. agents'[a].table = Overlay(old, list)
      BY <1>0, <1>1, <1>2, <1>4, <2>1 DEF Agent
    <3>2. CASE For(list, s) = {}
      <4>1. ptr = old[s]
        BY <3>1, <3>2 DEF Overlay
      <4>2. Lasting(ptr, a)
        BY <1>3, <2>1, <4>1
      <4> QED
        BY <4>2, LastingKept
    <3>3. CASE For(list, s) # {}
      <4>1. ptr = TheOne(list, s).fn
        BY <3>1, <3>3 DEF Overlay
      <4>2. TheOne(list, s) \in list /\ TheOne(list, s).slot = s
        BY <1>2, <3>3, TheOneType
      <4>3. CASE ptr.home = Dev
        <5>1. phase = "running"
          BY <1>1, <1>2, <4>1, <4>2, <4>3 DEF RegistryInv, Holds
        <5> QED
          BY <2>1, <4>1, <4>2, <5>1
      <4>4. CASE ptr.home # Dev
        <5>1. Lasting(ptr, a)
          BY <1>2, <4>1, <4>2, <4>4, EntriesLast
        <5> QED
          BY <5>1, LastingKept
      <4> QED
        BY <4>3, <4>4
    <3> QED
      BY <3>2, <3>3
  <2>2. CASE a # created
    <3>1. ptr = agents[a].table[s] /\ ~Being(a)
      BY <1>0, <1>1, <1>4, <2>2 DEF Being
    <3>2. \/ Lasting(ptr, a)
          \/ /\ phase = "running"
             /\ \E e \in scripts[agents[a].hash] : e.slot = s /\ e.fn = ptr
      BY <3>1 DEF UndoInv, TableLasts
    <3> QED
      BY <3>2, LastingKept
  <2> QED
    BY <2>1, <2>2
<1> QED
  BY <1>7, <1>9

\* A request: what a live agent is given lasts or is recorded, because the agent
\* lets it in only if its list has no entry for the slot; an entry that gives way
\* is of low priority; and what the new one saves is of no plugin.
LEMMA RequestKept ==
  ASSUME NoDevCommon, UndoInvs, ~ub, ~Threaded, [Next]_vars,
         NEW r \in Request, ReplaceStatus(r), NEW a \in AgentId, Live(a)
  PROVE  TableLasts(a)' /\ BackupsLast(a)'
<1> USE DEF UndoInvs, InstallInvs
<1> DEFINE h    == agents[a].hash
           list == scripts[h]
<1>0. agents \in [AgentId -> Agent \cup {Null}] /\ scripts \in [Key -> SUBSET StatusInfo]
  BY DEF TypeInv, TypeOK
<1>1. /\ phase' = phase /\ ~Being(a) /\ ~Being(a)' /\ Installed(a)
      /\ r.plugin \in mapped /\ (r.plugin = Dev => phase = "running")
  <2>1. /\ UNCHANGED <<phase, created, setting>> /\ MayBegin
        /\ r.plugin \in mapped /\ (r.plugin = Dev => phase = "running")
    BY DEF ReplaceStatus, MayAsk, agentVars
  <2>2. setting = "nothing"
    BY <2>1, NobodyMade
  <2> QED
    BY <2>1, <2>2 DEF Being, Installed
<1>2. /\ h \in Key /\ h # Common /\ list \in SUBSET StatusInfo /\ Numbered(list)
      /\ agents[a] \in Agent /\ agents[a].table \in Table /\ agents'[a].hash = h
      /\ a <= created /\ a \in loadedAgents
  BY LiveAgent, AgentsKept DEF SameAgent, ListedInv
<1>3. /\ r.plugin \in Plugin /\ r.slot \in Slot /\ r.fn \in Fn
      /\ r.plugin = Dev => r.agent # Common
  BY DataAssumption DEF RequestType, NoDevCommon
<1>4. PICK info : /\ InfoOf(info, r)
                  /\ \/ ub' = TRUE /\ UNCHANGED <<agents, scripts>>
                     \/ /\ UNCHANGED ub /\ \A b \in Open(r) : agents[b].alive
                        /\ agents' = [b \in AgentId |->
                             IF b \in Open(r)
                             THEN [agents[b] EXCEPT !.table[r.slot] = Replacement(r)]
                             ELSE agents[b]]
                        /\ scripts' = [scripts EXCEPT ![r.agent] =
                                         Recorded(scripts[r.agent], info)]
  BY StatusRequested
<1>5. CASE UNCHANGED <<agents, scripts>>
  BY <1>1, <1>5, UntouchedKept
<1>6. CASE /\ \A b \in Open(r) : agents[b].alive
           /\ agents' = [b \in AgentId |->
                IF b \in Open(r)
                THEN [agents[b] EXCEPT !.table[r.slot] = Replacement(r)] ELSE agents[b]]
           /\ scripts' = [scripts EXCEPT ![r.agent] = Recorded(scripts[r.agent], info)]
  <2>1. \/ scripts'[h] = list /\ r.agent # h
        \/ scripts'[h] = Recorded(list, info) /\ r.agent = h
    BY <1>0, <1>2, <1>6
  <2>2. info \in StatusInfo /\ info.slot = r.slot /\ info.fn = Replacement(r)
    BY <1>4 DEF InfoOf
  <2>3. TableLasts(a)'
    <3> SUFFICES ASSUME NEW s \in Slot, NEW ptr, ptr = agents'[a].table[s]
                 PROVE  \/ Lasting(ptr, a)'
                        \/ /\ phase = "running"
                           /\ \E e \in scripts'[h] : e.slot = s /\ e.fn = ptr
      BY <1>1, <1>2 DEF TableLasts
    <3>1. CASE a \in Open(r) /\ s = r.slot
      <4>1. ptr = Replacement(r)
        BY <1>2, <1>6, <3>1 DEF Agent, Table
      <4>2. ptr.home = r.plugin /\ ptr.gen = gen[r.plugin]
        BY <1>3, <4>1, ReplacementType DEF TypeInv
      <4>3. CASE r.plugin # Dev
        <5>1. Lasting(ptr, a)
          BY <1>1, <1>3, <4>2, <4>3 DEF Lasting, IsMapped
        <5> QED
          BY <5>1, LastingKept
      <4>4. CASE r.plugin = Dev
        <5>1. r.agent = h /\ Displaceable(a, r)
          BY <1>3, <3>1, <4>4 DEF Open, Targets
        <5>2. For(list, r.slot) = {}
          <6> SUFFICES ASSUME NEW e \in list, e.slot = r.slot PROVE FALSE
            BY DEF For
          <6>1. Replaced(a, e)
            BY <1>1, <1>2, <4>4 DEF InstalledInv
          <6> QED
            BY <5>1, <6>1 DEF Replaced, Displaceable
        <5>3. \E new \in scripts'[h] : new.slot = s /\ new.fn = ptr
          <6>1. scripts'[h] = Recorded(list, info) /\ For(list, info.slot) = {}
            BY <2>1, <2>2, <5>1, <5>2
          <6>2. PICK new \in Recorded(list, info) : IsEntryOf(new, info)
            BY <1>2, <2>2, <6>1, RecordedEntries
          <6> QED
            BY <2>2, <3>1, <4>1, <6>1, <6>2 DEF IsEntryOf
        <5> QED
          BY <1>1, <4>4, <5>3
      <4> QED
        BY <4>3, <4>4
    <3>2. CASE ~(a \in Open(r) /\ s = r.slot)
      <4>1. ptr = agents[a].table[s]
        BY <1>2, <1>6, <3>2 DEF Agent, Table
      <4>2. CASE Lasting(ptr, a)
        BY <4>2, LastingKept
      <4>3. ASSUME phase = "running", NEW e \in list, e.slot = s, e.fn = ptr
            PROVE  Lasting(ptr, a) \/ e \in scripts'[h]
        <5>1. e \in scripts'[h] \/ e.low
          BY <1>2, <2>1, <2>2, RecordedEntries
        <5>2. e.low => Lasting(ptr, a)
          BY <1>2, <4>3 DEF LowEntries, Lasting
        <5> QED
          BY <5>1, <5>2
      <4> QED
        BY <4>1, <4>2, <4>3, LastingKept DEF UndoInv, TableLasts
    <3> QED
      BY <3>1, <3>2
  <2>4. BackupsLast(a)'
    <3> SUFFICES ASSUME NEW d \in scripts'[h], d.fn.home = Dev
                 PROVE  Lasting(d.backup, a)'
      BY <1>2 DEF BackupsLast
    <3>1. CASE d \in list
      <4>1. Lasting(d.backup, a)
        BY <1>1, <3>1 DEF UndoInv, BackupsLast
      <4> QED
        BY <4>1, LastingKept
    <3>2. CASE d \notin list
      <4>1. r.agent = h /\ d.backup = info.backup
        BY <1>2, <2>1, <2>2, <3>2, RecordedEntries DEF IsEntryOf
      <4>2. CASE d.backup = Null
        BY <4>2 DEF Lasting
      <4>3. ASSUME NEW b \in Open(r), d.backup = agents[b].table[r.slot]
            PROVE  Lasting(d.backup, a)
        <5>1. b \in loadedAgents /\ agents[b].hash = h /\ Displaceable(b, r)
          BY <1>2, <4>1 DEF Open, Targets
        <5>2. b \in AgentId /\ Live(b)
          BY <1>6, <5>1, ListedAgent, AgentType DEF Live
        <5>3. Lasting(d.backup, b)
          BY <4>3, <5>1 DEF Displaceable, Lasting
        <5> QED
          BY <5>1, <5>2, <5>3, LastingShared
      <4> QED
        BY <1>4, <4>1, <4>2, <4>3, LastingKept DEF InfoOf
    <3> QED
      BY <3>1, <3>2
  <2> QED
    BY <2>3, <2>4
<1> QED
  BY <1>4, <1>5, <1>6

\* The removal: what is put back was saved by the development plugin's entry, and
\* lasts; what is left alone was not its.
LEMMA RemovalKept ==
  ASSUME NoDevCommon, UndoInvs, ~ub, ~Threaded, [Next]_vars, RemoveLiveStatuses,
         NEW a \in AgentId, Live(a), ~ub'
  PROVE  TableLasts(a)' /\ BackupsLast(a)'
<1> USE DEF UndoInvs, InstallInvs
<1> DEFINE h    == agents[a].hash
           list == scripts[h]
<1>0. agents \in [AgentId -> Agent \cup {Null}]
  BY DEF TypeInv, TypeOK
<1>1. ~Being(a) /\ ~Being(a)' /\ UNCHANGED scripts
  <2>1. UNCHANGED <<scripts, created, setting>> /\ MayBegin
    BY DEF RemoveLiveStatuses, agentVars
  <2>2. setting = "nothing"
    BY <2>1, NobodyMade
  <2> QED
    BY <2>1, <2>2 DEF Being
<1>2. /\ h \in Key /\ list \in SUBSET StatusInfo /\ agents[a] \in Agent
      /\ agents[a].table \in Table /\ agents'[a].hash = h
      /\ a <= created /\ a \in loadedAgents
  BY LiveAgent, AgentsKept DEF SameAgent, ListedInv
<1>3. TableLasts(a) /\ BackupsLast(a)
  BY DEF UndoInv
<1>4. FromDev(scripts[Common]) = {}
  BY DEF NoDevCommon, FromDev, RegistryInv, Holds, Asked, Key
<1>5. agents'[a].table = Undone(a)
  BY <1>0, <1>2 DEF RemoveLiveStatuses, Agent
<1>6. TableLasts(a)'
  <2> SUFFICES ASSUME NEW s \in Slot, NEW ptr, ptr = agents'[a].table[s]
               PROVE  Lasting(ptr, a)
    BY LastingKept DEF TableLasts
  <2> DEFINE dev == FromDev(list)
  <2>1. dev \in SUBSET StatusInfo
    BY <1>2 DEF FromDev
  <2>2. ptr = IF For(dev, s) = {} THEN agents[a].table[s] ELSE TheOne(dev, s).backup
    BY <1>4, <1>5 DEF Undone, Restored, For
  <2>3. CASE For(dev, s) = {}
    <3>1. \A e \in list : e.slot = s => e.fn.home # Dev
      BY <2>3 DEF For, FromDev
    <3>2. \A e \in list : e.slot = s => Lasting(e.fn, a)
      BY <1>2, <3>1, EntriesLast
    <3> QED
      BY <1>3, <2>2, <2>3, <3>2 DEF TableLasts
  <2>4. CASE For(dev, s) # {}
    <3>1. TheOne(dev, s) \in dev
      BY <2>1, <2>4, TheOneType
    <3> QED
      BY <1>1, <1>3, <2>2, <2>4, <3>1 DEF FromDev, BackupsLast
  <2> QED
    BY <2>3, <2>4
<1>7. BackupsLast(a)'
  <2> SUFFICES ASSUME NEW e \in list, e.fn.home = Dev PROVE Lasting(e.backup, a)
    BY <1>1, <1>2, LastingKept DEF BackupsLast
  <2> QED
    BY <1>1, <1>3 DEF BackupsLast
<1> QED
  BY <1>6, <1>7

\* The original set_status: what the table of the agent being made is filled with
\* is of its module, of "common" or of a plugin that stays.
LEMMA TableKept ==
  ASSUME NoDevCommon, UndoInvs, ~ub, [Next]_vars, SetTable,
         NEW a \in AgentId, Live(a), a = created
  PROVE  TableLasts(a)' /\ BackupsLast(a)'
<1> USE DEF UndoInvs, InstallInvs
<1> DEFINE m     == agents[a].module
           given == [s \in Slot |-> Native(CommonNro, CommonNative[s])]
           under == IF agents[a].hash \in FighterHash
                    THEN Overlay(given, scripts[Common]) ELSE agents[a].table
<1>0. agents \in [AgentId -> Agent \cup {Null}] /\ scripts[Common] \in SUBSET StatusInfo
  BY LiveAgent DEF TypeInv, TypeOK, Key
<1>1. Being(a) /\ Being(a)'
  BY DEF SetTable, Being, agentVars
<1>2. m \in Module /\ agents[a] \in Agent /\ agents[a].gen = gen[m]
  BY LiveAgent DEF VtablesExact, InstanceOf
<1>3. agents'[a].table = [s \in Slot |-> IF Export[m].native[s] = Null THEN under[s]
                                         ELSE Native(m, Export[m].native[s])]
  BY <1>0, <1>2 DEF SetTable, Agent
<1>4. ASSUME NEW s \in Slot, NEW ptr, ptr = under[s] PROVE Lasting(ptr, a)
  <2>1. CASE agents[a].hash \notin FighterHash
    BY <1>1, <1>4, <2>1 DEF UndoInv, TableLasts
  <2>2. CASE agents[a].hash \in FighterHash
    <3>1. ptr = IF For(scripts[Common], s) = {} THEN Native(CommonNro, CommonNative[s])
                ELSE TheOne(scripts[Common], s).fn
      BY <1>4, <2>2 DEF Overlay
    <3>2. CASE For(scripts[Common], s) = {}
      BY <3>1, <3>2 DEF Native, Lasting, OfCommon, Region, CommonInv
    <3>3. CASE For(scripts[Common], s) # {}
      <4>1. TheOne(scripts[Common], s) \in scripts[Common]
        BY <1>0, <3>3, TheOneType
      <4>2. ptr.home # Dev
        BY <3>1, <3>3, <4>1 DEF NoDevCommon, RegistryInv, Holds, Asked, Key
      <4> QED
        BY <3>1, <3>3, <4>1, <4>2, EntriesLast DEF Key
    <3> QED
      BY <3>2, <3>3
  <2> QED
    BY <2>1, <2>2
<1>5. TableLasts(a)'
  <2> SUFFICES ASSUME NEW s \in Slot, NEW ptr, ptr = agents'[a].table[s]
               PROVE  Lasting(ptr, a)
    BY LastingKept DEF TableLasts
  <2>1. CASE Export[m].native[s] = Null
    BY <1>3, <1>4, <2>1
  <2>2. CASE Export[m].native[s] # Null
    BY <1>2, <1>3, <2>2 DEF Native, Lasting, OfAgent, Region, InstanceOf
  <2> QED
    BY <2>1, <2>2
<1> QED
  BY <1>1, <1>5 DEF BackupsLast

\* A new agent runs nothing yet.
LEMMA NewLasts ==
  ASSUME TypeInv, NEW m \in Module, NEW h \in Hash, CreateAgent(m, h),
         NEW a \in AgentId, a = created + 1
  PROVE  TableLasts(a)' /\ BackupsLast(a)'
<1> DEFINE new == [module |-> m, gen |-> gen[m], hash |-> h, alive |-> TRUE,
                   table |-> [s \in Slot |-> Null], waza |-> Null]
<1>1. agents \in [AgentId -> Agent \cup {Null}]
  BY DEF TypeInv, TypeOK
<1>2. agents' = [agents EXCEPT ![a] = new] /\ Being(a)'
  BY DEF CreateAgent, Being
<1>3. agents'[a] = new /\ new.table = [s \in Slot |-> Null]
  BY <1>1, <1>2
<1>4. \A s \in Slot : agents'[a].table[s] = Null
  <2> HIDE DEF new
  <2> QED BY <1>3
<1> QED
  BY <1>2, <1>4 DEF TableLasts, BackupsLast, Lasting

LEMMA NextUndo == NoDevCommon /\ ~Threaded /\ UndoInvs /\ [Next]_vars => UndoInv'
<1> SUFFICES ASSUME NoDevCommon, ~Threaded, UndoInvs, [Next]_vars PROVE UndoInv'
  OBVIOUS
<1> USE DEF UndoInvs, InstallInvs
<1>1. CASE ub
  <2>1. UNCHANGED vars
    BY <1>1, UbStops
  <2> QED
    BY <2>1 DEF vars, UndoInv, Quiet, Live, TableLasts, BackupsLast, Being, Lasting,
                OfCommon, OfAgent, InstanceOf, IsMapped
<1>2. CASE ~ub /\ RemoveLiveStatuses /\ ub'
  BY <1>2 DEF RemoveLiveStatuses, UndoInv, Quiet
<1>3. CASE ~ub /\ ~(RemoveLiveStatuses /\ ub')
  <2> SUFFICES ASSUME NEW a \in AgentId, Live(a)'
               PROVE  TableLasts(a)' /\ BackupsLast(a)'
    BY DEF UndoInv
  <2>1. CASE a = created + 1 /\ \E m \in Module, h \in Hash : CreateAgent(m, h)
    BY <2>1, NewLasts
  <2>2. CASE a <= created /\ Live(a) /\ SameAgent(a)
    <3>1. CASE InstallStatuses
      BY <1>3, <2>2, <3>1, InstallKept
    <3>2. CASE \E r \in Request : ReplaceStatus(r)
      BY <1>3, <2>2, <3>2, RequestKept
    <3>3. CASE RemoveLiveStatuses
      <4>1. ~ub'
        BY <1>3, <3>3 DEF TypeInv, TypeOK
      <4> QED
        BY <1>3, <2>2, <3>3, <4>1, RemovalKept
    <3>4. CASE SetTable /\ a = created
      BY <1>3, <2>2, <3>4, TableKept
    <3>5. CASE /\ ~InstallStatuses /\ ~ \E r \in Request : ReplaceStatus(r)
               /\ ~RemoveLiveStatuses /\ ~(SetTable /\ a = created)
      <4>1. ~LoadCommon
        BY <2>2, NobodyBeforeCommon DEF LoadCommon
      <4>2. agents'[a].table = agents[a].table
        <5>1. CASE SetTable
          BY <3>5, <5>1 DEF SetTable, TypeInv, TypeOK
        <5>2. CASE ~SetTable
          BY <2>2, <3>5, <4>1, <5>2, TablesUntouched
        <5> QED
          BY <5>1, <5>2
      <4>3. Being(a)' <=> Being(a)
        BY <2>2, <3>5, BeingKept
      <4>4. /\ scripts'[agents[a].hash] \in SUBSET scripts[agents[a].hash]
            /\ phase = "running" => scripts'[agents[a].hash] = scripts[agents[a].hash]
        BY <2>2, <3>5, <4>1, LiveAgent, HashListsKept
      <4>5. phase = "running" => phase' = "running"
        BY <3>5, PhaseUntouched DEF LoadDev, PurgeStatuses, UnloadDev
      <4> QED
        BY <1>3, <2>2, <4>2, <4>3, <4>4, <4>5, UntouchedKept
    <3> QED
      BY <3>1, <3>2, <3>3, <3>4, <3>5
  <2> QED
    BY <2>1, <2>2, LiveBefore
<1> QED
  BY <1>1, <1>2, <1>3

LEMMA UndoInvsImply == UndoInvs => OnlyLowDangle
<1> SUFFICES ASSUME UndoInvs, Quiet, NEW a \in AgentId, NEW s \in Slot, Live(a),
                    NEW ptr, ptr = agents[a].table[s], ptr # Null, ~IsMapped(ptr)
             PROVE  LowGiven(ptr)
  BY DEF OnlyLowDangle, LowGiven
<1> USE DEF UndoInvs, InstallInvs
<1>1. agents[a].hash \in Key /\ agents[a].module \in Module
  BY LiveAgent
<1>2. ~ \E e \in scripts[agents[a].hash] : e.fn = ptr
  BY <1>1 DEF RegistryInv, Holds
<1>3. Lasting(ptr, a)
  BY <1>2 DEF UndoInv, TableLasts
<1>4. ~OfCommon(ptr)
  BY NobodyBeforeCommon DEF CommonInv, OfCommon, Region, IsMapped
<1>5. ~OfAgent(ptr, a)
  BY <1>1 DEF VtablesExact, OfAgent, Region, InstanceOf, IsMapped
<1> QED
  BY <1>3, <1>4, <1>5 DEF Lasting

\* OnlyLowDangle, over every run with one thread in which the development plugin
\* leaves the scripts of all fighters alone, so that no slot is Exposed: of all
\* that an uninstall leaves in live agents nothing points into the plugin but what
\* it gave with low priority.
THEOREM HighTakenBack ==
  ASSUME NoDevCommon, ~Threaded PROVE Spec => []OnlyLowDangle
<1>1. Init => UndoInvs
  <2>1. ASSUME Init PROVE \A a \in AgentId : ~Live(a)
    BY <2>1 DEF Init, Live
  <2>2. Init => InstalledInv /\ ListedInv /\ LowEntries /\ MakingInv /\ UndoInv
    BY <2>1 DEF Init, InstalledInv, ListedInv, LowEntries, MakingInv, UndoInv
  <2> QED
    BY <2>2, InitTypeInv, InitCommon, InitRegistry DEF UndoInvs, InstallInvs
<1>2. UndoInvs /\ [Next]_vars => UndoInvs'
  <2> SUFFICES ASSUME UndoInvs, [Next]_vars PROVE UndoInvs'
    OBVIOUS
  <2>1. TypeInv' /\ CommonInv' /\ VtablesExact' /\ RegistryInv' /\ InstalledInv'
    BY NextTypeInv, NextCommon, NextVtables, NextRegistry, NextInstalled
    DEF UndoInvs, InstallInvs
  <2>2. ListedInv' /\ LowEntries' /\ MakingInv' /\ UndoInv'
    BY NextListed, NextLow, NextMaking, NextUndo DEF UndoInvs, InstallInvs
  <2> QED
    BY <2>1, <2>2 DEF UndoInvs, InstallInvs
<1> QED
  BY <1>1, <1>2, UndoInvsImply, PTL DEF Spec
=============================================================================
