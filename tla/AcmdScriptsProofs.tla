------------------------- MODULE AcmdScriptsProofs -------------------------
(***************************************************************************)
(* Theorems about AcmdScripts, for every number of agents, scripts, fighter *)
(* modules and plugins and every set of requests, whether the threads       *)
(* interleave or not.                                                       *)
(***************************************************************************)
EXTENDS AcmdScripts, WellFoundedInduction, TLAPS

-----------------------------------------------------------------------------
(* The values the state is made of.                                        *)

\* Every non-empty set of agents has one created last.
LEMMA LastAgent ==
  ASSUME NEW S \in SUBSET AgentId, S # {}
  PROVE  \E a \in S : \A b \in S : b <= a
<1> DEFINE R == OpToRel(<, Nat)
           T == {MaxAgents - a : a \in S}
<1>1. /\ MaxAgents \in Nat
      /\ \A a \in S : a \in Nat /\ MaxAgents - a \in Nat
  BY BoundsAssumption DEF AgentId
<1>2. T \subseteq Nat /\ T # {}
  BY <1>1
<1>3. IsWellFoundedOn(R, Nat)
  BY NatLessThanWellFounded
<1>4. \E x \in T : \A y \in T : ~ (<<y, x>> \in R)
  <2> HIDE DEF R, T
  <2> QED BY <1>2, <1>3, WFMin
<1>5. PICK a \in S : \A b \in S : ~ (<<MaxAgents - b, MaxAgents - a>> \in R)
  BY <1>4
<1>6. \A b \in S : ~ (MaxAgents - b < MaxAgents - a)
  BY <1>1, <1>5 DEF OpToRel
<1> QED
  BY <1>1, <1>6

\* Installing a list of entries over a function table gives a function table.
LEMMA OverlayType ==
  ASSUME NEW table \in Table, NEW list \in SUBSET ScriptInfo
  PROVE  Overlay(table, list) \in Table
<1>1. ASSUME NEW s \in Script
      PROVE  (IF \E e \in list : e.script = s
              THEN (CHOOSE e \in list : e.script = s).fn
              ELSE table[s]) \in Pointer \cup {Null}
  <2>1. CASE \E e \in list : e.script = s
    <3>1. (CHOOSE e \in list : e.script = s) \in ScriptInfo
      BY <2>1
    <3> QED
      BY <2>1, <3>1 DEF ScriptInfo
  <2> QED
    BY <2>1 DEF Table
<1> QED
  BY <1>1 DEF Overlay, Table

\* So does putting the originals of a list back.
LEMMA RestoredType ==
  ASSUME NEW table \in Table, NEW list \in SUBSET ScriptInfo
  PROVE  Restored(table, list) \in Table
<1>1. ASSUME NEW s \in Script
      PROVE  (IF \E e \in list : e.script = s
              THEN (CHOOSE e \in list : e.script = s).backup
              ELSE table[s]) \in Pointer \cup {Null}
  <2>1. CASE \E e \in list : e.script = s
    <3>1. (CHOOSE e \in list : e.script = s) \in ScriptInfo
      BY <2>1
    <3> QED
      BY <2>1, <3>1 DEF ScriptInfo
  <2> QED
    BY <2>1 DEF Table
<1> QED
  BY <1>1 DEF Restored, Table

\* Saving what a list displaces from a table changes nothing but the backups.
LEMMA SavedType ==
  ASSUME NEW table \in Table, NEW list \in SUBSET ScriptInfo
  PROVE  /\ Saved(list, table) \in SUBSET ScriptInfo
         /\ \A d \in Saved(list, table) : \E e \in list :
              d = [e EXCEPT !.backup = table[e.script]]
         /\ \A e \in list : [e EXCEPT !.backup = table[e.script]] \in Saved(list, table)
<1>1. \A e \in list : [e EXCEPT !.backup = table[e.script]] \in ScriptInfo
  BY DEF ScriptInfo, Table
<1> QED
  BY <1>1 DEF Saved

\* The functions of a module's own, once it is loaded.
LEMMA NativeTableType ==
  ASSUME NEW f \in Factory, gen \in [Home -> 0..MaxGen]
  PROVE  NativeTable(f) \in Table
<1>1. f \in FactoryType
  BY DataAssumption
<1> QED
  BY <1>1 DEF NativeTable, Table, FactoryType, Pointer, Home

-----------------------------------------------------------------------------
(* Type correctness.                                                       *)

\* What the agent created last among some had for a script is a function.
LEMMA SavedByType ==
  ASSUME TypeOK, NEW S \in SUBSET (1..created), NEW s \in Script
  PROVE  SavedBy(S, s) \in Pointer \cup {Null}
<1>1. CASE S = {}
  BY <1>1 DEF SavedBy
<1>2. CASE S # {}
  <2> DEFINE last == CHOOSE a \in S : \A b \in S : b <= a
  <2>1. S \in SUBSET AgentId
    BY BoundsAssumption DEF TypeOK, AgentId
  <2>2. last \in S
    BY <1>2, <2>1, LastAgent
  <2>3. last \in AgentId /\ last <= created
    <3>1. created \in 0..MaxAgents
      BY DEF TypeOK
    <3>2. last \in 1..created
      BY <2>2
    <3> HIDE DEF last
    <3> QED
      BY <3>1, <3>2, BoundsAssumption DEF AgentId
  <2>4. agents[last].table[s] \in Pointer \cup {Null}
    <3>1. agents[last] \in Agent
      BY <2>3 DEF TypeOK
    <3> QED
      BY <3>1 DEF Agent, Table
  <2> QED
    BY <1>2, <2>4 DEF SavedBy
<1> QED
  BY <1>1, <1>2

\* An agent of the game is a record of a module's export.
LEMMA AgentType ==
  ASSUME TypeOK, NEW a \in AgentId, a <= created
  PROVE  /\ agents[a] \in Agent
         /\ agents[a].hash \in Hash /\ agents[a].table \in Table
         /\ CategoryOf(a) \in Category /\ agents[a].factory.module \in Module
         /\ ScriptsOf(a) \in SUBSET ScriptInfo
<1>1. agents[a] \in Agent
  BY DEF TypeOK
<1>2. agents[a].factory \in FactoryType
  BY <1>1, DataAssumption DEF Agent
<1>3. agents[a].hash \in Hash /\ agents[a].table \in Table
  BY <1>1 DEF Agent
<1>4. CategoryOf(a) \in Category /\ agents[a].factory.module \in Module
  BY <1>2 DEF FactoryType, CategoryOf
<1> QED
  BY <1>1, <1>3, <1>4 DEF TypeOK, ScriptsOf

\* TypeOK at the start, before any plugin or module is loaded.
LEMMA InitTypeOK == Init => TypeOK
<1> SUFFICES ASSUME Init PROVE TypeOK
  OBVIOUS
<1>1. gen \in [Home -> 0..MaxGen] /\ mapped \subseteq Home
  BY BoundsAssumption DEF Init, Home
<1>2. /\ agents \in [AgentId -> Agent \cup {Null}] /\ created \in 0..MaxAgents
      /\ \A a \in AgentId : agents[a] # Null <=> a <= created
      /\ loadedAgents \subseteq 1..created
      /\ creating \in (1..created) \cup {Null} /\ todo \subseteq 1..created
  BY BoundsAssumption DEF Init, AgentId
<1>3. /\ scripts \in [Category -> [Hash \cup {Common} -> SUBSET ScriptInfo]]
      /\ pending \in [Plugin -> Pending \cup {Null}] /\ issued \subseteq Request
  BY DEF Init
<1>4. /\ phase \in {"unloaded", "running", "restoring", "purged"}
      /\ customEhMem \subseteq Plugin \X (0..MaxGen) /\ ub \in BOOLEAN
  BY DEF Init
<1> QED
  BY <1>1, <1>2, <1>3, <1>4 DEF TypeOK

\* Every step of the game, of a plugin and of the loader keeps the types.
THEOREM NextTypeOK == TypeOK /\ [Next]_vars => TypeOK'
<1> SUFFICES ASSUME TypeOK, [Next]_vars PROVE TypeOK'
  OBVIOUS
<1> USE BoundsAssumption
<1>0. /\ gen \in [Home -> 0..MaxGen] /\ mapped \subseteq Home
      /\ agents \in [AgentId -> Agent \cup {Null}] /\ created \in 0..MaxAgents
      /\ \A a \in AgentId : agents[a] # Null <=> a <= created
      /\ loadedAgents \subseteq 1..created
      /\ creating \in (1..created) \cup {Null} /\ todo \subseteq 1..created
  BY DEF TypeOK
<1>1. ASSUME NEW m \in Module, NroLoad(m) PROVE TypeOK'
  <2>1. gen' \in [Home -> 0..MaxGen] /\ mapped' \subseteq Home
    BY <1>0, <1>1 DEF NroLoad, Home
  <2> QED
    BY <1>1, <2>1 DEF NroLoad, pluginVars, loaderVars, TypeOK
<1>2. ASSUME NEW m \in Module, NroUnload(m) PROVE TypeOK'
  <2>1. mapped' \subseteq Home /\ loadedAgents' \subseteq 1..created
    BY <1>0, <1>2 DEF NroUnload, Cleared
  <2> QED
    BY <1>2, <2>1 DEF NroUnload, pluginVars, loaderVars, TypeOK
<1>3. ASSUME NEW f \in Factory, NEW h \in f.hashes, CreateAgent(f, h)
      PROVE  TypeOK'
  <2> DEFINE new == [factory |-> f, hash |-> h, gen |-> gen[f.module],
                     alive |-> TRUE, table |-> NativeTable(f)]
  <2>1. f \in FactoryType
    BY DataAssumption
  <2>2. new \in Agent
    <3>1. NativeTable(f) \in Table
      BY <1>0, NativeTableType
    <3>2. h \in Hash /\ f.module \in Home
      BY <2>1 DEF FactoryType, Home
    <3> QED
      BY <1>0, <3>1, <3>2 DEF Agent
  <2>3. /\ created' = created + 1 /\ created' \in 0..MaxAgents
        /\ created + 1 \in AgentId
    BY <1>0, <1>3 DEF CreateAgent, AgentId
  <2>4. agents' = [agents EXCEPT ![created + 1] = new]
    BY <1>3 DEF CreateAgent
  <2>5. agents' \in [AgentId -> Agent \cup {Null}]
    <3> HIDE DEF new
    <3> QED BY <1>0, <2>2, <2>3, <2>4
  <2>6. \A a \in AgentId : agents'[a] # Null <=> a <= created'
    <3>1. new # Null
      BY <2>2, NamesAssumption
    <3> HIDE DEF new
    <3> QED BY <1>0, <2>3, <2>4, <3>1 DEF AgentId
  <2>7. /\ loadedAgents' \subseteq 1..created' /\ creating' \in (1..created') \cup {Null}
        /\ todo' \subseteq 1..created'
    BY <1>0, <1>3, <2>3 DEF CreateAgent, loaderVars
  <2> QED
    BY <1>3, <2>3, <2>5, <2>6, <2>7
    DEF CreateAgent, pluginVars, loaderVars, TypeOK
<1>4. ASSUME EquipAgent PROVE TypeOK'
  <2> DEFINE c      == CategoryOf(creating)
             h      == agents[creating].hash
             common == Overlay(agents[creating].table, scripts[c][Common])
             table  == Overlay(common, scripts[c][h])
  <2>1. creating \in AgentId /\ creating <= created
    BY <1>0, <1>4 DEF EquipAgent, AgentId
  <2>2. /\ agents[creating] \in Agent /\ agents[creating].table \in Table
        /\ c \in Category /\ h \in Hash
    BY <2>1, AgentType
  <2>3. scripts[c][Common] \in SUBSET ScriptInfo /\ scripts[c][h] \in SUBSET ScriptInfo
    BY <2>2 DEF TypeOK
  <2>4. common \in Table
    BY <2>2, <2>3, OverlayType
  <2>5. table \in Table /\ Saved(scripts[c][h], common) \in SUBSET ScriptInfo
    <3> HIDE DEF common
    <3> QED BY <2>3, <2>4, OverlayType, SavedType
  <2>6. /\ agents'  = [agents EXCEPT ![creating].table = table]
        /\ scripts' = [scripts EXCEPT ![c][h] = Saved(scripts[c][h], common)]
    BY <1>4 DEF EquipAgent
  <2>7. /\ agents' \in [AgentId -> Agent \cup {Null}]
        /\ \A a \in AgentId : agents'[a] # Null <=> a <= created
    <3> DEFINE new == [agents[creating] EXCEPT !.table = table]
    <3>1. new \in Agent
      <4> HIDE DEF table
      <4> QED BY <2>2, <2>5 DEF Agent
    <3>2. new # Null
      BY <3>1, NamesAssumption
    <3>3. agents' = [agents EXCEPT ![creating] = new]
      BY <2>6
    <3> HIDE DEF new
    <3> QED BY <1>0, <2>1, <3>1, <3>2, <3>3
  <2>8. scripts' \in [Category -> [Hash \cup {Common} -> SUBSET ScriptInfo]]
    <3> HIDE DEF common, c, h
    <3> QED BY <2>2, <2>5, <2>6 DEF TypeOK
  <2> QED
    BY <1>4, <2>7, <2>8 DEF EquipAgent, pluginVars, loaderVars, TypeOK
<1>5. ASSUME NEW a \in AgentId, DestroyAgent(a) PROVE TypeOK'
  <2>1. /\ agents' \in [AgentId -> Agent \cup {Null}]
        /\ \A b \in AgentId : agents'[b] # Null <=> b <= created
    <3> DEFINE new == [agents[a] EXCEPT !.alive = FALSE]
    <3>1. agents[a] \in Agent
      BY <1>0, <1>5 DEF DestroyAgent
    <3>2. new \in Agent
      BY <3>1 DEF Agent
    <3>3. new # Null /\ agents[a] # Null
      BY <1>5, <3>2, NamesAssumption DEF DestroyAgent
    <3>4. agents' = [agents EXCEPT ![a] = new]
      BY <1>5 DEF DestroyAgent
    <3> HIDE DEF new
    <3> QED BY <1>0, <3>2, <3>3, <3>4
  <2> QED
    BY <1>5, <2>1 DEF DestroyAgent, pluginVars, loaderVars, TypeOK
<1>6. ASSUME NEW r \in Request, InstallLive(r) PROVE TypeOK'
  <2> DEFINE ptr  == [home |-> r.plugin, gen |-> gen[r.plugin], fn |-> r.fn]
             open == {a \in Targets(r) : Displaceable(a, r.script)}
             info == [script |-> r.script, low |-> r.low, fn |-> ptr,
                      backup |-> SavedBy(open, r.script)]
             new  == [agent |-> r.agent, category |-> r.category, info |-> info]
  <2>1. /\ r.plugin \in Plugin /\ r.agent \in Hash \cup {Common}
        /\ r.script \in Script /\ r.category \in Category
        /\ r.low \in BOOLEAN /\ r.fn \in Fn
    BY DataAssumption DEF RequestType
  <2>2. ptr \in Pointer /\ gen[r.plugin] \in 0..MaxGen
    BY <1>0, <2>1 DEF Pointer, Home
  <2>3. open \in SUBSET (1..created)
    BY <1>0 DEF Targets
  <2>4. info \in ScriptInfo
    <3>1. SavedBy(open, r.script) \in Pointer \cup {Null}
      <4> HIDE DEF open
      <4> QED BY <2>1, <2>3, SavedByType
    <3> HIDE DEF ptr, open
    <3> QED BY <2>1, <2>2, <3>1 DEF ScriptInfo
  <2>5. new \in Pending
    <3> HIDE DEF info
    <3> QED BY <2>1, <2>4 DEF Pending
  <2>6. /\ customEhMem' = customEhMem \cup {Region(ptr)}
        /\ issued' = issued \cup {r}
        /\ agents' = agents \/ agents' = [a \in AgentId |->
             IF a \in open THEN [agents[a] EXCEPT !.table[r.script] = ptr]
             ELSE agents[a]]
        /\ pending' = pending \/ pending' = [pending EXCEPT ![r.plugin] = new]
        /\ ub' \in BOOLEAN
        /\ UNCHANGED <<gen, mapped, created, loadedAgents, scripts, creating, loaderVars>>
    BY <1>6 DEF InstallLive, TypeOK
  <2>7. customEhMem' \subseteq Plugin \X (0..MaxGen)
    BY <2>1, <2>2, <2>6 DEF TypeOK, Region
  <2>8. /\ agents' \in [AgentId -> Agent \cup {Null}]
        /\ \A a \in AgentId : agents'[a] # Null <=> a <= created
    <3>1. \A a \in open : /\ a \in AgentId /\ agents[a] # Null
                          /\ [agents[a] EXCEPT !.table[r.script] = ptr] \in Agent
      <4>1. TAKE a \in open
      <4>2. a \in AgentId /\ a <= created
        <5> HIDE DEF open
        <5> QED BY <1>0, <2>3 DEF AgentId
      <4>3. agents[a] \in Agent /\ agents[a] # Null
        BY <1>0, <4>2, AgentType
      <4> HIDE DEF ptr, open
      <4> QED BY <2>1, <2>2, <4>2, <4>3 DEF Agent, Table
    <3>2. \A a \in open : [agents[a] EXCEPT !.table[r.script] = ptr] # Null
      BY <3>1, NamesAssumption
    <3> HIDE DEF ptr, open
    <3> QED BY <1>0, <2>6, <3>1, <3>2
  <2>9. pending' \in [Plugin -> Pending \cup {Null}] /\ issued' \subseteq Request
    <3> HIDE DEF new
    <3> QED BY <2>5, <2>6 DEF TypeOK
  <2> QED
    BY <2>6, <2>7, <2>8, <2>9 DEF loaderVars, TypeOK
<1>7. ASSUME NEW p \in Plugin, RecordScript(p) PROVE TypeOK'
  <2> DEFINE q == pending[p]
  <2>1. q \in Pending /\ pending' = [pending EXCEPT ![p] = Null]
    BY <1>7 DEF RecordScript, TypeOK
  <2>2. /\ q.category \in Category /\ q.agent \in Hash \cup {Common}
        /\ q.info \in ScriptInfo
    BY <2>1 DEF Pending
  <2>3. scripts[q.category][q.agent] \in SUBSET ScriptInfo
    BY <2>2 DEF TypeOK
  <2>4. Recorded(scripts[q.category][q.agent], q.info) \in SUBSET ScriptInfo
    BY <2>2, <2>3 DEF Recorded
  <2>5. scripts' = [scripts EXCEPT ![q.category][q.agent] =
                      Recorded(scripts[q.category][q.agent], q.info)]
    BY <1>7 DEF RecordScript
  <2>6. scripts' \in [Category -> [Hash \cup {Common} -> SUBSET ScriptInfo]]
    <3> HIDE DEF q
    <3> QED BY <2>2, <2>4, <2>5 DEF TypeOK
  <2>7. pending' \in [Plugin -> Pending \cup {Null}]
    BY <2>1 DEF TypeOK
  <2> QED
    BY <1>7, <2>6, <2>7 DEF RecordScript, loaderVars, TypeOK
<1>8. ASSUME LoadDev PROVE TypeOK'
  <2>1. gen' \in [Home -> 0..MaxGen] /\ mapped' \subseteq Home
    BY <1>0, <1>8, NamesAssumption DEF LoadDev, Home
  <2> QED
    BY <1>8, <2>1 DEF LoadDev, pluginVars, TypeOK
<1>9. ASSUME BeginUninstall PROVE TypeOK'
  BY <1>0, <1>9 DEF BeginUninstall, pluginVars, TypeOK
<1>10. ASSUME NEW a \in AgentId, RestoreAgent(a) PROVE TypeOK'
  <2> DEFINE list == FromDev(ScriptsOf(a))
             new  == [agents[a] EXCEPT !.table = Restored(agents[a].table, list)]
  <2>1. a <= created
    BY <1>0, <1>10 DEF RestoreAgent
  <2>2. /\ agents[a] \in Agent /\ agents[a].table \in Table
        /\ list \in SUBSET ScriptInfo
    BY <2>1, AgentType DEF FromDev
  <2>3. new \in Agent
    <3>1. Restored(agents[a].table, list) \in Table
      <4> HIDE DEF list
      <4> QED BY <2>2, RestoredType
    <3> HIDE DEF list
    <3> QED BY <2>2, <3>1 DEF Agent
  <2>4. new # Null /\ agents[a] # Null
    BY <1>0, <2>1, <2>3, NamesAssumption
  <2>5. /\ agents' = agents \/ agents' = [agents EXCEPT ![a] = new]
        /\ todo' = todo \ {a} /\ ub' \in BOOLEAN
        /\ UNCHANGED <<gen, mapped, created, loadedAgents, scripts, creating,
                       pluginVars, phase>>
    BY <1>10 DEF RestoreAgent, TypeOK
  <2>6. /\ agents' \in [AgentId -> Agent \cup {Null}]
        /\ \A b \in AgentId : agents'[b] # Null <=> b <= created
    <3> HIDE DEF new
    <3> QED BY <1>0, <2>3, <2>4, <2>5
  <2>7. todo' \subseteq 1..created
    BY <1>0, <2>5
  <2> QED
    BY <2>5, <2>6, <2>7 DEF pluginVars, TypeOK
<1>11. ASSUME PurgeScripts PROVE TypeOK'
  <2>1. scripts' \in [Category -> [Hash \cup {Common} -> SUBSET ScriptInfo]]
    BY <1>11 DEF PurgeScripts, Purged, TypeOK
  <2> QED
    BY <1>11, <2>1 DEF PurgeScripts, pluginVars, TypeOK
<1>12. ASSUME UnloadDev PROVE TypeOK'
  <2>1. mapped' \subseteq Home /\ customEhMem' \subseteq Plugin \X (0..MaxGen)
    BY <1>12 DEF UnloadDev, Registered, TypeOK
  <2> QED
    BY <1>12, <2>1 DEF UnloadDev, TypeOK
<1>13. ASSUME UNCHANGED vars PROVE TypeOK'
  BY <1>13 DEF vars, pluginVars, loaderVars, TypeOK
<1> QED
  BY <1>1, <1>2, <1>3, <1>4, <1>5, <1>6, <1>7, <1>8, <1>9, <1>10, <1>11,
     <1>12, <1>13 DEF Next, Game, Plugins, Loader

\* TypeOK, over every run: no operation on the agents, the registries or the
\* development plugin leaves the state malformed.
THEOREM TypeCorrect == Spec => []TypeOK
  BY InitTypeOK, NextTypeOK, PTL DEF Spec

-----------------------------------------------------------------------------
(* The registry.                                                           *)

\* A function of a plugin that is in memory and that the unwinder knows.
Known(ptr) == ptr.home \in Plugin /\ IsMapped(ptr) /\ Region(ptr) \in customEhMem

\* What makes the registry's properties inductive: the functions of the entries
\* and of the infos on their way to them are known, the regions the unwinder
\* knows are mapped, and how far the unloading of the development plugin is.
RegistryInv ==
  /\ ScriptsUnique
  /\ \A e \in Entries : Known(e.fn)
  /\ \A p \in Plugin : pending[p] # Null =>
       Known(pending[p].info.fn) /\ pending[p].info.fn.home = p
  /\ \A r \in customEhMem : r[1] \in mapped /\ r[2] = gen[r[1]]
  /\ phase \in {"purged", "unloaded"} => \A e \in Entries : e.fn.home # Dev
  /\ phase # "running" => pending[Dev] = Null
  /\ phase = "unloaded" <=> Dev \notin mapped
  /\ Plugin \ {Dev} \subseteq mapped

\* One entry per script: ScriptsUnique, of one list.
Unique(list) == \A d, e \in list : d.script = e.script => d = e

\* Recording keeps a list so, and takes nothing in but what it is given.
LEMMA RecordedUnique ==
  ASSUME NEW list, NEW info, Unique(list)
  PROVE  /\ Unique(Recorded(list, info))
         /\ Recorded(list, info) \subseteq list \cup {info}
BY DEF Unique, Recorded, SameScript

\* So does saving what the entries displace, which keeps their functions.
LEMMA SavedUnique ==
  ASSUME NEW table \in Table, NEW list \in SUBSET ScriptInfo, Unique(list)
  PROVE  /\ Unique(Saved(list, table))
         /\ \A d \in Saved(list, table) : \E e \in list :
              d.script = e.script /\ d.fn = e.fn /\ d.low = e.low
<1>1. \A e \in list : /\ [e EXCEPT !.backup = table[e.script]].script = e.script
                      /\ [e EXCEPT !.backup = table[e.script]].fn = e.fn
                      /\ [e EXCEPT !.backup = table[e.script]].low = e.low
  BY DEF ScriptInfo
<1>2. \A d \in Saved(list, table) : \E e \in list :
        d = [e EXCEPT !.backup = table[e.script]]
  BY SavedType
<1>3. \A d \in Saved(list, table) : \E e \in list :
        /\ d = [e EXCEPT !.backup = table[e.script]]
        /\ d.script = e.script /\ d.fn = e.fn /\ d.low = e.low
  BY <1>1, <1>2
<1> QED
  BY <1>3 DEF Unique

\* It implies the properties of the registry that the runs check.
LEMMA RegistryInvImplies ==
  RegistryInv => ScriptsUnique /\ EntriesMapped /\ EhMemExact
BY DEF RegistryInv, EntriesMapped, EhMemExact, Known

\* RegistryInv at the start: nothing is recorded, only resident plugins are there.
LEMMA InitRegistry == Init => RegistryInv
<1> SUFFICES ASSUME Init PROVE RegistryInv
  OBVIOUS
<1>1. Entries = {}
  BY DEF Init, Entries
<1> QED
  BY <1>1, NamesAssumption DEF Init, RegistryInv, ScriptsUnique

\* A step that leaves the registry, the plugins and their regions alone.
LEMMA RegistryUntouched ==
  ASSUME TypeOK, RegistryInv,
         UNCHANGED <<scripts, pending, customEhMem, phase>>,
         \A p \in Plugin : gen'[p] = gen[p] /\ (p \in mapped' <=> p \in mapped)
  PROVE  RegistryInv'
<1>1. \A ptr : Known(ptr) => Known(ptr)'
  BY DEF Known, IsMapped, Region
<1>2. Entries' = Entries /\ ScriptsUnique'
  BY DEF RegistryInv, Entries, ScriptsUnique
<1>3. \A r \in customEhMem' : r[1] \in mapped' /\ r[2] = gen'[r[1]]
  BY DEF RegistryInv, TypeOK
<1> QED
  BY <1>1, <1>2, <1>3, NamesAssumption DEF RegistryInv

\* RegistryInv, step by step: requests, uninstallations and the loads in between
\* (acmd.rs:90-167).
LEMMA NextRegistry == TypeOK /\ RegistryInv /\ [Next]_vars => RegistryInv'
<1> SUFFICES ASSUME TypeOK, RegistryInv, [Next]_vars PROVE RegistryInv'
  OBVIOUS
<1>1. ASSUME NEW m \in Module, NroLoad(m) PROVE RegistryInv'
  <2>1. m \notin Plugin
    BY NamesAssumption
  <2> QED
    BY <1>1, <2>1, RegistryUntouched DEF NroLoad, pluginVars, loaderVars, TypeOK, Home
<1>2. ASSUME NEW m \in Module, NroUnload(m) PROVE RegistryInv'
  <2>1. m \notin Plugin
    BY NamesAssumption
  <2> QED
    BY <1>2, <2>1, RegistryUntouched DEF NroUnload, pluginVars, loaderVars
<1>3. ASSUME NEW f \in Factory, NEW h \in f.hashes, CreateAgent(f, h)
      PROVE  RegistryInv'
  BY <1>3, RegistryUntouched DEF CreateAgent, pluginVars, loaderVars
<1>4. ASSUME EquipAgent PROVE RegistryInv'
  <2> DEFINE c      == CategoryOf(creating)
             h      == agents[creating].hash
             common == Overlay(agents[creating].table, scripts[c][Common])
  <2>1. creating \in AgentId /\ creating <= created
    BY <1>4, BoundsAssumption DEF EquipAgent, AgentId, TypeOK
  <2>2. c \in Category /\ h \in Hash /\ agents[creating].table \in Table
    BY <2>1, AgentType
  <2>3. scripts[c][Common] \in SUBSET ScriptInfo /\ scripts[c][h] \in SUBSET ScriptInfo
    BY <2>2 DEF TypeOK
  <2>4. common \in Table
    BY <2>2, <2>3, OverlayType
  <2>5. scripts' = [scripts EXCEPT ![c][h] = Saved(scripts[c][h], common)]
    BY <1>4 DEF EquipAgent
  <2>6. /\ Unique(Saved(scripts[c][h], common))
        /\ \A d \in Saved(scripts[c][h], common) : \E e \in scripts[c][h] : d.fn = e.fn
    <3>1. Unique(scripts[c][h])
      BY <2>2 DEF RegistryInv, ScriptsUnique, Unique
    <3> HIDE DEF c, h, common
    <3> QED BY <2>3, <2>4, <3>1, SavedUnique
  <2>7. ScriptsUnique'
    <3> HIDE DEF c, h, common
    <3> QED BY <2>2, <2>5, <2>6 DEF RegistryInv, ScriptsUnique, Unique, TypeOK
  <2>8. \A d \in Entries' : \E e \in Entries : d.fn = e.fn
    <3> HIDE DEF c, h, common
    <3> QED BY <2>2, <2>5, <2>6 DEF Entries, TypeOK
  <2>9. UNCHANGED <<gen, mapped, pending, customEhMem, phase>>
    BY <1>4 DEF EquipAgent, pluginVars, loaderVars
  <2> QED
    BY <2>7, <2>8, <2>9 DEF RegistryInv, Known, IsMapped, Region
<1>5. ASSUME NEW a \in AgentId, DestroyAgent(a) PROVE RegistryInv'
  BY <1>5, RegistryUntouched DEF DestroyAgent, pluginVars, loaderVars
<1>6. ASSUME NEW r \in Request, InstallLive(r) PROVE RegistryInv'
  <2> DEFINE ptr == [home |-> r.plugin, gen |-> gen[r.plugin], fn |-> r.fn]
  <2>1. r.plugin \in Plugin /\ r.plugin \in mapped
    BY <1>6, DataAssumption DEF InstallLive, RequestType
  <2>2. /\ customEhMem' = customEhMem \cup {Region(ptr)}
        /\ UNCHANGED <<gen, mapped, scripts, phase>>
        /\ r.plugin = Dev => phase = "running"
    BY <1>6 DEF InstallLive, loaderVars
  <2>3. /\ ptr.home = r.plugin /\ ptr.home \in Plugin /\ ptr.home \in mapped'
        /\ ptr.gen = gen'[ptr.home] /\ <<ptr.home, ptr.gen>> \in customEhMem'
    BY <2>1, <2>2 DEF Known, IsMapped, Region
  <2>4. \A f : Known(f) => Known(f)'
    BY <2>2 DEF Known, IsMapped, Region
  <2>5. \A q \in customEhMem' : q[1] \in mapped' /\ q[2] = gen'[q[1]]
    BY <2>1, <2>2 DEF RegistryInv, Region
  <2>6. /\ \A p \in Plugin \ {r.plugin} : pending'[p] = pending[p]
        /\ pending'[r.plugin] = pending[r.plugin] \/ pending'[r.plugin].info.fn = ptr
    <3>1. pending' = pending \/ \E q : q.info.fn = ptr /\ pending' = [pending EXCEPT ![r.plugin] = q]
      BY <1>6 DEF InstallLive
    <3> HIDE DEF ptr
    <3> QED BY <2>1, <3>1 DEF TypeOK
  <2>7. Entries' = Entries /\ ScriptsUnique'
    BY <2>2 DEF RegistryInv, Entries, ScriptsUnique
  <2> HIDE DEF ptr
  <2>8. ASSUME NEW p \in Plugin, pending'[p] # Null
        PROVE  Known(pending[p].info.fn)' /\ pending'[p].info.fn.home = p
    <3>1. CASE pending'[p] = pending[p]
      BY <2>2, <2>8, <3>1 DEF RegistryInv, Known, IsMapped, Region
    <3>2. CASE p = r.plugin /\ pending'[p].info.fn = ptr
      BY <2>3, <3>2 DEF Known, IsMapped, Region
    <3> QED
      BY <2>6, <3>1, <3>2
  <2>9. phase' # "running" => pending'[Dev] = Null
    BY <2>2, <2>6, NamesAssumption DEF RegistryInv
  <2> QED
    BY <2>2, <2>4, <2>5, <2>7, <2>8, <2>9 DEF RegistryInv
<1>7. ASSUME NEW p \in Plugin, RecordScript(p) PROVE RegistryInv'
  <2> DEFINE q == pending[p]
  <2>1. /\ q \in Pending /\ q # Null /\ pending' = [pending EXCEPT ![p] = Null]
        /\ UNCHANGED <<gen, mapped, customEhMem, phase>>
    BY <1>7 DEF RecordScript, TypeOK, loaderVars
  <2>2. q.category \in Category /\ q.agent \in Hash \cup {Common}
    BY <2>1 DEF Pending
  <2>3. scripts' = [scripts EXCEPT ![q.category][q.agent] =
                      Recorded(scripts[q.category][q.agent], q.info)]
    BY <1>7 DEF RecordScript
  <2>4. /\ Unique(Recorded(scripts[q.category][q.agent], q.info))
        /\ Recorded(scripts[q.category][q.agent], q.info)
             \subseteq scripts[q.category][q.agent] \cup {q.info}
    <3>1. Unique(scripts[q.category][q.agent])
      BY <2>2 DEF RegistryInv, ScriptsUnique, Unique
    <3> QED BY <3>1, RecordedUnique
  <2>5. Known(q.info.fn) /\ q.info.fn.home = p /\ (p = Dev => phase = "running")
    BY <2>1 DEF RegistryInv
  <2>6. ScriptsUnique'
    <3> HIDE DEF q
    <3> QED BY <2>2, <2>3, <2>4 DEF RegistryInv, ScriptsUnique, Unique, TypeOK
  <2>7. \A e \in Entries' : e \in Entries \/ e = q.info
    <3> HIDE DEF q
    <3> QED BY <2>2, <2>3, <2>4 DEF Entries, TypeOK
  <2>8. \A f : Known(f) => Known(f)'
    BY <2>1 DEF Known, IsMapped, Region
  <2>9. \A x \in Plugin : pending'[x] # Null => x # p /\ pending'[x] = pending[x]
    BY <2>1 DEF TypeOK
  <2>10. pending[Dev] = Null => pending'[Dev] = Null
    BY <2>1, NamesAssumption DEF TypeOK
  <2> HIDE DEF q
  <2> QED
    BY <2>1, <2>5, <2>6, <2>7, <2>8, <2>9, <2>10 DEF RegistryInv
<1>8. ASSUME LoadDev PROVE RegistryInv'
  <2>1. /\ Dev \notin mapped /\ phase' = "running"
        /\ gen' = [gen EXCEPT ![Dev] = @ + 1] /\ mapped' = mapped \cup {Dev}
        /\ UNCHANGED <<scripts, pending, customEhMem>>
    BY <1>8 DEF LoadDev, pluginVars, RegistryInv
  <2>2. \A f : Known(f) => Known(f)'
    BY <2>1 DEF Known, IsMapped, Region, TypeOK, Home
  <2>3. Entries' = Entries /\ ScriptsUnique'
    BY <2>1 DEF RegistryInv, Entries, ScriptsUnique
  <2>4. \A r \in customEhMem' : r[1] \in mapped' /\ r[2] = gen'[r[1]]
    BY <2>1 DEF RegistryInv, TypeOK, Home
  <2> QED
    BY <2>1, <2>2, <2>3, <2>4 DEF RegistryInv
<1>9. ASSUME BeginUninstall PROVE RegistryInv'
  <2>1. /\ phase = "running" /\ phase' = "restoring" /\ pending[Dev] = Null
        /\ UNCHANGED <<gen, mapped, scripts, pending, customEhMem>>
    BY <1>9 DEF BeginUninstall, pluginVars
  <2>2. Entries' = Entries /\ ScriptsUnique' /\ \A f : Known(f) => Known(f)'
    BY <2>1 DEF RegistryInv, Entries, ScriptsUnique, Known, IsMapped, Region
  <2> QED
    BY <2>1, <2>2 DEF RegistryInv
<1>10. ASSUME NEW a \in AgentId, RestoreAgent(a) PROVE RegistryInv'
  BY <1>10, RegistryUntouched DEF RestoreAgent, pluginVars
<1>11. ASSUME PurgeScripts PROVE RegistryInv'
  <2>1. /\ phase = "restoring" /\ phase' = "purged"
        /\ scripts' = [c \in Category |-> [h \in Hash \cup {Common} |-> Purged(c, h)]]
        /\ UNCHANGED <<gen, mapped, pending, customEhMem>>
    BY <1>11 DEF PurgeScripts, pluginVars
  <2>2. \A c \in Category, h \in Hash \cup {Common} : \A e \in scripts'[c][h] :
          e \in scripts[c][h] /\ e.fn.home # Dev
    BY <2>1 DEF Purged, FromDev
  <2>3. ScriptsUnique' /\ \A e \in Entries' : e \in Entries /\ e.fn.home # Dev
    BY <2>2 DEF RegistryInv, ScriptsUnique, Entries
  <2>4. \A f : Known(f) => Known(f)'
    BY <2>1 DEF Known, IsMapped, Region
  <2> QED
    BY <2>1, <2>2, <2>3, <2>4 DEF RegistryInv
<1>12. ASSUME UnloadDev PROVE RegistryInv'
  <2>1. /\ phase = "purged" /\ phase' = "unloaded"
        /\ customEhMem' = customEhMem \ {<<Dev, gen[Dev]>>}
        /\ mapped' = mapped \ {Dev} /\ UNCHANGED <<gen, scripts, pending>>
    BY <1>12 DEF UnloadDev, Registered
  <2>2. \A f : Known(f) /\ f.home # Dev => Known(f)'
    BY <2>1 DEF Known, IsMapped, Region
  <2>3. Entries' = Entries /\ ScriptsUnique'
    BY <2>1 DEF RegistryInv, Entries, ScriptsUnique
  <2>4. \A r \in customEhMem' : r[1] \in mapped' /\ r[2] = gen'[r[1]]
    <3>1. \A r \in customEhMem : r = <<r[1], r[2]>>
      BY DEF TypeOK
    <3> QED
      BY <2>1, <3>1 DEF RegistryInv
  <2>5. pending[Dev] = Null
    BY <2>1 DEF RegistryInv
  <2> QED
    BY <2>1, <2>2, <2>3, <2>4, <2>5 DEF RegistryInv
<1>13. ASSUME UNCHANGED vars PROVE RegistryInv'
  BY <1>13, RegistryUntouched DEF vars, pluginVars, loaderVars
<1> QED
  BY <1>1, <1>2, <1>3, <1>4, <1>5, <1>6, <1>7, <1>8, <1>9, <1>10, <1>11,
     <1>12, <1>13 DEF Next, Game, Plugins, Loader

\* The invariant over every run.
THEOREM RegistryCorrect == Spec => [](TypeOK /\ RegistryInv)
<1>1. Init => TypeOK /\ RegistryInv
  BY InitTypeOK, InitRegistry
<1>2. (TypeOK /\ RegistryInv) /\ [Next]_vars => (TypeOK /\ RegistryInv)'
  BY NextTypeOK, NextRegistry
<1> QED
  BY <1>1, <1>2, PTL DEF Spec

\* No script of an agent is ever recorded twice, even when plugins race: the
\* search and the insertion of replace_acmd_script share one lock.
THEOREM ScriptsStayUnique == Spec => []ScriptsUnique
  BY RegistryCorrect, RegistryInvImplies, PTL

\* No entry, recorded or under way, points into an unloaded plugin.
THEOREM EntriesStayMapped == Spec => []EntriesMapped
  BY RegistryCorrect, RegistryInvImplies, PTL

\* The unwinder's regions cover the registry and are all still mapped.
THEOREM EhMemStaysExact == Spec => []EhMemExact
  BY RegistryCorrect, RegistryInvImplies, PTL

-----------------------------------------------------------------------------
(* The agents.                                                             *)

\* A fighter module is as it was when it made an agent.
SameInstance(a) == /\ agents[a].factory.module \in mapped
                   /\ agents[a].gen = gen[agents[a].factory.module]

\* What makes the properties of LOADED_ACMD_AGENTS inductive: agents have a
\* hash of their export, and live ones belong to a loaded module.
AgentsInv ==
  /\ ListedAgentsMapped /\ LiveAgentsListed
  /\ \A a \in AgentId : agents[a] # Null =>
       /\ agents[a].hash \in agents[a].factory.hashes
       /\ agents[a].alive => SameInstance(a)

\* Steps that keep every agent what it is, and the fighter modules.
LEMMA AgentsUntouched ==
  ASSUME TypeOK, AgentsInv, UNCHANGED <<loadedAgents, created>>,
         \A a \in AgentId :
           /\ agents'[a] # Null <=> agents[a] # Null
           /\ agents[a] # Null => /\ agents'[a].factory = agents[a].factory
                                  /\ agents'[a].hash = agents[a].hash
                                  /\ agents'[a].gen = agents[a].gen
                                  /\ agents'[a].alive => agents[a].alive,
         \A m \in Module : gen'[m] = gen[m] /\ (m \in mapped' <=> m \in mapped)
  PROVE  AgentsInv'
<1>1. \A a \in AgentId : agents[a] # Null => agents[a].factory.module \in Module
  BY AgentType DEF TypeOK
<1>2. loadedAgents \subseteq {a \in AgentId : agents[a] # Null}
  BY BoundsAssumption DEF TypeOK, AgentId
<1>3. ListedAgentsMapped'
  BY <1>1, <1>2 DEF AgentsInv, ListedAgentsMapped
<1>4. LiveAgentsListed'
  BY DEF AgentsInv, LiveAgentsListed, Live
<1> QED
  BY <1>1, <1>3, <1>4 DEF AgentsInv, SameInstance

\* One agent's functions or life change, no more.
LEMMA OneAgentTouched ==
  ASSUME TypeOK, TypeOK', AgentsInv, NEW a \in AgentId, NEW t,
         agents[a] # Null,
         \/ agents' = [agents EXCEPT ![a].table = t]
         \/ agents' = [agents EXCEPT ![a].alive = FALSE],
         UNCHANGED <<gen, mapped, loadedAgents, created>>
  PROVE  AgentsInv'
<1>1. agents \in [AgentId -> Agent \cup {Null}] /\ agents[a] \in Agent
  BY DEF TypeOK
<1>2. /\ agents'[a].factory = agents[a].factory /\ agents'[a].hash = agents[a].hash
      /\ agents'[a].gen = agents[a].gen
      /\ agents'[a].alive => agents[a].alive
  BY <1>1 DEF Agent
<1>3. \A c \in AgentId \ {a} : agents'[c] = agents[c]
  BY <1>1
<1>4. \A c \in AgentId : agents'[c] # Null <=> agents[c] # Null
  BY DEF TypeOK
<1>5. \A c \in AgentId :
        /\ agents'[c] # Null <=> agents[c] # Null
        /\ agents[c] # Null => /\ agents'[c].factory = agents[c].factory
                               /\ agents'[c].hash = agents[c].hash
                               /\ agents'[c].gen = agents[c].gen
                               /\ agents'[c].alive => agents[c].alive
  BY <1>2, <1>3, <1>4
<1>6. \A m \in Module : gen'[m] = gen[m] /\ (m \in mapped' <=> m \in mapped)
  OBVIOUS
<1>7. UNCHANGED <<loadedAgents, created>>
  OBVIOUS
<1> QED
  BY <1>5, <1>6, <1>7, AgentsUntouched

\* AgentsInv at the start: there are no agents.
LEMMA InitAgents == Init => AgentsInv
BY DEF Init, AgentsInv, ListedAgentsMapped, LiveAgentsListed, Live

\* AgentsInv, step by step: agents are made, equipped and forgotten with their
\* module (scripts.rs:24-104, 512-536).
LEMMA NextAgents == TypeOK /\ TypeOK' /\ AgentsInv /\ [Next]_vars => AgentsInv'
<1> SUFFICES ASSUME TypeOK, TypeOK', AgentsInv, [Next]_vars PROVE AgentsInv'
  OBVIOUS
<1>0. /\ agents \in [AgentId -> Agent \cup {Null}] /\ created \in 0..MaxAgents
      /\ \A a \in AgentId : agents[a] # Null <=> a <= created
      /\ loadedAgents \subseteq {a \in AgentId : agents[a] # Null}
      /\ \A a \in AgentId : agents[a] # Null => agents[a].factory.module \in Module
  <2>1. loadedAgents \subseteq {a \in AgentId : agents[a] # Null}
    BY BoundsAssumption DEF TypeOK, AgentId
  <2> QED
    BY <2>1, AgentType DEF TypeOK
<1>1. ASSUME NEW m \in Module, NroLoad(m) PROVE AgentsInv'
  <2>1. /\ m \notin mapped /\ mapped' = mapped \cup {m}
        /\ \A n \in Module \ {m} : gen'[n] = gen[n]
        /\ UNCHANGED <<agents, loadedAgents>>
    BY <1>1 DEF NroLoad, TypeOK, Home
  <2> QED
    BY <1>0, <2>1
    DEF AgentsInv, ListedAgentsMapped, LiveAgentsListed, Live, SameInstance
<1>2. ASSUME NEW m \in Module, NroUnload(m) PROVE AgentsInv'
  <2>1. /\ loadedAgents' = Cleared(m) /\ mapped' = mapped \ {m}
        /\ UNCHANGED <<gen, agents>>
        /\ \A a \in AgentId : agents[a] # Null /\ InstanceOf(a) = <<m, gen[m]>>
                                => ~agents[a].alive
    BY <1>2 DEF NroUnload
  <2>2. \A a \in AgentId : agents[a] # Null /\ agents[a].factory.module = m
                             => agents[a].hash \in HashesOf(m)
    <3>1. \A a \in AgentId : agents[a] # Null => agents[a].factory \in Factory
      BY DEF TypeOK, Agent
    <3> QED
      BY <3>1 DEF AgentsInv, HashesOf
  <2>3. ListedAgentsMapped'
    BY <1>0, <2>1, <2>2 DEF AgentsInv, ListedAgentsMapped, Cleared
  <2>4. \A a \in AgentId : Live(a) => SameInstance(a) /\ agents[a].factory.module # m
    BY <2>1 DEF AgentsInv, SameInstance, InstanceOf, Live
  <2>5. LiveAgentsListed'
    BY <1>0, <2>1, <2>4 DEF AgentsInv, LiveAgentsListed, Live, Cleared
  <2> QED
    BY <2>1, <2>3, <2>4, <2>5 DEF AgentsInv, SameInstance, Live
<1>3. ASSUME NEW f \in Factory, NEW h \in f.hashes, CreateAgent(f, h)
      PROVE  AgentsInv'
  <2> DEFINE new == [factory |-> f, hash |-> h, gen |-> gen[f.module],
                     alive |-> TRUE, table |-> NativeTable(f)]
  <2>1. /\ agents' = [agents EXCEPT ![created + 1] = new]
        /\ loadedAgents' = loadedAgents \cup {created + 1}
        /\ f.module \in mapped /\ UNCHANGED <<gen, mapped>>
        /\ created + 1 \in AgentId
    BY <1>0, <1>3, BoundsAssumption DEF CreateAgent, AgentId
  <2>2. new.factory = f /\ new.hash = h /\ new.gen = gen[f.module]
    OBVIOUS
  <2>3. agents'[created + 1] = new /\ \A a \in AgentId \ {created + 1} : agents'[a] = agents[a]
    BY <1>0, <2>1
  <2> HIDE DEF new
  <2>4. agents[created + 1] = Null
    BY <1>0, <2>1 DEF AgentId
  <2>5. ListedAgentsMapped'
    BY <1>0, <2>1, <2>2, <2>3, <2>4 DEF AgentsInv, ListedAgentsMapped
  <2>6. LiveAgentsListed'
    BY <1>0, <2>1, <2>2, <2>3 DEF AgentsInv, LiveAgentsListed, Live
  <2> QED
    BY <2>1, <2>2, <2>3, <2>5, <2>6 DEF AgentsInv, SameInstance
<1>4. ASSUME EquipAgent PROVE AgentsInv'
  <2>1. /\ UNCHANGED <<gen, mapped, loadedAgents, created>>
        /\ \E t : agents' = [agents EXCEPT ![creating].table = t]
    BY <1>4 DEF EquipAgent
  <2>2. creating \in AgentId /\ agents[creating] # Null
    BY <1>0, <1>4, BoundsAssumption DEF EquipAgent, AgentId, TypeOK
  <2> QED
    BY <2>1, <2>2, OneAgentTouched
<1>5. ASSUME NEW a \in AgentId, DestroyAgent(a) PROVE AgentsInv'
  BY <1>5, OneAgentTouched DEF DestroyAgent
<1>6. ASSUME NEW r \in Request, InstallLive(r) PROVE AgentsInv'
  <2> DEFINE ptr  == [home |-> r.plugin, gen |-> gen[r.plugin], fn |-> r.fn]
             open == {a \in Targets(r) : Displaceable(a, r.script)}
  <2>1. UNCHANGED <<gen, mapped, loadedAgents, created>>
    BY <1>6 DEF InstallLive
  <2>2. agents' = agents \/ agents' = [a \in AgentId |->
          IF a \in open THEN [agents[a] EXCEPT !.table[r.script] = ptr] ELSE agents[a]]
    BY <1>6 DEF InstallLive
  <2>3. ASSUME NEW a \in AgentId, agents[a] # Null
        PROVE  /\ agents'[a].factory = agents[a].factory
               /\ agents'[a].hash = agents[a].hash
               /\ agents'[a].gen = agents[a].gen
               /\ agents'[a].alive => agents[a].alive
    <3>1. agents[a] \in Agent
      BY <1>0, <2>3
    <3>2. agents'[a] = agents[a] \/ agents'[a] = [agents[a] EXCEPT !.table[r.script] = ptr]
      BY <2>2
    <3> HIDE DEF ptr, open
    <3> QED
      BY <3>1, <3>2 DEF Agent
  <2>4. \A a \in AgentId : agents'[a] # Null <=> agents[a] # Null
    BY <2>1 DEF TypeOK
  <2> QED
    BY <2>1, <2>3, <2>4, AgentsUntouched
<1>7. ASSUME NEW p \in Plugin, RecordScript(p) PROVE AgentsInv'
  BY <1>7, AgentsUntouched DEF RecordScript
<1>8. ASSUME LoadDev PROVE AgentsInv'
  BY <1>8, NamesAssumption, AgentsUntouched DEF LoadDev, TypeOK, Home
<1>9. ASSUME BeginUninstall PROVE AgentsInv'
  BY <1>9, AgentsUntouched DEF BeginUninstall
<1>10. ASSUME NEW a \in AgentId, RestoreAgent(a) PROVE AgentsInv'
  <2>1. /\ UNCHANGED <<gen, mapped, loadedAgents, created>>
        /\ agents' = agents \/ \E t : agents' = [agents EXCEPT ![a].table = t]
    BY <1>10 DEF RestoreAgent
  <2>2. agents[a] # Null
    BY <1>0, <1>10 DEF RestoreAgent, TypeOK
  <2> QED
    BY <2>1, <2>2, OneAgentTouched, AgentsUntouched
<1>11. ASSUME PurgeScripts PROVE AgentsInv'
  BY <1>11, AgentsUntouched DEF PurgeScripts
<1>12. ASSUME UnloadDev PROVE AgentsInv'
  BY <1>12, NamesAssumption, AgentsUntouched DEF UnloadDev
<1>13. ASSUME UNCHANGED vars PROVE AgentsInv'
  BY <1>13, AgentsUntouched DEF vars
<1> QED
  BY <1>1, <1>2, <1>3, <1>4, <1>5, <1>6, <1>7, <1>8, <1>9, <1>10, <1>11,
     <1>12, <1>13 DEF Next, Game, Plugins, Loader

\* What is known of the listed and the live agents holds over every run: each was
\* made by an export of a loaded module for one of the hashes it serves.
THEOREM AgentsCorrect == Spec => []AgentsInv
<1>1. Init => TypeOK /\ AgentsInv
  BY InitTypeOK, InitAgents
<1>2. (TypeOK /\ AgentsInv) /\ [Next]_vars => (TypeOK /\ AgentsInv)'
  BY NextTypeOK, NextAgents
<1> QED
  BY <1>1, <1>2, PTL DEF Spec

\* clear_loaded_agent, which compares hashes, misses no agent of the module
\* that unloads.
THEOREM ListedAgentsStayMapped == Spec => []ListedAgentsMapped
<1>1. AgentsInv => ListedAgentsMapped
  BY DEF AgentsInv
<1> QED
  BY <1>1, AgentsCorrect, PTL

\* And it forgets no live agent whose hash the unloading module does not serve.
THEOREM LiveAgentsStayListed == Spec => []LiveAgentsListed
<1>1. AgentsInv => LiveAgentsListed
  BY DEF AgentsInv
<1> QED
  BY <1>1, AgentsCorrect, PTL

-----------------------------------------------------------------------------
(* The registry implements ScriptSlots.                                    *)

\* The holder of a slot is its one entry's, if it has one.
LEMMA HeldByEntry ==
  ASSUME NEW list, Unique(list), NEW e \in list
  PROVE  HeldIn(list, e.script) = HolderOf(e)
<1>1. \A d \in list : d.script = e.script => d = e
  BY DEF Unique
<1>2. (CHOOSE d \in list : d.script = e.script) = e
  BY <1>1
<1> QED
  BY <1>2 DEF HeldIn

LEMMA HeldByNone ==
  ASSUME NEW list, NEW s, \A e \in list : e.script # s
  PROVE  HeldIn(list, s) = Null
BY DEF HeldIn

\* Two lists whose entries for a script are the same but for the backup show
\* the same holder.
LEMMA SameHolder ==
  ASSUME NEW list, NEW other, Unique(list), Unique(other), NEW s,
         \A e \in list : e.script = s =>
           \E d \in other : d.script = s /\ HolderOf(d) = HolderOf(e),
         \A d \in other : d.script = s => \E e \in list : e.script = s
  PROVE  HeldIn(other, s) = HeldIn(list, s)
<1>1. CASE \E e \in list : e.script = s
  <2>1. PICK e \in list : e.script = s
    BY <1>1
  <2>2. PICK d \in other : d.script = s /\ HolderOf(d) = HolderOf(e)
    BY <2>1
  <2> QED
    BY <2>1, <2>2, HeldByEntry
<1>2. CASE \A e \in list : e.script # s
  BY <1>2, HeldByNone
<1> QED
  BY <1>1, <1>2

LEMMA InitSlots == Init => Slots!Init
<1> SUFFICES ASSUME Init PROVE SlotMap = [k \in SlotKey |-> Null]
  BY DEF Slots!Init
<1>1. \A k \in SlotKey : HeldIn(scripts[k[1]][k[2]], k[3]) = Null
  BY HeldByNone DEF Init, SlotKey
<1> QED
  BY <1>1 DEF SlotMap

\* A step that leaves the registry alone stutters.
LEMMA SlotsUntouched == UNCHANGED scripts => UNCHANGED SlotMap
BY DEF SlotMap

LEMMA NextSlots ==
  TypeOK /\ RegistryInv /\ RegistryInv' /\ [Next]_vars => [Slots!Next]_SlotMap
<1> SUFFICES ASSUME TypeOK, RegistryInv, RegistryInv', [Next]_vars
             PROVE  Slots!Next \/ UNCHANGED SlotMap
  OBVIOUS
<1>0. \A c \in Category, h \in Hash \cup {Common} :
        /\ Unique(scripts[c][h]) /\ Unique(scripts'[c][h])
        /\ scripts[c][h] \in SUBSET ScriptInfo
  BY DEF RegistryInv, ScriptsUnique, Unique, TypeOK
<1>1. ASSUME EquipAgent PROVE UNCHANGED SlotMap
  <2> DEFINE c      == CategoryOf(creating)
             h      == agents[creating].hash
             common == Overlay(agents[creating].table, scripts[c][Common])
  <2>1. creating \in AgentId /\ creating <= created
    BY <1>1, BoundsAssumption DEF EquipAgent, AgentId, TypeOK
  <2>2. c \in Category /\ h \in Hash /\ agents[creating].table \in Table
    BY <2>1, AgentType
  <2>3. common \in Table
    BY <1>0, <2>2, OverlayType
  <2>4. scripts' = [scripts EXCEPT ![c][h] = Saved(scripts[c][h], common)]
    BY <1>1 DEF EquipAgent
  <2> HIDE DEF c, h, common
  <2>5. \A s \in Script : HeldIn(Saved(scripts[c][h], common), s) = HeldIn(scripts[c][h], s)
    <3> DEFINE list == scripts[c][h]
               other == Saved(list, common)
    <3>1. list \in SUBSET ScriptInfo /\ Unique(list)
      BY <1>0, <2>2
    <3>2. /\ Unique(other)
          /\ \A d \in other : \E e \in list :
               d.script = e.script /\ d.fn = e.fn /\ d.low = e.low
      BY <2>3, <3>1, SavedUnique
    <3>3. \A e \in list : \E d \in other : d.script = e.script /\ HolderOf(d) = HolderOf(e)
      <4>1. TAKE e \in list
      <4>2. [e EXCEPT !.backup = common[e.script]] \in other
        BY <2>3, <3>1, SavedType
      <4>3. e \in ScriptInfo
        BY <3>1
      <4> QED
        BY <4>2, <4>3 DEF ScriptInfo, HolderOf
    <3> HIDE DEF list, other
    <3>4. ASSUME NEW s \in Script PROVE HeldIn(other, s) = HeldIn(list, s)
      BY <3>1, <3>2, <3>3, SameHolder
    <3> QED
      BY <3>4 DEF list, other
  <2>6. \A k \in SlotKey : HeldIn(scripts'[k[1]][k[2]], k[3]) = HeldIn(scripts[k[1]][k[2]], k[3])
    BY <2>2, <2>4, <2>5 DEF SlotKey, TypeOK
  <2> QED
    BY <2>6 DEF SlotMap
<1>2. ASSUME NEW p \in Plugin, RecordScript(p)
      PROVE  Slots!Next \/ UNCHANGED SlotMap
  <2> DEFINE c    == pending[p].category
             h    == pending[p].agent
             info == pending[p].info
             list == scripts[c][h]
             k    == <<c, h, info.script>>
  <2>1. pending[p] \in Pending /\ pending[p] # Null
    BY <1>2 DEF RecordScript, TypeOK
  <2>2. c \in Category /\ h \in Hash \cup {Common} /\ info \in ScriptInfo
    BY <2>1 DEF Pending
  <2>3. scripts' = [scripts EXCEPT ![c][h] = Recorded(list, info)]
    BY <1>2 DEF RecordScript
  <2>4. info.fn.home \in Plugin
    BY <2>1 DEF RegistryInv, Known
  <2> HIDE DEF c, h, info
  <2>5. /\ scripts'[c][h] = Recorded(list, info)
        /\ Unique(list) /\ Unique(Recorded(list, info))
        /\ k \in SlotKey /\ HolderOf(info) \in SlotHolder
    <3>1. scripts'[c][h] = Recorded(list, info)
      BY <2>2, <2>3 DEF TypeOK
    <3>2. k \in SlotKey /\ HolderOf(info) \in SlotHolder
      BY <2>2, <2>4 DEF SlotKey, SlotHolder, HolderOf, ScriptInfo
    <3> QED
      BY <1>0, <2>2, <3>1, <3>2
  <2>6. CASE \A e \in SameScript(list, info) : e.low
    <3>1. Recorded(list, info) = (list \ SameScript(list, info)) \cup {info}
      BY <2>6 DEF Recorded
    <3>2. HeldIn(Recorded(list, info), info.script) = HolderOf(info)
      BY <2>5, <3>1, HeldByEntry
    <3>3. \A s : s # info.script =>
            HeldIn(Recorded(list, info), s) = HeldIn(list, s)
      <4> SUFFICES ASSUME NEW s, s # info.script
                   PROVE  HeldIn(Recorded(list, info), s) = HeldIn(list, s)
        OBVIOUS
      <4>1. \A e \in list : e.script = s => e \in Recorded(list, info)
        BY <3>1 DEF SameScript
      <4>2. \A d \in Recorded(list, info) : d.script = s => d \in list
        BY <3>1
      <4> HIDE DEF list
      <4> QED
        BY <2>5, <4>1, <4>2, SameHolder
    <3>4. SlotMap' = [SlotMap EXCEPT ![k] = HolderOf(info)]
      <4>1. \A j \in SlotKey \ {k} : HeldIn(scripts'[j[1]][j[2]], j[3])
                                        = HeldIn(scripts[j[1]][j[2]], j[3])
        <5> SUFFICES ASSUME NEW j \in SlotKey, j # k
                     PROVE  HeldIn(scripts'[j[1]][j[2]], j[3])
                              = HeldIn(scripts[j[1]][j[2]], j[3])
          OBVIOUS
        <5>1. CASE j[1] = c /\ j[2] = h
          <6>1. j[3] # info.script
            BY <5>1 DEF SlotKey
          <6> QED
            BY <2>5, <3>3, <5>1, <6>1
        <5>2. CASE ~(j[1] = c /\ j[2] = h)
          BY <2>2, <2>3, <5>2 DEF SlotKey, TypeOK
        <5> QED
          BY <5>1, <5>2
      <4>2. HeldIn(scripts'[k[1]][k[2]], k[3]) = HolderOf(info)
        BY <2>5, <3>2
      <4> HIDE DEF k
      <4> QED
        BY <2>5, <4>1, <4>2 DEF SlotMap
    <3>5. SlotMap[k] = Null \/ SlotMap[k].low
      <4>1. SlotMap[k] = HeldIn(list, info.script)
        BY <2>5 DEF SlotMap
      <4>2. CASE \E e \in list : e.script = info.script
        <5>1. PICK e \in list : e.script = info.script
          BY <4>2
        <5>2. HeldIn(list, info.script) = HolderOf(e) /\ e.low
          BY <2>5, <2>6, <5>1, HeldByEntry DEF SameScript
        <5> QED
          BY <4>1, <5>2 DEF HolderOf
      <4>3. CASE \A e \in list : e.script # info.script
        BY <4>1, <4>3, HeldByNone
      <4> QED
        BY <4>2, <4>3
    <3>6. SlotMap'[k] = HolderOf(info) /\ SlotMap'[k] \in SlotHolder
      <4> HIDE DEF k
      <4> QED
        BY <2>5, <3>4 DEF SlotMap
    <3> HIDE DEF k
    <3>7. Slots!Claim(k) \/ Slots!Override(k)
      BY <3>4, <3>5, <3>6 DEF Slots!Claim, Slots!Override, Slots!Take
    <3> QED
      BY <2>5, <3>7 DEF Slots!Next
  <2>7. CASE ~ \A e \in SameScript(list, info) : e.low
    <3>1. Recorded(list, info) = list
      BY <2>7 DEF Recorded
    <3>2. scripts' = scripts
      BY <2>2, <2>3, <3>1 DEF TypeOK
    <3> QED
      BY <3>2, SlotsUntouched
  <2> QED
    BY <2>6, <2>7
<1>3. ASSUME PurgeScripts PROVE Slots!Leave
  <2>1. scripts' = [c \in Category |-> [h \in Hash \cup {Common} |-> Purged(c, h)]]
    BY <1>3 DEF PurgeScripts
  <2>2. ASSUME NEW k \in SlotKey
        PROVE  HeldIn(scripts'[k[1]][k[2]], k[3]) =
                 IF SlotMap[k] # Null /\ SlotMap[k].owner = Dev
                 THEN Null ELSE SlotMap[k]
    <3> DEFINE list  == scripts[k[1]][k[2]]
               other == scripts'[k[1]][k[2]]
    <3>1. /\ other = list \ FromDev(list) /\ SlotMap[k] = HeldIn(list, k[3])
          /\ Unique(list) /\ Unique(other)
      BY <1>0, <2>1 DEF Purged, SlotKey, SlotMap
    <3> HIDE DEF list, other
    <3>2. CASE \A e \in list : e.script # k[3]
      <4>1. SlotMap[k] = Null
        BY <3>1, <3>2, HeldByNone
      <4>2. HeldIn(other, k[3]) = Null
        BY <3>1, <3>2, HeldByNone
      <4> QED
        BY <4>1, <4>2 DEF other
    <3>3. CASE \E e \in list : e.script = k[3]
      <4>1. PICK e \in list : e.script = k[3]
        BY <3>3
      <4>2. SlotMap[k] = HolderOf(e) /\ HolderOf(e).owner = e.fn.home
        BY <3>1, <4>1, HeldByEntry DEF HolderOf
      <4>3. CASE e.fn.home = Dev
        <5>1. \A d \in other : d.script # k[3]
          BY <3>1, <4>1, <4>3 DEF Unique, FromDev
        <5> QED
          BY <4>2, <4>3, <5>1, HeldByNone DEF other
      <4>4. CASE e.fn.home # Dev
        <5>1. e \in other
          BY <3>1, <4>1, <4>4 DEF FromDev
        <5>2. HeldIn(other, k[3]) = HolderOf(e)
          BY <3>1, <4>1, <5>1, HeldByEntry
        <5> QED
          BY <4>2, <4>4, <5>2 DEF other
      <4> QED
        BY <4>3, <4>4
    <3> QED
      BY <3>2, <3>3
  <2> QED
    BY <2>2 DEF Slots!Leave, SlotMap
<1>4. CASE UNCHANGED scripts
  BY <1>4, SlotsUntouched
<1>5. \/ EquipAgent \/ PurgeScripts \/ \E p \in Plugin : RecordScript(p)
      \/ UNCHANGED scripts
  BY DEF Next, Game, Plugins, Loader, NroLoad, NroUnload, CreateAgent,
         DestroyAgent, InstallLive, LoadDev, BeginUninstall, RestoreAgent,
         UnloadDev, vars
<1> QED
  BY <1>1, <1>2, <1>3, <1>4, <1>5 DEF Slots!Next

\* Seen slot by slot, the registry of replace_acmd_script and its purge obey
\* ScriptSlots, whatever the order in which threads reach it.
THEOREM RegistryImplementsSlots == Spec => ImplementsSlots
<1>1. TypeOK /\ RegistryInv /\ (TypeOK /\ RegistryInv)' /\ [Next]_vars
        => [Slots!Next]_SlotMap
  BY NextSlots
<1> QED
  BY <1>1, InitSlots, RegistryCorrect, PTL DEF Spec, ImplementsSlots, Slots!Spec

\* What ScriptSlots is for: a script recorded with high priority is replaced by
\* no later call ("already replaced with high priority") and goes only with the
\* development plugin, if that recorded it.
THEOREM HighPriorityHeld == Spec => Slots!HighPriorityHeld
<1>1. [Slots!Next]_SlotMap => [Slots!HighPriorityStep]_SlotMap
  <2> SUFFICES ASSUME Slots!Next PROVE Slots!HighPriorityStep
    OBVIOUS
  <2> USE DEF Slots!HighPriorityStep
  <2>1. CASE \E j \in SlotKey : Slots!Claim(j) \/ Slots!Override(j)
    <3>1. PICK j \in SlotKey : Slots!Claim(j) \/ Slots!Override(j)
      BY <2>1
    <3>2. \A k \in SlotKey \ {j} : SlotMap'[k] = SlotMap[k]
      BY <3>1 DEF Slots!Claim, Slots!Override, Slots!Take, SlotMap
    <3>3. SlotMap[j] = Null \/ SlotMap[j].low
      BY <3>1 DEF Slots!Claim, Slots!Override
    <3> QED
      BY <3>2, <3>3
  <2>2. CASE Slots!Leave
    BY <2>2 DEF Slots!Leave
  <2> QED
    BY <2>1, <2>2 DEF Slots!Next
<1>2. Slots!Spec => [][Slots!Next]_SlotMap
  BY PTL DEF Slots!Spec
<1> QED
  BY <1>1, <1>2, RegistryImplementsSlots, PTL DEF ImplementsSlots, Slots!HighPriorityHeld
=============================================================================
