------------------------ MODULE StatusScriptsProofs ------------------------
(***************************************************************************)
(* Theorems about StatusScripts, for every number of agents, statuses,      *)
(* fighter modules and plugins and every set of requests, whether the       *)
(* threads interleave or not.                                               *)
(***************************************************************************)
EXTENDS StatusScripts, WellFoundedInduction, TLAPS

-----------------------------------------------------------------------------
(* The inductive invariants.                                               *)

\* An agent is a record from its creation on, and the one whose status scripts
\* are being set has been created.
AgentsMade ==
  /\ \A a \in AgentId : agents[a] # Null <=> a <= created
  /\ setting # "nothing" => created \in AgentId

\* The order of a list: no two entries at one place, and one that is last.
Last(list)     == \E e \in list : \A d \in list : d.at <= e.at
Numbered(list) == /\ \A d, e \in list : d.at = e.at => d = e
                  /\ list # {} => Last(list)
ListsNumbered  == \A k \in Key : Numbered(scripts[k])

TypeInv == TypeOK /\ AgentsMade /\ ListsNumbered

\* What is known of "common": COMMON_MEMORY_INFO is of its last load, which
\* also set CONSTANT_RESOLVER; fighter modules and agents come after it.
CommonInv ==
  /\ commonInfo = gen[CommonNro]
  /\ resolver <=> commonInfo # 0
  /\ CommonNro \in mapped => commonInfo # 0
  /\ mapped \cap Module # {} => CommonNro \in mapped
  /\ created > 0 => commonInfo # 0

Unique(list) == \A d, e \in list : d.slot = e.slot => d = e

\* Which plugins are in memory, and what of them the registries hold.
Asked(k, ptr) == \E r \in Request : r.plugin = ptr.home /\ r.agent = k
Holds(k, ptr) == /\ ptr.home \in Plugin /\ IsMapped(ptr) /\ Asked(k, ptr)
                 /\ ptr.home = Dev => phase \notin {"unloaded", "purged"}
RegistryInv ==
  /\ Plugin \ {Dev} \subseteq mapped
  /\ Dev \in mapped <=> phase # "unloaded"
  /\ \A k \in Key : /\ resolver => Unique(scripts[k])
                    /\ \A e \in scripts[k] : Holds(k, e.fn)

\* What set_status_scripts and the live installation leave in an agent's table
\* for each entry of its own list.
Replaced(a, e) == LET ptr == agents[a].table[e.slot]
                  IN ptr # Null /\ ~OfCommon(ptr) /\ ~OfAgent(ptr, a)
Installed(a) == Live(a) /\ (a = created => setting \notin {"table", "statuses"})
InstalledInv ==
  \A a \in loadedAgents : Installed(a) =>
    \A e \in scripts[agents[a].hash] :
      phase = "running" \/ e.fn.home # Dev => Replaced(a, e)

\* The customizers' functions are plugins'.
CustomizersOwned ==
  \A h \in Hash : customizers[h] # Null => customizers[h].fn.home \in Plugin

-----------------------------------------------------------------------------
(* The values the state is made of.                                        *)

Table == [Slot -> Target]

\* Every non-empty set of agents has one created last.
LEMMA LastAgent ==
  ASSUME NEW S \in SUBSET AgentId, S # {}
  PROVE  \E a \in S : \A b \in S : b <= a
<1> DEFINE R == OpToRel(<, Nat)
           T == {MaxAgents - a : a \in S}
<1>1. /\ MaxAgents \in Nat
      /\ \A a \in S : a \in Nat /\ MaxAgents - a \in Nat
  BY BoundsAssumption DEF AgentId
<1>2. T \subseteq Nat /\ T # {}
  BY <1>1
<1>3. \E x \in T : \A y \in T : ~ (<<y, x>> \in R)
  <2>1. IsWellFoundedOn(R, Nat)
    BY NatLessThanWellFounded
  <2> HIDE DEF R, T
  <2> QED BY <1>2, <2>1, WFMin
<1>4. PICK a \in S : \A b \in S : ~ (<<MaxAgents - b, MaxAgents - a>> \in R)
  BY <1>3
<1>5. \A b \in S : ~ (MaxAgents - b < MaxAgents - a)
  BY <1>1, <1>4 DEF OpToRel
<1> QED
  BY <1>1, <1>5

\* The entry of a list for a slot is one of the list.
LEMMA TheOneType ==
  ASSUME NEW list \in SUBSET StatusInfo, NEW s, For(list, s) # {}
  PROVE  /\ TheOne(list, s) \in list /\ TheOne(list, s).slot = s
         /\ TheOne(list, s).fn \in Pointer /\ TheOne(list, s).backup \in Target
<1>1. TheOne(list, s) \in For(list, s)
  BY DEF TheOne
<1> QED
  BY <1>1 DEF For, StatusInfo

\* Installing a list over a table, or putting its backups back, gives a table.
LEMMA OverlayType ==
  ASSUME NEW table \in Table, NEW list \in SUBSET StatusInfo
  PROVE  Overlay(table, list) \in Table /\ Restored(table, list) \in Table
<1>1. ASSUME NEW s \in Slot, For(list, s) # {}
      PROVE  TheOne(list, s).fn \in Target /\ TheOne(list, s).backup \in Target
  BY <1>1, TheOneType DEF Target
<1> QED
  BY <1>1 DEF Overlay, Restored, Table

\* Saving what a list displaces from a table changes nothing but the backups.
LEMMA SavedType ==
  ASSUME NEW table \in Table, NEW list \in SUBSET StatusInfo
  PROVE  /\ Saved(list, table) \in SUBSET StatusInfo
         /\ \A d \in Saved(list, table) : \E e \in list :
              /\ d = [e EXCEPT !.backup = table[e.slot]]
              /\ d.slot = e.slot /\ d.low = e.low /\ d.fn = e.fn /\ d.at = e.at
         /\ \A e \in list : \E d \in Saved(list, table) :
              /\ d = [e EXCEPT !.backup = table[e.slot]]
              /\ d.slot = e.slot /\ d.low = e.low /\ d.fn = e.fn /\ d.at = e.at
<1>1. \A e \in list :
        LET d == [e EXCEPT !.backup = table[e.slot]]
        IN /\ d \in StatusInfo
           /\ d.slot = e.slot /\ d.low = e.low /\ d.fn = e.fn /\ d.at = e.at
  BY DEF StatusInfo, Table
<1> QED
  BY <1>1 DEF Saved

\* A function of a module or of "common", once it is loaded.
LEMMA NativeType ==
  ASSUME gen \in [Home -> 0..MaxGen], NEW m \in Home, NEW fn \in Fn \cup {Null}
  PROVE  Native(m, fn) \in Target
BY DEF Native, Target, Pointer

\* What a request installs.
LEMMA ReplacementType ==
  ASSUME TypeOK, NEW r, r.plugin \in Plugin, r.fn \in Fn
  PROVE  /\ Replacement(r) \in Pointer /\ Replacement(r) \in Target
         /\ Replacement(r).home = r.plugin /\ Replacement(r).gen = gen[r.plugin]
BY DEF Replacement, Target, Pointer, Home, TypeOK

-----------------------------------------------------------------------------
(* The lists of the registries.                                            *)

\* Some entries of a list, if not none, have a first.
LEMMA FirstEntry ==
  ASSUME NEW list \in SUBSET StatusInfo, list # {}
  PROVE  /\ \E e \in list : \A d \in list : e.at <= d.at
         /\ FirstOf(list) \in list /\ \A d \in list : FirstOf(list).at <= d.at
<1> DEFINE R == OpToRel(<, Nat)
           T == {e.at : e \in list}
<1>1. \A e \in list : e.at \in Nat
  BY DEF StatusInfo
<1>2. T \subseteq Nat /\ T # {}
  BY <1>1
<1>3. \E x \in T : \A y \in T : ~ (<<y, x>> \in R)
  <2>1. IsWellFoundedOn(R, Nat)
    BY NatLessThanWellFounded
  <2> HIDE DEF R, T
  <2> QED BY <1>2, <2>1, WFMin
<1>4. PICK e \in list : \A d \in list : ~ (<<d.at, e.at>> \in R)
  BY <1>3
<1>5. \A d \in list : ~ (d.at < e.at)
  BY <1>1, <1>4 DEF OpToRel
<1>6. \A d \in list : e.at <= d.at
  BY <1>1, <1>5
<1> QED
  BY <1>6 DEF FirstOf

\* And, where their places are bounded, a last.
LEMMA LastEntry ==
  ASSUME NEW list \in SUBSET StatusInfo, list # {},
         NEW n \in Nat, \A d \in list : d.at <= n
  PROVE  Last(list)
<1> DEFINE R == OpToRel(<, Nat)
           T == {n - e.at : e \in list}
<1>1. \A e \in list : e.at \in Nat /\ n - e.at \in Nat
  BY DEF StatusInfo
<1>2. T \subseteq Nat /\ T # {}
  BY <1>1
<1>3. \E x \in T : \A y \in T : ~ (<<y, x>> \in R)
  <2>1. IsWellFoundedOn(R, Nat)
    BY NatLessThanWellFounded
  <2> HIDE DEF R, T
  <2> QED BY <1>2, <2>1, WFMin
<1>4. PICK e \in list : \A d \in list : ~ (<<n - d.at, n - e.at>> \in R)
  BY <1>3
<1>5. \A d \in list : ~ (n - d.at < n - e.at)
  BY <1>1, <1>4 DEF OpToRel
<1>6. \A d \in list : d.at <= e.at
  BY <1>1, <1>5
<1> QED
  BY <1>6 DEF Last

\* A list stays numbered when entries are taken from it ...
LEMMA SubsetNumbered ==
  ASSUME NEW list \in SUBSET StatusInfo, Numbered(list), NEW some \in SUBSET list
  PROVE  Numbered(some)
<1>1. CASE some # {}
  <2>1. PICK e \in list : \A d \in list : d.at <= e.at
    BY <1>1 DEF Numbered, Last
  <2>2. e.at \in Nat /\ \A d \in some : d.at <= e.at
    BY <2>1 DEF StatusInfo
  <2>3. Last(some)
    BY <1>1, <2>2, LastEntry
  <2> QED
    BY <2>3 DEF Numbered
<1>2. CASE some = {}
  BY <1>2 DEF Numbered
<1> QED
  BY <1>1, <1>2

\* ... and when their backups are written.
LEMMA SavedNumbered ==
  ASSUME NEW table \in Table, NEW list \in SUBSET StatusInfo, Numbered(list)
  PROVE  Numbered(Saved(list, table))
<1> DEFINE other == Saved(list, table)
           Copy(d, e) == /\ d = [e EXCEPT !.backup = table[e.slot]]
                         /\ d.slot = e.slot /\ d.low = e.low
                         /\ d.fn = e.fn /\ d.at = e.at
<1>1. /\ \A d \in other : \E e \in list : Copy(d, e)
      /\ \A e \in list : \E d \in other : Copy(d, e)
  BY SavedType
<1>2. \A c, d \in other : c.at = d.at => c = d
  <2> HIDE DEF other
  <2> QED BY <1>1 DEF Numbered
<1>3. ASSUME other # {} PROVE Last(other)
  <2> HIDE DEF other
  <2>1. list # {}
    BY <1>1, <1>3
  <2>2. PICK e \in list : \A d \in list : d.at <= e.at
    BY <2>1 DEF Numbered, Last
  <2>3. PICK c \in other : Copy(c, e)
    BY <1>1
  <2>4. \A d \in other : d.at <= c.at
    BY <1>1, <2>2, <2>3
  <2> QED
    BY <2>4 DEF Last
<1> QED
  BY <1>2, <1>3 DEF Numbered

\* The entry made of an info, at its place in the list.
IsEntryOf(e, info) == /\ e \in StatusInfo /\ e.slot = info.slot
                      /\ e.low = info.low /\ e.fn = info.fn /\ e.backup = info.backup

\* An info is appended to a list behind all of its entries.
LEMMA PushedList ==
  ASSUME NEW list \in SUBSET StatusInfo, Numbered(list), NEW info \in StatusInfo
  PROVE  \E new : /\ IsEntryOf(new, info) /\ Pushed(list, info) = list \cup {new}
                  /\ \A d \in list : d.at < new.at
<1>1. ASSUME NEW n \in Nat
      PROVE  IsEntryOf([info EXCEPT !.at = n], info) /\ [info EXCEPT !.at = n].at = n
  BY DEF StatusInfo, IsEntryOf
<1>2. CASE list = {}
  <2>1. Pushed(list, info) = list \cup {[info EXCEPT !.at = 1]}
    BY <1>2 DEF Pushed
  <2> QED
    BY <1>1, <1>2, <2>1
<1>3. CASE list # {}
  <2> DEFINE last == CHOOSE e \in list : \A d \in list : d.at <= e.at
             n    == 1 + last.at
  <2>1. last \in list /\ \A d \in list : d.at <= last.at
    BY <1>3 DEF Numbered, Last
  <2>2. n \in Nat /\ \A d \in list : d.at < n
    BY <2>1 DEF StatusInfo
  <2>3. Pushed(list, info) = list \cup {[info EXCEPT !.at = n]}
    BY <1>3 DEF Pushed
  <2> HIDE DEF n
  <2> QED
    BY <1>1, <2>2, <2>3
<1> QED
  BY <1>2, <1>3

\* What recording does to a list: its info goes behind all entries, or takes the
\* place of a low priority one for its slot, or is turned away.
Appends(list, info, new) ==
  /\ ~resolver \/ For(list, info.slot) = {}
  /\ Recorded(list, info) = list \cup {new} /\ \A d \in list : d.at < new.at
Displaces(list, info, old, new) ==
  /\ resolver /\ old \in For(list, info.slot) /\ old.low
  /\ Recorded(list, info) = (list \ {old}) \cup {new} /\ new.at = old.at
TurnsAway(list, info) == Recorded(list, info) = list

LEMMA RecordedList ==
  ASSUME NEW list \in SUBSET StatusInfo, Numbered(list), NEW info \in StatusInfo
  PROVE  \/ TurnsAway(list, info)
         \/ \E new : /\ IsEntryOf(new, info)
                     /\ \/ Appends(list, info, new)
                        \/ \E old \in list : Displaces(list, info, old, new)
<1> DEFINE same == For(list, info.slot)
           old  == FirstOf(same)
           new  == [info EXCEPT !.at = old.at]
<1>1. CASE ~resolver \/ same = {}
  <2>1. Recorded(list, info) = Pushed(list, info)
    BY <1>1 DEF Recorded
  <2> QED
    BY <1>1, <2>1, PushedList DEF Appends
<1>2. CASE resolver /\ same # {}
  <2>1. same \in SUBSET StatusInfo
    BY DEF For
  <2>2. old \in same
    <3> HIDE DEF same
    <3> QED BY <1>2, <2>1, FirstEntry
  <2>3. CASE old.low
    <3>1. Recorded(list, info) = (list \ {old}) \cup {new}
      BY <1>2, <2>3 DEF Recorded
    <3>2. old \in list /\ old.at \in Nat
      BY <2>2 DEF For, StatusInfo
    <3>3. IsEntryOf(new, info) /\ new.at = old.at
      <4> HIDE DEF old
      <4> QED BY <3>2 DEF StatusInfo, IsEntryOf
    <3>4. Displaces(list, info, old, new)
      <4> HIDE DEF old, new
      <4> QED BY <1>2, <2>2, <2>3, <3>1, <3>3 DEF Displaces
    <3> HIDE DEF old, new
    <3> QED BY <3>2, <3>3, <3>4
  <2>4. CASE ~old.low
    <3>1. Recorded(list, info) = list
      BY <1>2, <2>4 DEF Recorded
    <3> QED
      BY <3>1 DEF TurnsAway
  <2> QED
    BY <2>3, <2>4
<1> QED
  BY <1>1, <1>2

\* A numbered list is one still.
LEMMA RecordedType ==
  ASSUME NEW list \in SUBSET StatusInfo, Numbered(list), NEW info \in StatusInfo
  PROVE  Recorded(list, info) \in SUBSET StatusInfo /\ Numbered(Recorded(list, info))
<1>1. CASE TurnsAway(list, info)
  BY <1>1 DEF TurnsAway
<1>2. ASSUME NEW new, IsEntryOf(new, info), Appends(list, info, new)
      PROVE  Recorded(list, info) \in SUBSET StatusInfo /\ Numbered(Recorded(list, info))
  <2> DEFINE other == list \cup {new}
  <2>1. Recorded(list, info) = other /\ other \in SUBSET StatusInfo
    BY <1>2 DEF Appends, IsEntryOf
  <2>2. /\ \A d \in other : d.at \in Nat /\ d.at <= new.at
        /\ \A d \in list : d.at < new.at
    BY <1>2 DEF Appends, IsEntryOf, StatusInfo
  <2>3. \A d, e \in other : d.at = e.at => d = e
    BY <2>2 DEF Numbered
  <2>4. Last(other)
    BY <2>2 DEF Last
  <2> QED
    BY <2>1, <2>3, <2>4 DEF Numbered
<1>3. ASSUME NEW new, IsEntryOf(new, info), NEW old \in list, Displaces(list, info, old, new)
      PROVE  Recorded(list, info) \in SUBSET StatusInfo /\ Numbered(Recorded(list, info))
  <2> DEFINE other == (list \ {old}) \cup {new}
  <2>1. Recorded(list, info) = other /\ other \in SUBSET StatusInfo /\ new.at = old.at
    BY <1>3 DEF Displaces, IsEntryOf
  <2>2. \A d, e \in other : d.at = e.at => d = e
    BY <2>1 DEF Numbered
  <2>3. PICK e \in list : \A d \in list : d.at <= e.at
    BY DEF Numbered, Last
  <2>4. e.at \in Nat /\ \A d \in other : d.at <= e.at
    BY <2>1, <2>3 DEF StatusInfo
  <2>5. Last(other)
    <3> HIDE DEF other
    <3>1. other # {}
      BY DEF other
    <3> QED BY <2>1, <2>4, <3>1, LastEntry
  <2> QED
    BY <2>1, <2>2, <2>5 DEF Numbered
<1> QED
  BY <1>1, <1>2, <1>3, RecordedList

-----------------------------------------------------------------------------
(* Type correctness.                                                       *)

\* An agent that has been made is a record of the game.
LEMMA AgentType ==
  ASSUME TypeInv, NEW a \in AgentId, a <= created
  PROVE  /\ agents[a] \in Agent /\ agents[a] # Null
         /\ agents[a].hash \in Hash /\ agents[a].module \in Module
         /\ agents[a].table \in Table /\ agents[a].waza \in Target
         /\ scripts[agents[a].hash] \in SUBSET StatusInfo
         /\ scripts[Common] \in SUBSET StatusInfo
<1>1. agents[a] \in Agent /\ agents[a] # Null
  BY DEF TypeInv, TypeOK, AgentsMade
<1>2. agents[a].hash \in Hash /\ agents[a].module \in Module
      /\ agents[a].table \in Table /\ agents[a].waza \in Target
  BY <1>1 DEF Agent, Table
<1> QED
  BY <1>1, <1>2 DEF TypeInv, TypeOK, Key

LEMMA ListedAgent ==
  ASSUME TypeInv, NEW a \in loadedAgents
  PROVE  a \in AgentId /\ a <= created
<1>1. a \in 1..created /\ created \in 0..MaxAgents
  BY DEF TypeInv, TypeOK
<1> QED
  BY <1>1, BoundsAssumption DEF AgentId

\* The memory of an agent is written, and never to what is not an agent.
LEMMA AgentsWritten ==
  ASSUME TypeInv, UNCHANGED <<created, setting>>,
         agents' = [a \in AgentId |-> agents'[a]],
         \A a \in AgentId : \/ agents'[a] = agents[a]
                            \/ a <= created /\ agents'[a] \in Agent
  PROVE  agents' \in [AgentId -> Agent \cup {Null}] /\ AgentsMade'
<1>1. \A a \in AgentId : agents'[a] \in Agent \cup {Null}
  BY DEF TypeInv, TypeOK
<1>2. \A a \in AgentId : agents'[a] # Null <=> agents[a] # Null
  BY NamesAssumption DEF TypeInv, TypeOK, AgentsMade
<1>3. agents' \in [AgentId -> Agent \cup {Null}]
  BY <1>1
<1> QED
  BY <1>2, <1>3 DEF TypeInv, AgentsMade

\* Filling an agent's table or putting its scripts over it saves what the
\* entries of one list displace, and does nothing else to the lists.
LEMMA BackupsSaved ==
  ASSUME TypeInv, SetTable \/ InstallStatuses
  PROVE  \/ UNCHANGED scripts
         \/ \E k \in Key, table \in Table :
              scripts' = [scripts EXCEPT ![k] = Saved(scripts[k], table)]
<1>1. created \in AgentId /\ created <= created
  <2>1. created \in AgentId
    BY DEF SetTable, InstallStatuses, TypeInv, AgentsMade
  <2> QED
    BY <2>1, BoundsAssumption DEF AgentId
<1>2. agents[created].hash \in Key /\ agents[created].table \in Table /\ Common \in Key
  BY <1>1, AgentType DEF Key
<1>3. CASE SetTable
  <2> DEFINE given == [s \in Slot |-> Native(CommonNro, CommonNative[s])]
  <2>1. given \in Table
    BY DataAssumption, NativeType DEF Table, Home, TypeInv, TypeOK
  <2>2. \/ UNCHANGED scripts
        \/ scripts' = [scripts EXCEPT ![Common] = Saved(scripts[Common], given)]
    BY <1>3 DEF SetTable, TypeInv, TypeOK
  <2> HIDE DEF given
  <2> QED
    BY <1>2, <2>1, <2>2
<1>4. CASE InstallStatuses
  <2>1. scripts' = [scripts EXCEPT ![agents[created].hash] =
                      Saved(scripts[agents[created].hash], agents[created].table)]
    BY <1>4 DEF InstallStatuses
  <2> QED
    BY <1>2, <2>1
<1> QED
  BY <1>3, <1>4

LEMMA ListsSaved ==
  ASSUME TypeInv, SetTable \/ InstallStatuses
  PROVE  scripts' \in [Key -> SUBSET StatusInfo] /\ ListsNumbered'
<1>0. scripts \in [Key -> SUBSET StatusInfo] /\ \A k \in Key : Numbered(scripts[k])
  BY DEF TypeInv, TypeOK, ListsNumbered
<1>1. CASE UNCHANGED scripts
  BY <1>0, <1>1 DEF ListsNumbered
<1>2. ASSUME NEW k \in Key, NEW table \in Table,
             scripts' = [scripts EXCEPT ![k] = Saved(scripts[k], table)]
      PROVE  scripts' \in [Key -> SUBSET StatusInfo] /\ ListsNumbered'
  <2>1. /\ Saved(scripts[k], table) \in SUBSET StatusInfo
        /\ Numbered(Saved(scripts[k], table))
    BY <1>0, SavedType, SavedNumbered
  <2> QED
    BY <1>0, <1>2, <2>1 DEF ListsNumbered
<1> QED
  BY <1>1, <1>2, BackupsSaved

\* A request is given to the live agents that let it in, and recorded as one info.
Open(r) == {a \in IF commonInfo = 0 THEN {} ELSE Targets(r) : Displaceable(a, r)}
InfoOf(info, r) ==
  /\ info \in StatusInfo /\ info.slot = r.slot
  /\ info.low = r.low /\ info.fn = Replacement(r)
  /\ \/ info.backup = Null
     \/ \E a \in Open(r) : info.backup = agents[a].table[r.slot]

LEMMA StatusRequested ==
  ASSUME TypeInv, NEW r \in Request, ReplaceStatus(r)
  PROVE  /\ Open(r) \in SUBSET loadedAgents
         /\ \E info : /\ InfoOf(info, r)
                      /\ \/ ub' = TRUE /\ UNCHANGED <<agents, scripts>>
                         \/ /\ UNCHANGED ub /\ \A a \in Open(r) : agents[a].alive
                            /\ agents' = [a \in AgentId |->
                                 IF a \in Open(r)
                                 THEN [agents[a] EXCEPT !.table[r.slot] = Replacement(r)]
                                 ELSE agents[a]]
                            /\ scripts' = [scripts EXCEPT ![r.agent] =
                                             Recorded(scripts[r.agent], info)]
<1> DEFINE open   == Open(r)
           ptr    == Replacement(r)
           backup == IF open = {} THEN Null ELSE agents[LatestOf(open)].table[r.slot]
           info   == [slot |-> r.slot, low |-> r.low, fn |-> ptr,
                      backup |-> backup, at |-> 0]
<1>1. r.plugin \in Plugin /\ r.slot \in Slot /\ r.low \in BOOLEAN /\ r.fn \in Fn
  BY DataAssumption DEF RequestType
<1>2. ptr \in Pointer
  BY <1>1, ReplacementType DEF TypeInv
<1>3. open \in SUBSET loadedAgents
  BY DEF Open, Targets
<1>4. /\ backup \in Target
      /\ backup = Null \/ \E a \in open : backup = agents[a].table[r.slot]
  <2> HIDE DEF open
  <2>1. ASSUME open # {}
        PROVE  /\ LatestOf(open) \in open
               /\ agents[LatestOf(open)].table[r.slot] \in Target
    <3>1. open \in SUBSET AgentId
      BY <1>3, ListedAgent
    <3>2. LatestOf(open) \in open
      BY <2>1, <3>1, LastAgent DEF LatestOf
    <3>3. agents[LatestOf(open)].table \in Table
      BY <1>3, <3>2, ListedAgent, AgentType
    <3> QED
      BY <1>1, <3>2, <3>3 DEF Table
  <2> QED
    BY <2>1 DEF Target
<1>5. InfoOf(info, r)
  <2> HIDE DEF backup, ptr
  <2>1. info \in StatusInfo
    BY <1>1, <1>2, <1>4 DEF StatusInfo
  <2> QED
    BY <1>4, <2>1 DEF InfoOf, ptr
<1>6. \/ ub' = TRUE /\ UNCHANGED <<agents, scripts>>
      \/ /\ UNCHANGED ub /\ \A a \in open : agents[a].alive
         /\ agents' = [a \in AgentId |->
              IF a \in open THEN [agents[a] EXCEPT !.table[r.slot] = ptr] ELSE agents[a]]
         /\ scripts' = [scripts EXCEPT ![r.agent] = Recorded(scripts[r.agent], info)]
  BY DEF ReplaceStatus, Open
<1> HIDE DEF info
<1> QED
  BY <1>3, <1>5, <1>6

\* So is a request for a customizer, which is recorded if the customizer is free
\* or was given with low priority.
OpenWaza(r) == {a \in loadedAgents : /\ agents[a].hash = r.agent
                                     /\ \/ agents[a].waza = Null
                                        \/ OfAgent(agents[a].waza, a)}
WazaInfoOf(info, r) == /\ info \in StatusWazaInfo
                       /\ info.low = r.low /\ info.fn = Replacement(r)

LEMMA WazaRequested ==
  ASSUME TypeInv, NEW r \in WazaRequest, ReplaceWaza(r)
  PROVE  \E info : /\ WazaInfoOf(info, r)
                   /\ \/ ub' = TRUE /\ UNCHANGED <<agents, customizers>>
                      \/ /\ UNCHANGED ub
                         /\ agents' = [a \in AgentId |->
                              IF a \in OpenWaza(r)
                              THEN [agents[a] EXCEPT !.waza = Replacement(r)]
                              ELSE agents[a]]
                         /\ customizers' = IF TakesWaza(r.agent)
                                           THEN [customizers EXCEPT ![r.agent] = info]
                                           ELSE customizers
<1> DEFINE open   == OpenWaza(r)
           ptr    == Replacement(r)
           backup == IF open = {} THEN Null ELSE agents[LatestOf(open)].waza
           info   == [low |-> r.low, fn |-> ptr, backup |-> backup]
<1>1. r.plugin \in Plugin /\ r.low \in BOOLEAN /\ r.fn \in Fn
  BY DataAssumption DEF WazaRequestType
<1>2. ptr \in Pointer
  BY <1>1, ReplacementType DEF TypeInv
<1>3. backup \in Target
  <2>1. open \in SUBSET loadedAgents
    BY DEF OpenWaza
  <2> HIDE DEF open
  <2>2. ASSUME open # {} PROVE agents[LatestOf(open)].waza \in Target
    <3>1. open \in SUBSET AgentId
      BY <2>1, ListedAgent
    <3>2. LatestOf(open) \in open
      BY <2>2, <3>1, LastAgent DEF LatestOf
    <3> QED
      BY <2>1, <3>2, ListedAgent, AgentType
  <2> QED
    BY <2>2 DEF Target
<1>4. WazaInfoOf(info, r)
  <2> HIDE DEF backup, ptr
  <2>1. info \in StatusWazaInfo
    BY <1>1, <1>2, <1>3 DEF StatusWazaInfo
  <2> QED
    BY <2>1 DEF WazaInfoOf, ptr
<1>5. \/ ub' = TRUE /\ UNCHANGED <<agents, customizers>>
      \/ /\ UNCHANGED ub
         /\ agents' = [a \in AgentId |->
              IF a \in open THEN [agents[a] EXCEPT !.waza = ptr] ELSE agents[a]]
         /\ customizers' = IF TakesWaza(r.agent)
                           THEN [customizers EXCEPT ![r.agent] = info]
                           ELSE customizers
  <2> DEFINE targets == {a \in loadedAgents : agents[a].hash = r.agent}
  <2>1. open = {a \in targets : agents[a].waza = Null \/ OfAgent(agents[a].waza, a)}
    BY DEF OpenWaza
  <2> HIDE DEF open
  <2> QED BY <2>1 DEF ReplaceWaza
<1> HIDE DEF info
<1> QED
  BY <1>4, <1>5

\* TypeInv at the start: no list, no agent.
LEMMA InitTypeInv == Init => TypeInv
<1> SUFFICES ASSUME Init PROVE TypeInv
  OBVIOUS
<1>1. gen \in [Home -> 0..MaxGen] /\ mapped \subseteq Home
  BY BoundsAssumption DEF Init, Home
<1>2. /\ agents \in [AgentId -> Agent \cup {Null}] /\ created \in 0..MaxAgents
      /\ commonInfo \in 0..MaxGen /\ AgentsMade
  BY BoundsAssumption DEF Init, AgentId, AgentsMade
<1>3. /\ scripts \in [Key -> SUBSET StatusInfo]
      /\ customizers \in [Hash -> StatusWazaInfo \cup {Null}]
      /\ loadedAgents \subseteq 1..created /\ vtables \in [Module -> SUBSET (1..created)]
      /\ ListsNumbered
  BY DEF Init, ListsNumbered, Numbered
<1> QED
  BY <1>1, <1>2, <1>3 DEF TypeInv, TypeOK, Init

\* Nothing the types speak of is written but what is named.
LEMMA TypeUntouched ==
  ASSUME TypeInv, UNCHANGED <<agents, created, setting, scripts>>,
         gen' \in [Home -> 0..MaxGen], mapped' \subseteq Home,
         commonInfo' \in 0..MaxGen, resolver' \in BOOLEAN,
         loadedAgents' \subseteq loadedAgents,
         vtables' \in [Module -> SUBSET (1..created)],
         UNCHANGED customizers, issued' \subseteq Request \cup WazaRequest,
         phase' \in {"unloaded", "running", "no statuses", "no waza", "purged"},
         ub' \in BOOLEAN
  PROVE  TypeInv'
BY DEF TypeInv, TypeOK, AgentsMade, ListsNumbered

\* TypeInv, step by step: lists stay numbered, tables full, agents records.
LEMMA NextTypeInv == TypeInv /\ [Next]_vars => TypeInv'
<1> SUFFICES ASSUME TypeInv, [Next]_vars PROVE TypeInv'
  OBVIOUS
<1> USE BoundsAssumption DEF codeVars, commonVars, agentVars
<1>0. /\ TypeOK /\ AgentsMade
      /\ gen \in [Home -> 0..MaxGen] /\ mapped \subseteq Home
      /\ agents \in [AgentId -> Agent \cup {Null}] /\ created \in 0..MaxAgents
      /\ loadedAgents \subseteq 1..created
      /\ vtables \in [Module -> SUBSET (1..created)]
      /\ scripts \in [Key -> SUBSET StatusInfo]
      /\ \A k \in Key : Numbered(scripts[k])
      /\ customizers \in [Hash -> StatusWazaInfo \cup {Null}]
      /\ issued \subseteq Request \cup WazaRequest
  BY DEF TypeInv, TypeOK, ListsNumbered
<1>1. ASSUME LoadCommon PROVE TypeInv'
  <2>1. /\ gen' \in [Home -> 0..MaxGen] /\ mapped' \subseteq Home
        /\ commonInfo' \in 0..MaxGen
    BY <1>0, <1>1 DEF LoadCommon, Home
  <2>2. \A k \in Key : scripts'[k] \in SUBSET scripts[k]
    BY <1>1 DEF LoadCommon, Normalised
  <2>3. scripts' \in [Key -> SUBSET StatusInfo] /\ ListsNumbered'
    <3>1. \A k \in Key : Numbered(scripts'[k])
      BY <1>0, <2>2, SubsetNumbered
    <3>2. scripts' = [k \in Key |-> Normalised(scripts[k])]
      BY <1>1 DEF LoadCommon
    <3> QED
      BY <1>0, <2>2, <3>1, <3>2 DEF ListsNumbered
  <2> QED
    BY <1>0, <1>1, <2>1, <2>3 DEF LoadCommon, TypeInv, TypeOK, AgentsMade
<1>2. ASSUME UnloadCommon PROVE TypeInv'
  BY <1>0, <1>2, TypeUntouched DEF UnloadCommon, TypeOK
<1>3. ASSUME NEW m \in Module, NroLoad(m) PROVE TypeInv'
  <2>1. gen' \in [Home -> 0..MaxGen] /\ mapped' \subseteq Home
    BY <1>0, <1>3 DEF NroLoad, Home
  <2> QED
    BY <1>0, <1>3, <2>1, TypeUntouched DEF NroLoad, TypeOK
<1>4. ASSUME NEW m \in Module, NroUnload(m) PROVE TypeInv'
  <2>1. /\ mapped' \subseteq Home /\ loadedAgents' \subseteq loadedAgents
        /\ vtables' \in [Module -> SUBSET (1..created)]
    BY <1>0, <1>4 DEF NroUnload, Released
  <2> QED
    BY <1>0, <1>4, <2>1, TypeUntouched DEF NroUnload, TypeOK
<1>5. ASSUME NEW m \in Module, NEW h \in Hash, CreateAgent(m, h) PROVE TypeInv'
  <2> DEFINE new == [module |-> m, gen |-> gen[m], hash |-> h, alive |-> TRUE,
                     table |-> [s \in Slot |-> Null], waza |-> Null]
  <2>1. new \in Agent /\ new # Null
    <3>1. new \in Agent
      BY <1>0 DEF Agent, Home, Target
    <3> HIDE DEF new
    <3> QED BY <3>1, NamesAssumption
  <2>2. /\ created' = created + 1 /\ created + 1 \in AgentId
        /\ agents' = [agents EXCEPT ![created + 1] = new]
        /\ loadedAgents' = loadedAgents \cup {created + 1}
        /\ vtables' = [vtables EXCEPT ![m] = @ \cup {created + 1}]
    BY <1>0, <1>5 DEF CreateAgent, AgentId
  <2> HIDE DEF new
  <2>3. /\ agents' \in [AgentId -> Agent \cup {Null}]
        /\ \A a \in AgentId : agents'[a] # Null <=> a <= created'
    <3>1. agents' \in [AgentId -> Agent \cup {Null}]
      BY <1>0, <2>1, <2>2
    <3>2. \A a \in AgentId : agents'[a] # Null <=> a <= created'
      BY <1>0, <2>1, <2>2 DEF AgentsMade, AgentId
    <3> QED
      BY <3>1, <3>2
  <2>4. /\ created' \in 0..MaxAgents /\ created' \in AgentId
        /\ loadedAgents' \subseteq 1..created'
        /\ vtables' \in [Module -> SUBSET (1..created')]
    BY <1>0, <2>2 DEF AgentId
  <2>5. TypeOK'
    BY <1>0, <1>5, <2>3, <2>4 DEF CreateAgent, TypeOK
  <2> QED
    BY <1>0, <1>5, <2>3, <2>4, <2>5 DEF CreateAgent, TypeInv, AgentsMade, ListsNumbered
<1>6. ASSUME SetTable PROVE TypeInv'
  <2> DEFINE m     == agents[created].module
             given == [s \in Slot |-> Native(CommonNro, CommonNative[s])]
             fighter == agents[created].hash \in FighterHash
             under == IF fighter THEN Overlay(given, scripts[Common])
                      ELSE agents[created].table
             table == [s \in Slot |-> IF Export[m].native[s] = Null THEN under[s]
                                      ELSE Native(m, Export[m].native[s])]
             new   == [agents[created] EXCEPT !.table = table,
                         !.waza = Native(m, Export[m].waza)]
  <2>1. /\ created \in AgentId /\ agents[created] \in Agent
        /\ m \in Module /\ agents[created].table \in Table
        /\ scripts[Common] \in SUBSET StatusInfo
    <3>1. created \in AgentId /\ created <= created
      BY <1>0, <1>6 DEF SetTable, AgentsMade
    <3> QED
      BY <3>1, AgentType
  <2>2. given \in Table
    BY <1>0, DataAssumption, NativeType DEF Table, Home
  <2>3. under \in Table
    <3> HIDE DEF given
    <3> QED BY <2>1, <2>2, OverlayType
  <2>4. table \in Table /\ Native(m, Export[m].waza) \in Target
    <3>1. Export[m] \in ExportType /\ m \in Home
      BY <2>1, DataAssumption DEF Home
    <3>2. /\ \A s \in Slot : Native(m, Export[m].native[s]) \in Target
          /\ Native(m, Export[m].waza) \in Target
      BY <1>0, <3>1, NativeType DEF ExportType
    <3> HIDE DEF under, m
    <3> QED BY <2>3, <3>2 DEF Table
  <2>5. /\ agents' = [agents EXCEPT ![created] = new]
        /\ scripts' = [scripts EXCEPT ![Common] =
                         IF fighter THEN Saved(@, given) ELSE @]
        /\ UNCHANGED created
    BY <1>6 DEF SetTable
  <2>6. new \in Agent
    <3> HIDE DEF table, m
    <3> QED BY <2>1, <2>4 DEF Agent, Table
  <2>7. agents' \in [AgentId -> Agent \cup {Null}] /\ AgentsMade'
    <3> HIDE DEF new
    <3>1. new # Null /\ agents[created] # Null
      BY <2>1, <2>6, NamesAssumption
    <3> QED BY <1>0, <2>1, <2>5, <2>6, <3>1 DEF AgentsMade
  <2>8. scripts' \in [Key -> SUBSET StatusInfo] /\ ListsNumbered'
    BY <1>0, <1>6, ListsSaved
  <2> QED
    BY <1>0, <1>6, <2>7, <2>8 DEF SetTable, TypeInv, TypeOK
<1>7. ASSUME InstallStatuses PROVE TypeInv'
  <2> DEFINE h     == agents[created].hash
             table == agents[created].table
             new   == [agents[created] EXCEPT !.table = Overlay(table, scripts[h])]
  <2>1. created \in AgentId /\ created <= created
    BY <1>0, <1>7 DEF InstallStatuses, AgentsMade
  <2>2. /\ agents[created] \in Agent /\ h \in Hash /\ table \in Table
        /\ scripts[h] \in SUBSET StatusInfo
    BY <2>1, AgentType
  <2>3. /\ agents' = [agents EXCEPT ![created] = new]
        /\ scripts' = [scripts EXCEPT ![h] = Saved(scripts[h], table)]
        /\ UNCHANGED created
    BY <1>7 DEF InstallStatuses
  <2>4. new \in Agent
    <3>1. Overlay(table, scripts[h]) \in Table
      BY <2>2, OverlayType
    <3> HIDE DEF h, table
    <3> QED BY <2>2, <3>1 DEF Agent, Table
  <2>5. agents' \in [AgentId -> Agent \cup {Null}] /\ AgentsMade'
    <3> HIDE DEF new
    <3>1. new # Null /\ agents[created] # Null
      BY <2>2, <2>4, NamesAssumption
    <3> QED BY <1>0, <2>1, <2>3, <2>4, <3>1 DEF AgentsMade
  <2>6. scripts' \in [Key -> SUBSET StatusInfo] /\ ListsNumbered'
    BY <1>0, <1>7, ListsSaved
  <2> QED
    BY <1>0, <1>7, <2>5, <2>6 DEF InstallStatuses, TypeInv, TypeOK
<1>8. ASSUME InstallWaza PROVE TypeInv'
  <2> DEFINE h    == agents[created].hash
             new  == [agents[created] EXCEPT !.waza = customizers[h].fn]
             info == [customizers[h] EXCEPT !.backup = agents[created].waza]
  <2>1. created \in AgentId /\ created <= created
    BY <1>0, <1>8 DEF InstallWaza, AgentsMade
  <2>2. agents[created] \in Agent /\ h \in Hash /\ agents[created].waza \in Target
    BY <2>1, AgentType
  <2>3. /\ UNCHANGED <<scripts, created>>
        /\ \/ UNCHANGED <<agents, customizers>>
           \/ /\ customizers[h] # Null
              /\ agents' = [agents EXCEPT ![created] = new]
              /\ customizers' = [customizers EXCEPT ![h] = info]
    BY <1>8 DEF InstallWaza
  <2>4. ASSUME customizers[h] # Null PROVE new \in Agent /\ info \in StatusWazaInfo
    <3>1. customizers[h] \in StatusWazaInfo
      BY <1>0, <2>2, <2>4
    <3> HIDE DEF h
    <3> QED BY <2>2, <3>1 DEF StatusWazaInfo, Agent, Target
  <2>5. agents' \in [AgentId -> Agent \cup {Null}] /\ AgentsMade'
    <3> HIDE DEF new
    <3>1. customizers[h] # Null => new # Null
      BY <2>4, NamesAssumption
    <3>2. agents[created] # Null
      BY <2>1, AgentType
    <3> HIDE DEF h, info
    <3>3. setting' = "nothing"
      BY <1>8 DEF InstallWaza
    <3>4. CASE UNCHANGED agents
      BY <1>0, <2>3, <3>3, <3>4 DEF AgentsMade
    <3>5. CASE customizers[h] # Null /\ agents' = [agents EXCEPT ![created] = new]
      BY <1>0, <2>1, <2>3, <2>4, <3>1, <3>2, <3>3, <3>5 DEF AgentsMade
    <3> QED BY <2>3, <3>4, <3>5
  <2>6. customizers' \in [Hash -> StatusWazaInfo \cup {Null}]
    <3> HIDE DEF h, info, new
    <3> QED BY <1>0, <2>2, <2>3, <2>4
  <2> QED
    BY <1>0, <1>8, <2>5, <2>6 DEF InstallWaza, TypeInv, TypeOK, ListsNumbered
<1>9. ASSUME NEW a \in AgentId, DestroyAgent(a) PROVE TypeInv'
  <2> DEFINE new == [agents[a] EXCEPT !.alive = FALSE]
  <2>1. agents[a] \in Agent /\ agents[a] # Null /\ a <= created
    BY <1>0, <1>9 DEF DestroyAgent, Live, AgentsMade
  <2>2. new \in Agent
    BY <2>1 DEF Agent
  <2>3. agents' = [agents EXCEPT ![a] = new]
    BY <1>9 DEF DestroyAgent
  <2>4. agents' \in [AgentId -> Agent \cup {Null}] /\ AgentsMade'
    <3> HIDE DEF new
    <3>1. agents' = [b \in AgentId |-> agents'[b]]
      BY <1>0, <2>3
    <3>2. \A b \in AgentId : agents'[b] = agents[b] \/ (b <= created /\ agents'[b] \in Agent)
      BY <1>0, <2>1, <2>2, <2>3
    <3>3. UNCHANGED <<created, setting>>
      BY <1>9 DEF DestroyAgent
    <3> QED BY <3>1, <3>2, <3>3, AgentsWritten
  <2> QED
    BY <1>0, <1>9, <2>4 DEF DestroyAgent, TypeInv, TypeOK, ListsNumbered
<1>10. ASSUME NEW r \in Request, ReplaceStatus(r) PROVE TypeInv'
  <2> DEFINE open == Open(r)
             ptr  == Replacement(r)
  <2>1. r.plugin \in Plugin /\ r.agent \in Key /\ r.slot \in Slot /\ r.fn \in Fn
    BY DataAssumption DEF RequestType
  <2>2. ptr \in Target /\ open \in SUBSET loadedAgents
    BY <1>0, <1>10, <2>1, ReplacementType, StatusRequested
  <2>3. /\ issued' = issued \cup {r}
        /\ UNCHANGED <<gen, mapped, resolver, commonInfo, created, setting,
                       loadedAgents, vtables, customizers, phase>>
    BY <1>10 DEF ReplaceStatus
  <2>4. PICK info : /\ InfoOf(info, r)
                    /\ \/ ub' = TRUE /\ UNCHANGED <<agents, scripts>>
                       \/ /\ UNCHANGED ub
                          /\ agents' = [a \in AgentId |->
                               IF a \in open
                               THEN [agents[a] EXCEPT !.table[r.slot] = ptr]
                               ELSE agents[a]]
                          /\ scripts' = [scripts EXCEPT ![r.agent] =
                                           Recorded(scripts[r.agent], info)]
    BY <1>10, StatusRequested
  <2> HIDE DEF ptr, open
  <2>5. agents' \in [AgentId -> Agent \cup {Null}] /\ AgentsMade'
    <3>1. CASE UNCHANGED agents
      BY <1>0, <2>3, <3>1 DEF AgentsMade
    <3>2. CASE agents' = [a \in AgentId |->
                 IF a \in open THEN [agents[a] EXCEPT !.table[r.slot] = ptr]
                 ELSE agents[a]]
      <4>1. \A a \in open : /\ a \in AgentId /\ a <= created
                            /\ [agents[a] EXCEPT !.table[r.slot] = ptr] \in Agent
        <5>1. TAKE a \in open
        <5>2. a \in AgentId /\ a <= created
          BY <2>2, ListedAgent
        <5>3. agents[a] \in Agent
          BY <5>2, AgentType
        <5> QED BY <2>1, <2>2, <5>2, <5>3 DEF Agent
      <4>2. \A a \in AgentId : agents'[a] = agents[a] \/ (a <= created /\ agents'[a] \in Agent)
        BY <3>2, <4>1
      <4> QED
        BY <2>3, <3>2, <4>2, AgentsWritten
    <3> QED
      BY <2>4, <3>1, <3>2
  <2>6. scripts' \in [Key -> SUBSET StatusInfo] /\ ListsNumbered'
    <3>1. /\ Recorded(scripts[r.agent], info) \in SUBSET StatusInfo
          /\ Numbered(Recorded(scripts[r.agent], info))
      BY <1>0, <2>1, <2>4, RecordedType DEF InfoOf
    <3> QED
      BY <1>0, <2>1, <2>4, <3>1 DEF ListsNumbered
  <2> QED
    BY <1>0, <2>3, <2>4, <2>5, <2>6 DEF TypeInv, TypeOK
<1>11. ASSUME NEW r \in WazaRequest, ReplaceWaza(r) PROVE TypeInv'
  <2> DEFINE open == OpenWaza(r)
             ptr  == Replacement(r)
  <2>1. r.plugin \in Plugin /\ r.agent \in Hash /\ r.fn \in Fn
    BY DataAssumption DEF WazaRequestType
  <2>2. ptr \in Target /\ open \in SUBSET loadedAgents
    BY <1>0, <2>1, ReplacementType DEF OpenWaza
  <2>3. /\ issued' = issued \cup {r}
        /\ UNCHANGED <<gen, mapped, resolver, commonInfo, created, setting,
                       loadedAgents, vtables, scripts, phase>>
    BY <1>11 DEF ReplaceWaza
  <2>4. PICK info : /\ WazaInfoOf(info, r)
                    /\ \/ ub' = TRUE /\ UNCHANGED <<agents, customizers>>
                       \/ /\ UNCHANGED ub
                          /\ agents' = [a \in AgentId |->
                               IF a \in open THEN [agents[a] EXCEPT !.waza = ptr]
                               ELSE agents[a]]
                          /\ customizers' = IF TakesWaza(r.agent)
                                            THEN [customizers EXCEPT ![r.agent] = info]
                                            ELSE customizers
    BY <1>11, WazaRequested
  <2> HIDE DEF ptr, open
  <2>5. agents' \in [AgentId -> Agent \cup {Null}] /\ AgentsMade'
    <3>1. CASE UNCHANGED agents
      BY <1>0, <2>3, <3>1 DEF AgentsMade
    <3>2. CASE agents' = [a \in AgentId |->
                 IF a \in open THEN [agents[a] EXCEPT !.waza = ptr] ELSE agents[a]]
      <4>1. \A a \in open : /\ a \in AgentId /\ a <= created
                            /\ [agents[a] EXCEPT !.waza = ptr] \in Agent
        <5>1. TAKE a \in open
        <5>2. a \in AgentId /\ a <= created
          BY <2>2, ListedAgent
        <5>3. agents[a] \in Agent
          BY <5>2, AgentType
        <5> QED BY <2>2, <5>2, <5>3 DEF Agent
      <4>2. \A a \in AgentId : agents'[a] = agents[a] \/ (a <= created /\ agents'[a] \in Agent)
        BY <3>2, <4>1
      <4> QED
        BY <2>3, <3>2, <4>2, AgentsWritten
    <3> QED
      BY <2>4, <3>1, <3>2
  <2>6. customizers' \in [Hash -> StatusWazaInfo \cup {Null}]
    BY <1>0, <2>4 DEF WazaInfoOf
  <2> QED
    BY <1>0, <2>3, <2>4, <2>5, <2>6 DEF TypeInv, TypeOK, ListsNumbered
<1>12. ASSUME LoadDev PROVE TypeInv'
  <2>1. gen' \in [Home -> 0..MaxGen] /\ mapped' \subseteq Home
    BY <1>0, <1>12, NamesAssumption DEF LoadDev, Home
  <2> QED
    BY <1>0, <1>12, <2>1, TypeUntouched DEF LoadDev, TypeOK
<1>13. ASSUME RemoveLiveStatuses PROVE TypeInv'
  <2>1. agents' \in [AgentId -> Agent \cup {Null}] /\ AgentsMade'
    <3>1. CASE UNCHANGED agents
      BY <1>0, <1>13, <3>1 DEF RemoveLiveStatuses, AgentsMade
    <3>2. CASE agents' = [a \in AgentId |->
                 IF a \in loadedAgents THEN [agents[a] EXCEPT !.table = Undone(a)]
                 ELSE agents[a]]
      <4>1. \A a \in loadedAgents : /\ a \in AgentId /\ a <= created
                                    /\ [agents[a] EXCEPT !.table = Undone(a)] \in Agent
        <5>1. TAKE a \in loadedAgents
        <5>2. a \in AgentId /\ a <= created
          BY ListedAgent
        <5>3. /\ agents[a] \in Agent /\ agents[a].table \in Table
              /\ FromDev(scripts[agents[a].hash]) \in SUBSET StatusInfo
              /\ FromDev(scripts[Common]) \in SUBSET StatusInfo
          BY <5>2, AgentType DEF FromDev
        <5>4. Undone(a) \in Table
          BY <5>3, OverlayType DEF Undone
        <5> QED BY <5>2, <5>3, <5>4 DEF Agent, Table
      <4>2. \A a \in AgentId : agents'[a] = agents[a] \/ (a <= created /\ agents'[a] \in Agent)
        BY <3>2, <4>1
      <4>3. UNCHANGED <<created, setting>>
        BY <1>13 DEF RemoveLiveStatuses
      <4> QED
        BY <3>2, <4>2, <4>3, AgentsWritten
    <3> QED
      BY <1>13, <3>1, <3>2 DEF RemoveLiveStatuses
  <2> QED
    BY <1>0, <1>13, <2>1 DEF RemoveLiveStatuses, TypeInv, TypeOK, ListsNumbered
<1>14. ASSUME RemoveLiveWaza PROVE TypeInv'
  <2> DEFINE touched == {a \in loadedAgents : customizers[agents[a].hash] # Null}
  <2>1. agents' \in [AgentId -> Agent \cup {Null}] /\ AgentsMade'
    <3>1. CASE UNCHANGED agents
      BY <1>0, <1>14, <3>1 DEF RemoveLiveWaza, AgentsMade
    <3>2. CASE agents' = [a \in AgentId |->
                 IF a \in touched
                 THEN [agents[a] EXCEPT !.waza = customizers[agents[a].hash].backup]
                 ELSE agents[a]]
      <4>1. \A a \in touched :
              /\ a \in AgentId /\ a <= created
              /\ [agents[a] EXCEPT !.waza = customizers[agents[a].hash].backup] \in Agent
        <5>1. TAKE a \in touched
        <5>2. a \in AgentId /\ a <= created
          BY ListedAgent
        <5>3. agents[a] \in Agent /\ agents[a].hash \in Hash
          BY <5>2, AgentType
        <5>4. customizers[agents[a].hash].backup \in Target
          BY <1>0, <5>3 DEF StatusWazaInfo
        <5> QED BY <5>2, <5>3, <5>4 DEF Agent
      <4>2. \A a \in AgentId : agents'[a] = agents[a] \/ (a <= created /\ agents'[a] \in Agent)
        BY <3>2, <4>1
      <4>3. UNCHANGED <<created, setting>>
        BY <1>14 DEF RemoveLiveWaza
      <4> QED
        BY <3>2, <4>2, <4>3, AgentsWritten
    <3> QED
      BY <1>14, <3>1, <3>2 DEF RemoveLiveWaza
  <2> QED
    BY <1>0, <1>14, <2>1 DEF RemoveLiveWaza, TypeInv, TypeOK, ListsNumbered
<1>15. ASSUME PurgeStatuses PROVE TypeInv'
  <2>1. scripts' = Purged /\ \A k \in Key : NotFromDev(scripts[k]) \in SUBSET scripts[k]
    BY <1>15 DEF PurgeStatuses, NotFromDev
  <2>2. scripts' \in [Key -> SUBSET StatusInfo] /\ ListsNumbered'
    <3>1. \A k \in Key : Numbered(NotFromDev(scripts[k]))
      BY <1>0, <2>1, SubsetNumbered
    <3> QED
      BY <1>0, <2>1, <3>1 DEF Purged, ListsNumbered
  <2> QED
    BY <1>0, <1>15, <2>2 DEF PurgeStatuses, TypeInv, TypeOK, AgentsMade
<1>16. ASSUME UnloadDev PROVE TypeInv'
  BY <1>0, <1>16, TypeUntouched DEF UnloadDev, TypeOK
<1>17. ASSUME UNCHANGED vars PROVE TypeInv'
  BY <1>0, <1>17, TypeUntouched DEF vars, TypeOK
<1> QED
  BY <1>1, <1>2, <1>3, <1>4, <1>5, <1>6, <1>7, <1>8, <1>9, <1>10, <1>11, <1>12,
     <1>13, <1>14, <1>15, <1>16, <1>17 DEF Next, Game, Ask, Loader

\* TypeOK, over every run: the requests, the installations in live and new
\* agents, the resolution and the purges keep the registries' lists ordered and
\* the agents' tables full of functions.
THEOREM TypeCorrect == Spec => []TypeOK
<1>1. TypeInv => TypeOK
  BY DEF TypeInv
<1> QED
  BY <1>1, InitTypeInv, NextTypeInv, PTL DEF Spec

-----------------------------------------------------------------------------
(* The agents, their vtables and "common".                                 *)

\* No step changes what an agent is, none brings one back to life, and only one
\* ends it.
SameAgent(a) ==
  /\ agents'[a].module = agents[a].module /\ agents'[a].gen = agents[a].gen
  /\ agents'[a].hash = agents[a].hash
  /\ agents'[a].alive => agents[a].alive
  /\ agents[a].alive => agents'[a].alive \/ DestroyAgent(a)

LEMMA AgentsKept ==
  ASSUME TypeInv, [Next]_vars, NEW a \in AgentId, a <= created
  PROVE  SameAgent(a)
<1> USE DEF SameAgent
<1>0. agents \in [AgentId -> Agent \cup {Null}] /\ agents[a] \in Agent
  BY AgentType DEF TypeInv, TypeOK
<1>1. \A t, w : /\ [agents[a] EXCEPT !.table = t].module = agents[a].module
                /\ [agents[a] EXCEPT !.table = t].gen = agents[a].gen
                /\ [agents[a] EXCEPT !.table = t].hash = agents[a].hash
                /\ [agents[a] EXCEPT !.table = t].alive = agents[a].alive
                /\ [agents[a] EXCEPT !.waza = w].module = agents[a].module
                /\ [agents[a] EXCEPT !.waza = w].gen = agents[a].gen
                /\ [agents[a] EXCEPT !.waza = w].hash = agents[a].hash
                /\ [agents[a] EXCEPT !.waza = w].alive = agents[a].alive
  BY <1>0 DEF Agent
<1>2. CASE agents'[a] = agents[a]
  BY <1>2
<1>3. CASE \E t, w : \/ agents'[a] = [agents[a] EXCEPT !.table = t]
                     \/ agents'[a] = [agents[a] EXCEPT !.waza = w]
                     \/ agents'[a] = [agents[a] EXCEPT !.table = t, !.waza = w]
  <2>1. PICK t, w : \/ agents'[a] = [agents[a] EXCEPT !.table = t]
                    \/ agents'[a] = [agents[a] EXCEPT !.waza = w]
                    \/ agents'[a] = [agents[a] EXCEPT !.table = t, !.waza = w]
    BY <1>3
  <2> QED
    BY <1>0, <1>1, <2>1 DEF Agent
<1>4. CASE \E b \in AgentId : DestroyAgent(b)
  <2>1. PICK b \in AgentId : DestroyAgent(b)
    BY <1>4
  <2>2. CASE b = a
    <3>1. agents'[a] = [agents[a] EXCEPT !.alive = FALSE]
      BY <1>0, <2>1, <2>2 DEF DestroyAgent
    <3> QED
      BY <1>0, <2>1, <2>2, <3>1 DEF Agent
  <2>3. CASE b # a
    BY <1>0, <2>1, <2>3 DEF DestroyAgent
  <2> QED
    BY <2>2, <2>3
<1>5. CASE \E m \in Module, h \in Hash : CreateAgent(m, h)
  <2>1. PICK m \in Module, h \in Hash : CreateAgent(m, h)
    BY <1>5
  <2>2. a # created + 1
    <3>1. created \in 0..MaxAgents
      BY DEF TypeInv, TypeOK
    <3> QED
      BY <3>1, BoundsAssumption DEF AgentId
  <2>3. agents'[a] = agents[a]
    BY <1>0, <2>1, <2>2 DEF CreateAgent
  <2> QED
    BY <2>3
<1>6. CASE SetTable
  <2>1. PICK t, w : agents' = [agents EXCEPT ![created].table = t, ![created].waza = w]
    BY <1>6 DEF SetTable
  <2>2. agents'[a] = agents[a] \/ agents'[a] = [agents[a] EXCEPT !.table = t, !.waza = w]
    BY <1>0, <2>1
  <2> QED
    BY <1>2, <1>3, <2>2
<1>7. CASE InstallStatuses
  <2>1. PICK t : agents' = [agents EXCEPT ![created].table = t]
    BY <1>7 DEF InstallStatuses
  <2>2. agents'[a] = agents[a] \/ agents'[a] = [agents[a] EXCEPT !.table = t]
    BY <1>0, <2>1
  <2> QED
    BY <1>2, <1>3, <2>2
<1>8. CASE InstallWaza
  <2>1. agents' = agents \/ \E w : agents' = [agents EXCEPT ![created].waza = w]
    BY <1>8 DEF InstallWaza
  <2>2. agents'[a] = agents[a] \/ \E w : agents'[a] = [agents[a] EXCEPT !.waza = w]
    BY <1>0, <2>1
  <2> QED
    BY <1>2, <1>3, <2>2
<1>9. CASE \E r \in Request : ReplaceStatus(r)
  <2>1. PICK r \in Request : ReplaceStatus(r)
    BY <1>9
  <2>2. agents'[a] = agents[a] \/ agents'[a] = [agents[a] EXCEPT !.table[r.slot] = Replacement(r)]
    BY <1>0, <2>1 DEF ReplaceStatus
  <2>3. agents'[a] = agents[a] \/ \E t : agents'[a] = [agents[a] EXCEPT !.table = t]
    BY <1>0, <2>2 DEF Agent
  <2> QED
    BY <1>2, <1>3, <2>3
<1>10. CASE \E r \in WazaRequest : ReplaceWaza(r)
  <2>1. PICK r \in WazaRequest : ReplaceWaza(r)
    BY <1>10
  <2>2. agents'[a] = agents[a] \/ agents'[a] = [agents[a] EXCEPT !.waza = Replacement(r)]
    BY <1>0, <2>1 DEF ReplaceWaza
  <2> QED
    BY <1>2, <1>3, <2>2
<1>11. CASE RemoveLiveStatuses
  <2>1. agents'[a] = agents[a] \/ agents'[a] = [agents[a] EXCEPT !.table = Undone(a)]
    BY <1>0, <1>11 DEF RemoveLiveStatuses
  <2> QED
    BY <1>2, <1>3, <2>1
<1>12. CASE RemoveLiveWaza
  <2>1. \/ agents'[a] = agents[a]
        \/ agents'[a] = [agents[a] EXCEPT !.waza = customizers[agents[a].hash].backup]
    BY <1>0, <1>12 DEF RemoveLiveWaza
  <2> QED
    BY <1>2, <1>3, <2>1
<1>13. CASE UNCHANGED agents
  BY <1>2, <1>13
<1>14. ASSUME LoadCommon \/ UnloadCommon \/ (\E m \in Module : NroLoad(m) \/ NroUnload(m))
              \/ LoadDev \/ PurgeStatuses \/ UnloadDev \/ UNCHANGED vars
       PROVE  UNCHANGED agents
  BY <1>14 DEF LoadCommon, UnloadCommon, NroLoad, NroUnload, LoadDev,
               PurgeStatuses, UnloadDev, vars
<1> QED
  BY <1>4, <1>5, <1>6, <1>7, <1>8, <1>9, <1>10, <1>11, <1>12, <1>13, <1>14
  DEF Next, Game, Ask, Loader

\* The modules in memory, their instances, and the agents made.
ModulesUntouched ==
  /\ \A m \in Module \cup {CommonNro} :
       gen'[m] = gen[m] /\ (m \in mapped' <=> m \in mapped)
  /\ UNCHANGED <<created, resolver, commonInfo>>

\* All that touches them is the game.
LEMMA ModulesTouched ==
  ASSUME TypeInv, [Next]_vars
  PROVE  \/ LoadCommon \/ UnloadCommon
         \/ \E m \in Module : NroLoad(m) \/ NroUnload(m)
         \/ \E m \in Module, h \in Hash : CreateAgent(m, h)
         \/ ModulesUntouched /\ UNCHANGED vtables
<1> USE DEF ModulesUntouched, codeVars, commonVars, agentVars
<1>1. gen \in [Home -> 0..MaxGen] /\ \A m \in Module \cup {CommonNro} : m # Dev
  BY NamesAssumption DEF TypeInv, TypeOK
<1>2. ASSUME LoadDev \/ UnloadDev PROVE ModulesUntouched /\ UNCHANGED vtables
  BY <1>1, <1>2 DEF LoadDev, UnloadDev, Home
<1>3. ASSUME \/ SetTable \/ InstallStatuses \/ InstallWaza
             \/ RemoveLiveStatuses \/ RemoveLiveWaza \/ PurgeStatuses
             \/ \E a \in AgentId : DestroyAgent(a)
             \/ \E r \in Request : ReplaceStatus(r)
             \/ \E r \in WazaRequest : ReplaceWaza(r)
             \/ UNCHANGED vars
      PROVE  ModulesUntouched /\ UNCHANGED vtables
  BY <1>3 DEF SetTable, InstallStatuses, InstallWaza, DestroyAgent, ReplaceStatus,
              ReplaceWaza, RemoveLiveStatuses, RemoveLiveWaza, PurgeStatuses, vars
<1> QED
  BY <1>2, <1>3 DEF Next, Game, Ask, Loader

\* At the start no "common", no vtable.
LEMMA InitCommon == Init => CommonInv /\ VtablesExact
<1> SUFFICES ASSUME Init PROVE CommonInv /\ VtablesExact
  OBVIOUS
<1>1. CommonInv
  BY NamesAssumption DEF Init, CommonInv, Home
<1>2. VtablesExact
  BY DEF Init, VtablesExact, Live
<1> QED
  BY <1>1, <1>2

\* CommonInv, step by step: the loads and unloads of "common" and of fighter
\* modules (status.rs:104-112, lib.rs:56-77).
LEMMA NextCommon == TypeInv /\ CommonInv /\ [Next]_vars => CommonInv'
<1> SUFFICES ASSUME TypeInv, CommonInv, [Next]_vars PROVE CommonInv'
  OBVIOUS
<1> USE DEF codeVars, commonVars, agentVars
<1>0. /\ gen \in [Home -> 0..MaxGen] /\ created \in 0..MaxAgents
      /\ commonInfo \in 0..MaxGen /\ CommonNro \notin Module /\ CommonNro \in Home
  BY NamesAssumption DEF TypeInv, TypeOK, Home
<1>1. ASSUME LoadCommon PROVE CommonInv'
  <2>1. /\ gen' = [gen EXCEPT ![CommonNro] = @ + 1] /\ commonInfo' = gen[CommonNro] + 1
        /\ resolver' = TRUE /\ CommonNro \in mapped' /\ created' = created
    BY <1>1 DEF LoadCommon
  <2>2. commonInfo' = gen'[CommonNro] /\ commonInfo' # 0
    BY <1>0, <2>1, BoundsAssumption
  <2> QED
    BY <2>1, <2>2 DEF CommonInv
<1>2. ASSUME UnloadCommon PROVE CommonInv'
  BY <1>0, <1>2 DEF UnloadCommon, CommonInv
<1>3. ASSUME NEW m \in Module, NroLoad(m) PROVE CommonInv'
  BY <1>0, <1>3 DEF NroLoad, CommonInv
<1>4. ASSUME NEW m \in Module, NroUnload(m) PROVE CommonInv'
  BY <1>0, <1>4 DEF NroUnload, CommonInv
<1>5. ASSUME NEW m \in Module, NEW h \in Hash, CreateAgent(m, h) PROVE CommonInv'
  BY <1>0, <1>5 DEF CreateAgent, CommonInv
<1>6. ASSUME ModulesUntouched PROVE CommonInv'
  <2>1. mapped' \cap Module = mapped \cap Module
    BY <1>6 DEF ModulesUntouched
  <2> QED
    BY <1>6, <2>1 DEF ModulesUntouched, CommonInv
<1> QED
  BY <1>1, <1>2, <1>3, <1>4, <1>5, <1>6, ModulesTouched

\* VtablesExact, step by step (scripts.rs:145-169 and 347-359).
LEMMA NextVtables == TypeInv /\ VtablesExact /\ [Next]_vars => VtablesExact'
<1> SUFFICES ASSUME TypeInv, VtablesExact, [Next]_vars PROVE VtablesExact'
  OBVIOUS
<1> USE DEF codeVars, commonVars, agentVars
<1>0. /\ gen \in [Home -> 0..MaxGen] /\ created \in 0..MaxAgents
      /\ vtables \in [Module -> SUBSET (1..created)] /\ Module \subseteq Home
      /\ \A a \in AgentId : Live(a) => /\ a \in vtables[agents[a].module]
                                       /\ agents[a].module \in Module /\ a <= created
      /\ \A m \in Module : \A a \in vtables[m] :
           /\ a \in AgentId /\ a <= created /\ m \in mapped
           /\ agents[a].module = m /\ agents[a].gen = gen[m]
  <2>1. \A a \in AgentId : Live(a) => a <= created
    BY DEF TypeInv, AgentsMade, Live
  <2>2. \A m \in Module : \A a \in vtables[m] : a \in AgentId /\ a <= created
    <3>1. \A m \in Module : \A a \in vtables[m] : a \in 1..created
      BY DEF TypeInv, TypeOK
    <3>2. created \in 0..MaxAgents
      BY DEF TypeInv, TypeOK
    <3> QED
      BY <3>1, <3>2, BoundsAssumption DEF AgentId
  <2> QED
    BY <2>1, <2>2, AgentType DEF VtablesExact, TypeInv, TypeOK, Home, InstanceOf
<1>1. \A a \in AgentId : a <= created => SameAgent(a) /\ (Live(a)' => Live(a))
  <2> SUFFICES ASSUME NEW a \in AgentId, a <= created
               PROVE  SameAgent(a) /\ (Live(a)' => Live(a))
    OBVIOUS
  <2>1. SameAgent(a) /\ agents[a] # Null
    BY AgentsKept, AgentType
  <2> QED
    BY <2>1 DEF SameAgent, Live
<1>2. ASSUME NEW m \in Module, NroUnload(m) PROVE VtablesExact'
  <2>1. \A a \in AgentId : Live(a)' => Live(a)
    BY <1>2 DEF NroUnload, Live
  <2>2. \A a \in AgentId : Live(a) => agents[a].module # m
    BY <1>0, <1>2 DEF NroUnload, InstanceOf
  <2>3. /\ vtables' = [vtables EXCEPT ![m] = {}] /\ mapped' = mapped \ {m}
        /\ UNCHANGED <<agents, gen>>
    BY <1>2 DEF NroUnload, Released
  <2> QED
    BY <1>0, <2>1, <2>2, <2>3 DEF VtablesExact, InstanceOf
<1>3. ASSUME NEW m \in Module, NEW h \in Hash, CreateAgent(m, h) PROVE VtablesExact'
  <2> DEFINE new == [module |-> m, gen |-> gen[m], hash |-> h, alive |-> TRUE,
                     table |-> [s \in Slot |-> Null], waza |-> Null]
             id  == created + 1
  <2>1. /\ agents' = [agents EXCEPT ![id] = new] /\ id \in AgentId /\ m \in mapped
        /\ vtables' = [vtables EXCEPT ![m] = @ \cup {id}] /\ UNCHANGED <<gen, mapped>>
    BY <1>0, <1>3, BoundsAssumption DEF CreateAgent, AgentId
  <2>2. new.module = m /\ new.gen = gen[m]
    OBVIOUS
  <2> HIDE DEF new
  <2>3. agents'[id] = new /\ \A a \in AgentId \ {id} : agents'[a] = agents[a]
    BY <2>1 DEF TypeInv, TypeOK
  <2>4. \A n \in Module : \A a \in vtables[n] : a # id
    BY <1>0 DEF AgentId
  <2>5. \A a \in AgentId : Live(a)' => a \in vtables'[agents'[a].module]
    BY <1>0, <2>1, <2>2, <2>3 DEF Live
  <2>6. \A n \in Module : \A a \in vtables'[n] :
          n \in mapped' /\ agents'[a].module = n /\ agents'[a].gen = gen'[n]
    BY <1>0, <2>1, <2>2, <2>3, <2>4
  <2> QED
    BY <2>5, <2>6 DEF VtablesExact, InstanceOf
<1>4. ASSUME /\ UNCHANGED <<created, vtables>>
             /\ \A m \in Module : m \in mapped => m \in mapped' /\ gen'[m] = gen[m]
      PROVE  VtablesExact'
  <2>1. \A a \in AgentId : Live(a)' => a <= created
    <3>1. TypeInv'
      BY NextTypeInv
    <3> QED
      BY <1>4, <3>1 DEF TypeInv, AgentsMade, Live
  <2>2. \A a \in AgentId : Live(a)' => a \in vtables'[agents'[a].module]
    BY <1>0, <1>1, <1>4, <2>1 DEF SameAgent
  <2>3. \A m \in Module : \A a \in vtables'[m] :
          m \in mapped' /\ agents'[a].module = m /\ agents'[a].gen = gen'[m]
    BY <1>0, <1>1, <1>4 DEF SameAgent
  <2> QED
    BY <2>2, <2>3 DEF VtablesExact, InstanceOf
<1>5. ASSUME LoadCommon PROVE VtablesExact'
  BY <1>0, <1>4, <1>5, NamesAssumption DEF LoadCommon
<1>6. ASSUME UnloadCommon PROVE VtablesExact'
  BY <1>0, <1>4, <1>6, NamesAssumption DEF UnloadCommon
<1>7. ASSUME NEW m \in Module, NroLoad(m) PROVE VtablesExact'
  BY <1>0, <1>4, <1>7 DEF NroLoad
<1>8. ASSUME ModulesUntouched, UNCHANGED vtables PROVE VtablesExact'
  BY <1>4, <1>8 DEF ModulesUntouched
<1> QED
  BY <1>2, <1>3, <1>5, <1>6, <1>7, <1>8, ModulesTouched

\* VtablesExact, over every run: a vtable lives as long as the module whose
\* agent it is of, which no agent outlives.
THEOREM VtablesCorrect == Spec => []VtablesExact
<1>1. Init => TypeInv /\ VtablesExact
  BY InitTypeInv, InitCommon
<1>2. (TypeInv /\ VtablesExact) /\ [Next]_vars => (TypeInv /\ VtablesExact)'
  BY NextTypeInv, NextVtables
<1> QED
  BY <1>1, <1>2, PTL DEF Spec

-----------------------------------------------------------------------------
(* The registries.                                                         *)

\* Every entry of a list is one of another: its slot, place and function.
Within(list, other) ==
  \A d \in list : \E e \in other : /\ d.slot = e.slot /\ d.low = e.low
                                   /\ d.fn = e.fn /\ d.at = e.at

\* A list whose entries are those of a list with one entry for each slot, and
\* that keeps their places apart, is one too.
LEMMA WithinUnique ==
  ASSUME NEW list, NEW other, Unique(other), Within(list, other),
         \A d, e \in list : d.at = e.at => d = e
  PROVE  Unique(list)
BY DEF Unique, Within

\* The backups of a list are all that saving changes.
LEMMA SavedWithin ==
  ASSUME NEW table \in Table, NEW list \in SUBSET StatusInfo
  PROVE  Within(Saved(list, table), list) /\ Within(list, Saved(list, table))
<1>1. /\ \A d \in Saved(list, table) : \E e \in list :
           d.slot = e.slot /\ d.low = e.low /\ d.fn = e.fn /\ d.at = e.at
      /\ \A e \in list : \E d \in Saved(list, table) :
           d.slot = e.slot /\ d.low = e.low /\ d.fn = e.fn /\ d.at = e.at
  BY SavedType
<1> QED
  BY <1>1 DEF Within

\* Recording lets one entry in, and where slots can be told apart it keeps one
\* entry for each.
LEMMA RecordedUnique ==
  ASSUME NEW list \in SUBSET StatusInfo, Numbered(list), NEW info \in StatusInfo
  PROVE  /\ \A d \in Recorded(list, info) :
              d \in list \/ (d.slot = info.slot /\ d.fn = info.fn)
         /\ resolver /\ Unique(list) => Unique(Recorded(list, info))
<1>1. CASE TurnsAway(list, info)
  BY <1>1 DEF TurnsAway
<1>2. ASSUME NEW new, IsEntryOf(new, info), Appends(list, info, new)
      PROVE  /\ \A d \in Recorded(list, info) :
                  d \in list \/ (d.slot = info.slot /\ d.fn = info.fn)
             /\ resolver /\ Unique(list) => Unique(Recorded(list, info))
  <2>1. resolver => \A d \in list : d.slot # new.slot
    BY <1>2 DEF Appends, IsEntryOf, For
  <2> QED
    BY <1>2, <2>1 DEF Appends, IsEntryOf, Unique
<1>3. ASSUME NEW new, IsEntryOf(new, info), NEW old \in list, Displaces(list, info, old, new)
      PROVE  /\ \A d \in Recorded(list, info) :
                  d \in list \/ (d.slot = info.slot /\ d.fn = info.fn)
             /\ resolver /\ Unique(list) => Unique(Recorded(list, info))
  <2>1. Unique(list) => \A d \in list : d.slot = new.slot => d = old
    BY <1>3 DEF Displaces, IsEntryOf, For, Unique
  <2> QED
    BY <1>3, <2>1 DEF Displaces, IsEntryOf, Unique
<1> QED
  BY <1>1, <1>2, <1>3, RecordedList

\* At the start nothing is recorded.
LEMMA InitRegistry == Init => RegistryInv
BY NamesAssumption DEF Init, RegistryInv

\* Plugins come and go with the loader alone, and nothing but requests, the
\* resolution, the saving of backups and the purge writes the lists.
LEMMA PluginsUntouched ==
  ASSUME TypeInv, [Next]_vars, ~LoadDev, ~UnloadDev
  PROVE  \A p \in Plugin : gen'[p] = gen[p] /\ (p \in mapped' <=> p \in mapped)
<1>1. gen \in [Home -> 0..MaxGen] /\ \A p \in Plugin : p \notin Module \cup {CommonNro}
  BY NamesAssumption DEF TypeInv, TypeOK
<1>2. ASSUME LoadCommon \/ UnloadCommon \/ \E m \in Module : NroLoad(m) \/ NroUnload(m)
      PROVE  \A p \in Plugin : gen'[p] = gen[p] /\ (p \in mapped' <=> p \in mapped)
  BY <1>1, <1>2 DEF LoadCommon, UnloadCommon, NroLoad, NroUnload, Home
<1>3. ASSUME \/ SetTable \/ InstallStatuses \/ InstallWaza
             \/ RemoveLiveStatuses \/ RemoveLiveWaza \/ PurgeStatuses
             \/ \E m \in Module, h \in Hash : CreateAgent(m, h)
             \/ \E a \in AgentId : DestroyAgent(a)
             \/ \E r \in Request : ReplaceStatus(r)
             \/ \E r \in WazaRequest : ReplaceWaza(r)
             \/ UNCHANGED vars
      PROVE  UNCHANGED <<gen, mapped>>
  BY <1>3 DEF SetTable, InstallStatuses, InstallWaza, CreateAgent, DestroyAgent,
              ReplaceStatus, ReplaceWaza, RemoveLiveStatuses, RemoveLiveWaza,
              PurgeStatuses, vars, codeVars
<1> QED
  BY <1>2, <1>3 DEF Next, Game, Ask, Loader

LEMMA ListsUntouched ==
  ASSUME [Next]_vars
  PROVE  \/ LoadCommon \/ SetTable \/ InstallStatuses \/ PurgeStatuses
         \/ \E r \in Request : ReplaceStatus(r)
         \/ UNCHANGED <<scripts, resolver>>
BY DEF Next, Game, Ask, Loader, UnloadCommon, NroLoad, NroUnload, CreateAgent,
       InstallWaza, DestroyAgent, ReplaceWaza, LoadDev, RemoveLiveStatuses,
       RemoveLiveWaza, UnloadDev, vars, commonVars

LEMMA PhaseUntouched ==
  ASSUME [Next]_vars
  PROVE  \/ LoadDev \/ PurgeStatuses \/ UnloadDev
         \/ phase' = phase
         \/ RemoveLiveStatuses /\ phase = "running" /\ phase' = "no statuses"
         \/ RemoveLiveWaza /\ phase = "no statuses" /\ phase' = "no waza"
BY DEF Next, Game, Ask, Loader, LoadCommon, UnloadCommon, NroLoad, NroUnload,
       CreateAgent, SetTable, InstallStatuses, InstallWaza, DestroyAgent,
       ReplaceStatus, ReplaceWaza, RemoveLiveStatuses, RemoveLiveWaza, vars

\* An entry of a list stands, over the step of a list that has it.
LEMMA HoldsKept ==
  ASSUME TypeInv, RegistryInv, [Next]_vars, NEW k \in Key, NEW ptr \in Pointer,
         Holds(k, ptr), ptr.home = Dev => ~PurgeStatuses
  PROVE  Holds(k, ptr)'
<1> USE DEF Holds, Asked, IsMapped
<1>1. CASE LoadDev
  <2>1. ptr.home # Dev
    BY <1>1 DEF LoadDev
  <2>2. gen'[ptr.home] = gen[ptr.home]
    BY <1>1, <2>1 DEF LoadDev, TypeInv, TypeOK, Home
  <2> QED
    BY <1>1, <2>1, <2>2 DEF LoadDev
<1>2. CASE UnloadDev
  BY <1>2 DEF UnloadDev
<1>3. CASE PurgeStatuses
  BY <1>3 DEF PurgeStatuses, codeVars
<1>4. CASE ~LoadDev /\ ~UnloadDev /\ ~PurgeStatuses
  <2>1. \A p \in Plugin : gen'[p] = gen[p] /\ (p \in mapped' <=> p \in mapped)
    BY <1>4, PluginsUntouched
  <2>2. phase \notin {"unloaded", "purged"} => phase' \notin {"unloaded", "purged"}
    BY <1>4, PhaseUntouched
  <2> QED
    BY <2>1, <2>2
<1> QED
  BY <1>1, <1>2, <1>3, <1>4

\* RegistryInv, step by step: the resolution leaves one entry per slot, requests
\* keep it so, and the purge takes all of the plugin that leaves
\* (status.rs:104-202 and 233-304).
LEMMA NextRegistry == TypeInv /\ RegistryInv /\ [Next]_vars => RegistryInv'
<1> SUFFICES ASSUME TypeInv, RegistryInv, [Next]_vars PROVE RegistryInv'
  OBVIOUS
<1>0. /\ scripts \in [Key -> SUBSET StatusInfo] /\ TypeInv'
      /\ \A k \in Key : Numbered(scripts[k]) /\ Numbered(scripts'[k])
      /\ \A k \in Key : \A e \in scripts[k] : e.fn \in Pointer /\ Holds(k, e.fn)
  <2>1. TypeInv' /\ scripts \in [Key -> SUBSET StatusInfo]
    BY NextTypeInv DEF TypeInv, TypeOK
  <2>2. \A k \in Key : Numbered(scripts[k]) /\ Numbered(scripts'[k])
    BY <2>1 DEF TypeInv, ListsNumbered, Numbered, Last
  <2> QED
    BY <2>1, <2>2 DEF RegistryInv, StatusInfo
<1>1. /\ Plugin \ {Dev} \subseteq mapped'
      /\ Dev \in mapped' <=> phase' # "unloaded"
  <2>1. CASE LoadDev
    BY <2>1 DEF LoadDev, RegistryInv
  <2>2. CASE UnloadDev
    BY <2>2 DEF UnloadDev, RegistryInv
  <2>3. CASE ~LoadDev /\ ~UnloadDev
    <3>1. \A p \in Plugin : p \in mapped' <=> p \in mapped
      BY <2>3, PluginsUntouched
    <3>2. phase' # "unloaded" <=> phase # "unloaded"
      <4>1. PurgeStatuses => phase = "no waza" /\ phase' = "purged"
        BY DEF PurgeStatuses
      <4> QED
        BY <2>3, <4>1, PhaseUntouched
    <3> QED
      BY <3>1, <3>2, NamesAssumption DEF RegistryInv
  <2> QED
    BY <2>1, <2>2, <2>3
<1>2. ASSUME NEW k \in Key, Within(scripts'[k], scripts[k]),
             resolver' => Unique(scripts'[k]),
             PurgeStatuses => \A e \in scripts'[k] : e.fn.home # Dev
      PROVE  (resolver' => Unique(scripts'[k])) /\ \A e \in scripts'[k] : Holds(k, e.fn)'
  <2>1. ASSUME NEW d \in scripts'[k] PROVE Holds(k, d.fn)'
    <3>1. PICK e \in scripts[k] : d.fn = e.fn
      BY <1>2 DEF Within
    <3>2. e.fn \in Pointer /\ Holds(k, e.fn) /\ (e.fn.home = Dev => ~PurgeStatuses)
      BY <1>0, <1>2, <3>1
    <3> QED
      BY <3>1, <3>2, HoldsKept
  <2> QED
    BY <1>2, <2>1
<1>3. ASSUME NEW k \in Key
      PROVE  (resolver' => Unique(scripts'[k])) /\ \A e \in scripts'[k] : Holds(k, e.fn)'
  <2>1. CASE LoadCommon
    <3>1. scripts'[k] = Normalised(scripts[k])
      BY <2>1 DEF LoadCommon
    <3>2. Within(scripts'[k], scripts[k])
      BY <3>1 DEF Normalised, Within
    <3>3. Unique(scripts'[k])
      <4>1. ASSUME NEW d \in scripts'[k], NEW e \in scripts'[k], d.slot = e.slot
            PROVE  d = e
        <5>1. d \in scripts[k] /\ e \in scripts[k] /\ d.at <= e.at /\ e.at <= d.at
          BY <3>1, <4>1 DEF Normalised, For
        <5>2. d.at \in Nat /\ e.at \in Nat
          BY <1>0, <5>1 DEF StatusInfo
        <5> QED
          BY <1>0, <5>1, <5>2 DEF Numbered
      <4> QED
        BY <4>1 DEF Unique
    <3>4. ~PurgeStatuses
      BY <2>1 DEF LoadCommon, PurgeStatuses
    <3> QED
      BY <1>2, <3>2, <3>3, <3>4
  <2>2. CASE SetTable \/ InstallStatuses
    <3>1. Within(scripts'[k], scripts[k])
      <4>1. CASE UNCHANGED scripts
        BY <4>1 DEF Within
      <4>2. ASSUME NEW j \in Key, NEW table \in Table,
                   scripts' = [scripts EXCEPT ![j] = Saved(scripts[j], table)]
            PROVE  Within(scripts'[k], scripts[k])
        <5>1. scripts'[k] = scripts[k] \/ scripts'[k] = Saved(scripts[k], table)
          BY <1>0, <4>2
        <5>2. scripts[k] \in SUBSET StatusInfo
          BY <1>0
        <5>3. Within(scripts[k], scripts[k])
          BY DEF Within
        <5> QED
          BY <5>1, <5>2, <5>3, SavedWithin
      <4> QED
        BY <2>2, <4>1, <4>2, BackupsSaved
    <3>2. resolver' => Unique(scripts'[k])
      <4>1. resolver' = resolver
        BY <2>2 DEF SetTable, InstallStatuses, commonVars
      <4> QED
        BY <1>0, <3>1, <4>1, WithinUnique DEF RegistryInv, Numbered
    <3>3. ~PurgeStatuses
      BY <2>2 DEF SetTable, InstallStatuses, PurgeStatuses, agentVars
    <3> QED
      BY <1>2, <3>1, <3>2, <3>3
  <2>3. CASE PurgeStatuses
    <3>1. scripts'[k] = NotFromDev(scripts[k]) /\ resolver' = resolver
      BY <2>3 DEF PurgeStatuses, Purged, commonVars
    <3>2. Within(scripts'[k], scripts[k]) /\ \A e \in scripts'[k] : e.fn.home # Dev
      BY <3>1 DEF NotFromDev, Within
    <3>3. resolver' => Unique(scripts'[k])
      BY <3>1 DEF NotFromDev, Unique, RegistryInv
    <3> QED
      BY <1>2, <3>2, <3>3
  <2>4. ASSUME NEW r \in Request, ReplaceStatus(r)
        PROVE  (resolver' => Unique(scripts'[k])) /\ \A e \in scripts'[k] : Holds(k, e.fn)'
    <3>1. ~PurgeStatuses /\ ~LoadDev /\ ~UnloadDev /\ resolver' = resolver
      BY <2>4 DEF ReplaceStatus, MayAsk, PurgeStatuses, LoadDev, UnloadDev, commonVars
    <3>2. PICK info : /\ InfoOf(info, r)
                      /\ \/ UNCHANGED scripts
                         \/ scripts' = [scripts EXCEPT ![r.agent] =
                                          Recorded(scripts[r.agent], info)]
      BY <2>4, StatusRequested
    <3>3. CASE scripts'[k] = scripts[k]
      BY <1>2, <3>1, <3>3 DEF Within, RegistryInv
    <3>4. CASE k = r.agent /\ scripts'[k] = Recorded(scripts[k], info)
      <4>1. /\ \A d \in scripts'[k] : d \in scripts[k] \/ d.fn = Replacement(r)
            /\ resolver /\ Unique(scripts[k]) => Unique(scripts'[k])
        BY <1>0, <3>2, <3>4, RecordedUnique DEF InfoOf
      <4>2. Holds(k, Replacement(r))'
        <5>1. /\ r.plugin \in mapped /\ r.plugin \in Plugin
              /\ r.plugin = Dev => phase = "running"
              /\ UNCHANGED <<gen, mapped, phase>>
          BY <2>4, DataAssumption DEF ReplaceStatus, MayAsk, codeVars, RequestType
        <5> QED
          BY <3>4, <5>1 DEF Holds, Asked, IsMapped, Replacement
      <4>3. ASSUME NEW d \in scripts'[k] PROVE Holds(k, d.fn)'
        <5>1. CASE d \in scripts[k]
          BY <1>0, <3>1, <5>1, HoldsKept
        <5>2. CASE d.fn = Replacement(r)
          <6>1. Replacement(r)' = Replacement(r)
            BY <2>4 DEF ReplaceStatus, codeVars, Replacement
          <6> QED
            BY <4>2, <5>2, <6>1 DEF Holds, Asked, IsMapped
        <5> QED
          BY <4>1, <5>1, <5>2
      <4> QED
        BY <3>1, <4>1, <4>3 DEF RegistryInv
    <3> QED
      BY <1>0, <3>2, <3>3, <3>4
  <2>5. CASE UNCHANGED <<scripts, resolver>> /\ ~PurgeStatuses
    BY <1>2, <2>5 DEF Within, RegistryInv
  <2> QED
    BY <2>1, <2>2, <2>3, <2>4, <2>5, ListsUntouched
<1> QED
  BY <1>1, <1>3 DEF RegistryInv

LEMMA RegistryInvImplies == RegistryInv => ResolvedUnique /\ EntriesMapped
BY DEF RegistryInv, Holds, ResolvedUnique, EntriesMapped, Unique

\* What is known of the registries holds over every run.
THEOREM RegistryCorrect == Spec => [](TypeInv /\ RegistryInv)
<1>1. Init => TypeInv /\ RegistryInv
  BY InitTypeInv, InitRegistry
<1>2. (TypeInv /\ RegistryInv) /\ [Next]_vars => (TypeInv /\ RegistryInv)'
  BY NextTypeInv, NextRegistry
<1> QED
  BY <1>1, <1>2, PTL DEF Spec

\* ResolvedUnique, over every run: the installation loops never meet a second
\* entry for a slot, however many were asked for before the resolution.
THEOREM ListsResolved == Spec => []ResolvedUnique
  BY RegistryCorrect, RegistryInvImplies, PTL

\* EntriesMapped, over every run: what a new agent is given from the lists is
\* code in memory, reloads of the development plugin included.
THEOREM RecordedIsMapped == Spec => []EntriesMapped
  BY RegistryCorrect, RegistryInvImplies, PTL

-----------------------------------------------------------------------------
(* The first high priority request for a slot.                             *)

\* It is the entry that none of the slot's others precedes.
LEMMA FirstHighIs ==
  ASSUME NEW list \in SUBSET StatusInfo, Numbered(list), NEW s,
         NEW e \in Highs(list, s), \A d \in Highs(list, s) : e.at <= d.at
  PROVE  FirstHigh(list, s) = e.fn
<1> DEFINE highs == Highs(list, s)
           first == FirstOf(highs)
<1>1. highs \in SUBSET StatusInfo /\ highs \in SUBSET list
  BY DEF Highs, For
<1>2. first \in highs /\ \A d \in highs : first.at <= d.at
  <2> HIDE DEF highs
  <2>1. highs # {}
    BY DEF highs
  <2> QED BY <1>1, <2>1, FirstEntry
<1>3. first = e
  <2>1. first.at \in Nat /\ e.at \in Nat /\ first.at <= e.at /\ e.at <= first.at
    BY <1>1, <1>2 DEF StatusInfo
  <2> HIDE DEF first
  <2> QED BY <1>1, <1>2, <2>1 DEF Numbered
<1> QED
  BY <1>3 DEF FirstHigh

\* There is one if there is any.
LEMMA FirstHighHas ==
  ASSUME NEW list \in SUBSET StatusInfo, Numbered(list), NEW s,
         FirstHigh(list, s) # Null
  PROVE  \E e \in Highs(list, s) : /\ \A d \in Highs(list, s) : e.at <= d.at
                                   /\ FirstHigh(list, s) = e.fn
<1>1. Highs(list, s) # {} /\ Highs(list, s) \in SUBSET StatusInfo
  BY DEF FirstHigh, Highs, For
<1>2. PICK e \in Highs(list, s) : \A d \in Highs(list, s) : e.at <= d.at
  BY <1>1, FirstEntry
<1> QED
  BY <1>2, FirstHighIs

\* It stays first in a list that keeps it and has no earlier one.
LEMMA StaysFirst ==
  ASSUME NEW list \in SUBSET StatusInfo, Numbered(list),
         NEW other \in SUBSET StatusInfo, Numbered(other), NEW s,
         NEW e \in Highs(list, s), \A d \in Highs(list, s) : e.at <= d.at,
         \E c \in Highs(other, s) : c.at = e.at /\ c.fn = e.fn,
         \A d \in Highs(other, s) :
           e.at <= d.at \/ \E c \in Highs(list, s) : c.at = d.at
  PROVE  FirstHigh(other, s) = FirstHigh(list, s)
<1>1. PICK c \in Highs(other, s) : c.at = e.at /\ c.fn = e.fn
  OBVIOUS
<1>2. \A d \in Highs(other, s) : c.at <= d.at
  BY <1>1
<1> QED
  BY <1>1, <1>2, FirstHighIs

\* Saving backups leaves it.
LEMMA SavedFirst ==
  ASSUME NEW table \in Table, NEW list \in SUBSET StatusInfo, Numbered(list), NEW s,
         FirstHigh(list, s) # Null
  PROVE  FirstHigh(Saved(list, table), s) = FirstHigh(list, s)
<1> DEFINE other == Saved(list, table)
<1>1. PICK e \in Highs(list, s) : \A d \in Highs(list, s) : e.at <= d.at
  BY FirstHighHas
<1>2. other \in SUBSET StatusInfo /\ Numbered(other) /\ Within(other, list) /\ Within(list, other)
  BY SavedType, SavedNumbered, SavedWithin
<1> HIDE DEF other
<1>3. \E c \in Highs(other, s) : c.at = e.at /\ c.fn = e.fn
  BY <1>2 DEF Highs, For, Within
<1>4. \A d \in Highs(other, s) : \E c \in Highs(list, s) : c.at = d.at
  BY <1>2 DEF Highs, For, Within
<1>5. FirstHigh(other, s) = FirstHigh(list, s)
  BY <1>1, <1>2, <1>3, <1>4, StaysFirst
<1> QED
  BY <1>5 DEF other

\* The resolution keeps it, dropping the others.
LEMMA NormalisedFirst ==
  ASSUME NEW list \in SUBSET StatusInfo, Numbered(list), NEW s,
         FirstHigh(list, s) # Null
  PROVE  FirstHigh(Normalised(list), s) = FirstHigh(list, s)
<1> DEFINE other == Normalised(list)
<1>1. PICK e \in Highs(list, s) : \A d \in Highs(list, s) : e.at <= d.at
  BY FirstHighHas
<1>2. other \in SUBSET list /\ other \in SUBSET StatusInfo
  BY DEF Normalised
<1>3. Numbered(other)
  BY <1>2, SubsetNumbered
<1>4. e \in Highs(other, s)
  BY <1>1 DEF Normalised, Highs, For
<1>5. \A d \in Highs(other, s) : d \in Highs(list, s)
  BY <1>2 DEF Highs, For
<1>6. FirstHigh(other, s) = FirstHigh(list, s)
  <2> HIDE DEF other
  <2> QED BY <1>1, <1>2, <1>3, <1>4, <1>5, StaysFirst
<1> QED
  BY <1>6

\* The purge keeps it, unless it is the development plugin's.
LEMMA PurgedFirst ==
  ASSUME NEW list \in SUBSET StatusInfo, Numbered(list), NEW s,
         FirstHigh(list, s) # Null, FirstHigh(list, s).home # Dev
  PROVE  FirstHigh(NotFromDev(list), s) = FirstHigh(list, s)
<1> DEFINE other == NotFromDev(list)
<1>1. PICK e \in Highs(list, s) : /\ \A d \in Highs(list, s) : e.at <= d.at
                                  /\ FirstHigh(list, s) = e.fn
  BY FirstHighHas
<1>2. other \in SUBSET list /\ other \in SUBSET StatusInfo
  BY DEF NotFromDev
<1>3. Numbered(other)
  BY <1>2, SubsetNumbered
<1>4. e \in Highs(other, s)
  BY <1>1 DEF NotFromDev, Highs, For
<1>5. \A d \in Highs(other, s) : d \in Highs(list, s)
  BY <1>2 DEF Highs, For
<1>6. FirstHigh(other, s) = FirstHigh(list, s)
  <2> HIDE DEF other
  <2> QED BY <1>1, <1>2, <1>3, <1>4, <1>5, StaysFirst
<1> QED
  BY <1>6

\* A request goes behind it, or displaces an entry of low priority only.
LEMMA RecordedFirst ==
  ASSUME NEW list \in SUBSET StatusInfo, Numbered(list), resolver => Unique(list),
         NEW info \in StatusInfo, NEW s, FirstHigh(list, s) # Null
  PROVE  FirstHigh(Recorded(list, info), s) = FirstHigh(list, s)
<1> DEFINE other == Recorded(list, info)
<1>1. PICK e \in Highs(list, s) : \A d \in Highs(list, s) : e.at <= d.at
  BY FirstHighHas
<1>2. other \in SUBSET StatusInfo /\ Numbered(other)
  BY RecordedType
<1>3. e \in list /\ e.slot = s /\ ~e.low
  BY DEF Highs, For
<1>4. CASE TurnsAway(list, info)
  BY <1>4 DEF TurnsAway
<1>5. ASSUME NEW new, IsEntryOf(new, info), Appends(list, info, new)
      PROVE  FirstHigh(other, s) = FirstHigh(list, s)
  <2>1. other = list \cup {new} /\ e.at < new.at /\ e.at \in Nat /\ new.at \in Nat
    BY <1>3, <1>5 DEF Appends, IsEntryOf, StatusInfo
  <2> HIDE DEF other
  <2>2. e \in Highs(other, s)
    BY <2>1 DEF Highs, For
  <2>3. \A d \in Highs(other, s) : e.at <= d.at \/ d \in Highs(list, s)
    BY <2>1 DEF Highs, For
  <2> QED
    BY <1>1, <1>2, <2>2, <2>3, StaysFirst
<1>6. ASSUME NEW new, IsEntryOf(new, info), NEW old \in list, Displaces(list, info, old, new)
      PROVE  FirstHigh(other, s) = FirstHigh(list, s)
  <2>1. other = (list \ {old}) \cup {new} /\ e # old
    BY <1>3, <1>6 DEF Displaces
  <2>2. new.slot # s
    BY <1>3, <1>6 DEF Displaces, IsEntryOf, For, Unique
  <2> HIDE DEF other
  <2>3. e \in Highs(other, s) /\ \A d \in Highs(other, s) : d \in Highs(list, s)
    BY <1>3, <2>1, <2>2 DEF Highs, For
  <2> QED
    BY <1>1, <1>2, <2>3, StaysFirst
<1> QED
  BY <1>4, <1>5, <1>6, RecordedList

LEMMA NextFirstHigh == TypeInv /\ RegistryInv /\ [Next]_vars => FirstHighStep
<1> SUFFICES ASSUME TypeInv, RegistryInv, [Next]_vars,
                    NEW k \in Key, NEW s \in Slot,
                    FirstHigh(scripts[k], s) # Null,
                    FirstHigh(scripts'[k], s) # FirstHigh(scripts[k], s)
             PROVE  FirstHigh(scripts[k], s).home = Dev /\ phase = "no waza"
  BY DEF FirstHighStep
<1>0. /\ scripts \in [Key -> SUBSET StatusInfo] /\ scripts[k] \in SUBSET StatusInfo
      /\ Numbered(scripts[k])
      /\ resolver => Unique(scripts[k])
  BY DEF TypeInv, TypeOK, ListsNumbered, RegistryInv
<1>1. CASE LoadCommon
  <2>1. scripts'[k] = Normalised(scripts[k])
    BY <1>1 DEF LoadCommon
  <2> QED
    BY <1>0, <2>1, NormalisedFirst
<1>2. CASE SetTable \/ InstallStatuses
  <2>1. ASSUME NEW j \in Key, NEW table \in Table,
               scripts' = [scripts EXCEPT ![j] = Saved(scripts[j], table)]
        PROVE  FALSE
    <3>1. scripts'[k] = scripts[k] \/ scripts'[k] = Saved(scripts[k], table)
      BY <1>0, <2>1
    <3> QED
      BY <1>0, <3>1, SavedFirst
  <2> QED
    BY <1>2, <2>1, BackupsSaved
<1>3. CASE PurgeStatuses
  <2>1. scripts'[k] = NotFromDev(scripts[k]) /\ phase = "no waza"
    BY <1>3 DEF PurgeStatuses, Purged
  <2> QED
    BY <1>0, <2>1, PurgedFirst
<1>4. ASSUME NEW r \in Request, ReplaceStatus(r) PROVE FALSE
  <2>1. PICK info : /\ InfoOf(info, r)
                    /\ \/ UNCHANGED scripts
                       \/ scripts' = [scripts EXCEPT ![r.agent] =
                                        Recorded(scripts[r.agent], info)]
    BY <1>4, StatusRequested
  <2>2. scripts'[k] = scripts[k] \/ scripts'[k] = Recorded(scripts[k], info)
    BY <1>0, <2>1
  <2> QED
    BY <1>0, <2>1, <2>2, RecordedFirst DEF InfoOf
<1> QED
  BY <1>1, <1>2, <1>3, <1>4, ListsUntouched

\* FirstHighKept, of every step: the first high priority script of a slot is
\* the one that stays, and leaves only with the development plugin.
THEOREM FirstHighStays == Spec => FirstHighKept
<1>1. TypeInv /\ RegistryInv /\ [Next]_vars => [FirstHighStep]_vars
  BY NextFirstHigh
<1> QED
  BY <1>1, RegistryCorrect, PTL DEF Spec, FirstHighKept

-----------------------------------------------------------------------------
(* What is recorded is installed.                                          *)

\* remove_live_status_scripts writes the backup of a script for all fighters
\* over whatever an agent runs, its hash's own replacement too; so these hold
\* where the development plugin asks for none of those.
NoDevCommon == \A r \in Request : r.plugin = Dev => r.agent # Common

\* A function of a plugin is none of those that the installation displaces.
LEMMA PluginsReplace ==
  ASSUME NEW a, NEW ptr \in Pointer, ptr.home \in Plugin, agents[a].module \in Module
  PROVE  ptr # Null /\ ~OfCommon(ptr) /\ ~OfAgent(ptr, a)
BY NamesAssumption DEF OfCommon, OfAgent, Region, InstanceOf

\* The fighter modules come after "common" and go before it: with no live agent
\* nothing is to be installed at the load of "common".
LEMMA NobodyBeforeCommon ==
  ASSUME TypeInv, CommonInv, VtablesExact, NEW a \in AgentId, Live(a)
  PROVE  /\ agents[a].module \in mapped /\ CommonNro \in mapped
         /\ commonInfo # 0 /\ resolver
<1>1. a <= created
  BY DEF Live, TypeInv, AgentsMade
<1>2. agents[a].module \in Module
  BY <1>1, AgentType
<1>3. agents[a].module \in mapped
  BY <1>2 DEF VtablesExact
<1> QED
  BY <1>2, <1>3 DEF CommonInv

\* What one agent has installed stays if its table does and its list gains nothing.
LEMMA InstalledKept ==
  ASSUME InstalledInv, NEW a \in loadedAgents, Installed(a), SameAgent(a),
         agents'[a].table = agents[a].table, UNCHANGED commonInfo,
         Within(scripts'[agents[a].hash], scripts[agents[a].hash]),
         \A e \in scripts[agents[a].hash] :
           e.fn.home = Dev /\ phase' = "running" => phase = "running"
  PROVE  \A e \in scripts'[agents'[a].hash] :
           phase' = "running" \/ e.fn.home # Dev => Replaced(a, e)'
<1> SUFFICES ASSUME NEW d \in scripts'[agents[a].hash],
                    phase' = "running" \/ d.fn.home # Dev
             PROVE  Replaced(a, d)'
  BY DEF SameAgent
<1>1. PICK e \in scripts[agents[a].hash] : d.slot = e.slot /\ d.fn = e.fn
  BY DEF Within
<1>2. Replaced(a, e)
  BY <1>1 DEF InstalledInv
<1> QED
  BY <1>1, <1>2 DEF Replaced, OfCommon, OfAgent, Region, InstanceOf, SameAgent

\* The steps that touch no agent's table, or only that of one whose scripts are
\* still to be installed.
LEMMA TablesUntouched ==
  ASSUME TypeInv, [Next]_vars, NEW a \in AgentId, a <= created
  PROVE  \/ LoadCommon \/ InstallStatuses \/ RemoveLiveStatuses
         \/ \E r \in Request : ReplaceStatus(r)
         \/ /\ \/ agents'[a].table = agents[a].table
               \/ SetTable /\ a = created' /\ setting' = "statuses"
            /\ UNCHANGED commonInfo
            /\ a = created' => a = created /\ (setting \in {"table", "statuses"} =>
                                                 setting' \in {"table", "statuses"})
<1> USE DEF codeVars, commonVars, agentVars
<1>0. agents \in [AgentId -> Agent \cup {Null}] /\ agents[a] \in Agent
  BY AgentType DEF TypeInv, TypeOK
<1>1. CASE SetTable
  BY <1>0, <1>1 DEF SetTable
<1>2. CASE \E m \in Module, h \in Hash : CreateAgent(m, h)
  <2>1. PICK m \in Module, h \in Hash : CreateAgent(m, h)
    BY <1>2
  <2>2. a # created + 1 /\ ~(created + 1 <= created)
    <3>1. created \in 0..MaxAgents
      BY DEF TypeInv, TypeOK
    <3> QED
      BY <3>1, BoundsAssumption DEF AgentId
  <2> QED
    BY <1>0, <2>1, <2>2 DEF CreateAgent
<1>3. CASE InstallWaza
  <2>1. PICK w : agents' = agents \/ agents' = [agents EXCEPT ![created].waza = w]
    BY <1>3 DEF InstallWaza
  <2>2. agents'[a] = agents[a] \/ agents'[a] = [agents[a] EXCEPT !.waza = w]
    BY <1>0, <2>1
  <2>3. agents'[a].table = agents[a].table
    BY <1>0, <2>2 DEF Agent
  <2> QED
    BY <1>3, <2>3 DEF InstallWaza
<1>4. CASE \E b \in AgentId : DestroyAgent(b)
  BY <1>0, <1>4 DEF DestroyAgent, Agent
<1>5. CASE \E r \in WazaRequest : ReplaceWaza(r)
  <2>1. PICK r \in WazaRequest : ReplaceWaza(r)
    BY <1>5
  <2>2. agents'[a] = agents[a] \/ agents'[a] = [agents[a] EXCEPT !.waza = Replacement(r)]
    BY <1>0, <2>1 DEF ReplaceWaza
  <2>3. agents'[a].table = agents[a].table
    BY <1>0, <2>2 DEF Agent
  <2> QED
    BY <2>1, <2>3 DEF ReplaceWaza
<1>6. CASE RemoveLiveWaza
  <2>1. \/ agents'[a] = agents[a]
        \/ agents'[a] = [agents[a] EXCEPT !.waza = customizers[agents[a].hash].backup]
    BY <1>0, <1>6 DEF RemoveLiveWaza
  <2>2. agents'[a].table = agents[a].table
    BY <1>0, <2>1 DEF Agent
  <2> QED
    BY <1>6, <2>2 DEF RemoveLiveWaza
<1>7. CASE \E m \in Module : NroUnload(m)
  BY <1>7 DEF NroUnload
<1>8. CASE UnloadCommon \/ (\E m \in Module : NroLoad(m))
           \/ LoadDev \/ PurgeStatuses \/ UnloadDev \/ UNCHANGED vars
  BY <1>8 DEF UnloadCommon, NroLoad, LoadDev, PurgeStatuses, UnloadDev, vars
<1> QED
  BY <1>1, <1>2, <1>3, <1>4, <1>5, <1>6, <1>7, <1>8 DEF Next, Game, Ask, Loader

\* The lists gain nothing but by requests.
LEMMA ListsWithin ==
  ASSUME TypeInv, [Next]_vars, NEW k \in Key
  PROVE  Within(scripts'[k], scripts[k]) \/ \E r \in Request : ReplaceStatus(r)
<1>0. scripts \in [Key -> SUBSET StatusInfo]
  BY DEF TypeInv, TypeOK
<1>1. CASE LoadCommon \/ PurgeStatuses
  <2>1. scripts'[k] \in SUBSET scripts[k]
    BY <1>1 DEF LoadCommon, Normalised, PurgeStatuses, Purged, NotFromDev
  <2> QED
    BY <2>1 DEF Within
<1>2. CASE UNCHANGED scripts
  BY <1>2 DEF Within
<1>3. CASE SetTable \/ InstallStatuses
  <2>1. ASSUME NEW j \in Key, NEW table \in Table,
               scripts' = [scripts EXCEPT ![j] = Saved(scripts[j], table)]
        PROVE  Within(scripts'[k], scripts[k])
    <3>1. scripts'[k] = scripts[k] \/ scripts'[k] = Saved(scripts[k], table)
      BY <1>0, <2>1
    <3>2. scripts[k] \in SUBSET StatusInfo /\ Within(scripts[k], scripts[k])
      BY <1>0 DEF Within
    <3> QED
      BY <3>1, <3>2, SavedWithin
  <2> QED
    BY <1>2, <1>3, <2>1, BackupsSaved
<1> QED
  BY <1>1, <1>2, <1>3, ListsUntouched

\* The development plugin's entries are not there when it is loaded.
LEMMA DevEntriesLoaded ==
  ASSUME RegistryInv, [Next]_vars, NEW k \in Key, NEW e \in scripts[k],
         e.fn.home = Dev, phase' = "running"
  PROVE  phase = "running"
<1>1. phase \notin {"unloaded", "purged"}
  BY DEF RegistryInv, Holds
<1>2. ~LoadDev /\ ~PurgeStatuses /\ ~UnloadDev
  BY <1>1 DEF LoadDev, PurgeStatuses, UnloadDev
<1> QED
  BY <1>2, PhaseUntouched

InstallInvs == TypeInv /\ CommonInv /\ VtablesExact /\ RegistryInv /\ InstalledInv

LEMMA NextInstalled ==
  ASSUME NoDevCommon, InstallInvs, [Next]_vars
  PROVE  InstalledInv'
<1> USE DEF InstallInvs
<1>0. /\ scripts \in [Key -> SUBSET StatusInfo]
      /\ agents \in [AgentId -> Agent \cup {Null}] /\ TypeInv'
  BY NextTypeInv DEF TypeInv, TypeOK
<1> SUFFICES ASSUME NEW a \in loadedAgents', Installed(a)'
             PROVE  \A e \in scripts'[agents'[a].hash] :
                      phase' = "running" \/ e.fn.home # Dev => Replaced(a, e)'
  BY DEF InstalledInv
<1>1. a \in AgentId /\ a <= created'
  <2>1. a \in 1..created' /\ created' \in 0..MaxAgents
    BY <1>0 DEF TypeInv, TypeOK
  <2> QED
    BY <2>1, BoundsAssumption DEF AgentId
<1>2. CASE \E m \in Module, h \in Hash : CreateAgent(m, h) /\ a = created + 1
  BY <1>2 DEF CreateAgent, Installed
<1>3. CASE a <= created /\ a \in loadedAgents
  <2> DEFINE h == agents[a].hash
  <2>1. /\ SameAgent(a) /\ Live(a) /\ agents[a] \in Agent /\ h \in Key /\ h # Common
        /\ agents[a].module \in Module /\ agents[a].table \in Table
    <3>1. SameAgent(a) /\ agents[a] \in Agent /\ agents[a] # Null
      BY <1>1, <1>3, AgentsKept, AgentType
    <3>2. agents[a].hash \in Hash /\ agents[a].module \in Module /\ agents[a].table \in Table
      BY <1>1, <1>3, AgentType
    <3> QED
      BY <3>1, <3>2, NamesAssumption DEF SameAgent, Installed, Live, Key
  <2>2. resolver /\ commonInfo # 0 /\ ~LoadCommon
    BY <1>1, <2>1, NobodyBeforeCommon DEF LoadCommon
  <2>3. /\ scripts[h] \in SUBSET StatusInfo /\ Unique(scripts[h]) /\ Numbered(scripts[h])
        /\ \A e \in scripts[h] : e.fn \in Pointer /\ e.fn.home \in Plugin
    BY <1>0, <2>1, <2>2 DEF RegistryInv, Holds, TypeInv, ListsNumbered, StatusInfo
  <2>4. \A e \in scripts[h] : e.fn.home = Dev /\ phase' = "running" => phase = "running"
    BY <2>1, DevEntriesLoaded
  <2>5. CASE InstallStatuses /\ a = created
    <3> SUFFICES ASSUME NEW d \in scripts'[h] PROVE Replaced(a, d)'
      BY <2>1 DEF SameAgent
    <3>1. ~ \E r \in Request : ReplaceStatus(r)
      BY <2>5 DEF InstallStatuses, ReplaceStatus, commonVars, agentVars
    <3>2. PICK e \in scripts[h] : d.slot = e.slot
      BY <2>1, <3>1, ListsWithin DEF Within
    <3>3. For(scripts[h], d.slot) # {} /\ d.slot \in Slot
      BY <2>3, <3>2 DEF For, StatusInfo
    <3>4. agents'[a].table[d.slot] = TheOne(scripts[h], d.slot).fn
      <4>1. agents'[a].table = Overlay(agents[a].table, scripts[h])
        BY <1>0, <1>1, <2>1, <2>5 DEF InstallStatuses, Agent
      <4> QED
        BY <3>3, <4>1 DEF Overlay
    <3>5. TheOne(scripts[h], d.slot) \in scripts[h]
      BY <2>3, <3>3, TheOneType
    <3>6. /\ agents'[a].table[d.slot] \in Pointer /\ agents'[a].table[d.slot].home \in Plugin
          /\ agents'[a].module \in Module
      BY <2>1, <2>3, <3>4, <3>5 DEF SameAgent
    <3> QED
      BY <3>6, NamesAssumption DEF Replaced, OfCommon, OfAgent, Region, InstanceOf
  <2>6. CASE InstallStatuses /\ a # created
    <3>1. agents'[a] = agents[a] /\ UNCHANGED <<commonInfo, created>>
      BY <1>0, <1>1, <2>6 DEF InstallStatuses, commonVars
    <3>2. ~ \E r \in Request : ReplaceStatus(r)
      BY <2>6 DEF InstallStatuses, ReplaceStatus, commonVars, agentVars
    <3>3. Within(scripts'[h], scripts[h])
      BY <2>1, <3>2, ListsWithin
    <3>4. Installed(a)
      BY <2>1, <2>6 DEF Installed
    <3> QED
      BY <1>3, <2>1, <2>4, <3>1, <3>3, <3>4, InstalledKept
  <2>7. CASE RemoveLiveStatuses
    <3>1. /\ Installed(a) /\ phase = "running" /\ phase' = "no statuses"
          /\ UNCHANGED <<scripts, commonInfo>>
      BY <2>1, <2>7 DEF RemoveLiveStatuses, Installed, agentVars, commonVars
    <3> SUFFICES ASSUME NEW e \in scripts[h], e.fn.home # Dev PROVE Replaced(a, e)'
      BY <2>1, <3>1 DEF SameAgent
    <3>2. Replaced(a, e) /\ e.slot \in Slot
      BY <1>3, <2>3, <3>1 DEF InstalledInv, StatusInfo
    <3>3. For(FromDev(scripts[h]), e.slot) = {}
      BY <2>3 DEF For, FromDev, Unique
    <3>4. FromDev(scripts[Common]) = {}
      BY DEF NoDevCommon, FromDev, RegistryInv, Holds, Asked, Key
    <3>5. agents'[a].table[e.slot] = agents[a].table[e.slot]
      <4>1. For(FromDev(scripts[Common]), e.slot) = {}
        BY <3>4 DEF For
      <4>2. Undone(a)[e.slot] = agents[a].table[e.slot]
        BY <3>2, <3>3, <4>1 DEF Undone, Restored
      <4>3. agents'[a] = agents[a] \/ agents'[a] = [agents[a] EXCEPT !.table = Undone(a)]
        BY <1>0, <1>1, <2>7 DEF RemoveLiveStatuses
      <4> QED
        BY <2>1, <4>2, <4>3 DEF Agent
    <3> QED
      BY <2>1, <3>1, <3>2, <3>5 DEF Replaced, OfCommon, OfAgent, Region, InstanceOf, SameAgent
  <2>8. ASSUME NEW r \in Request, ReplaceStatus(r)
        PROVE  \A e \in scripts'[agents'[a].hash] :
                 phase' = "running" \/ e.fn.home # Dev => Replaced(a, e)'
    <3>1. UNCHANGED <<phase, created, setting, commonInfo>> /\ Installed(a)
      BY <2>1, <2>8 DEF ReplaceStatus, Installed, agentVars, commonVars
    <3>2. PICK info : /\ InfoOf(info, r)
                      /\ \/ ub' = TRUE /\ UNCHANGED <<agents, scripts>>
                         \/ /\ UNCHANGED ub
                            /\ agents' = [b \in AgentId |->
                                 IF b \in Open(r)
                                 THEN [agents[b] EXCEPT !.table[r.slot] = Replacement(r)]
                                 ELSE agents[b]]
                            /\ scripts' = [scripts EXCEPT ![r.agent] =
                                             Recorded(scripts[r.agent], info)]
      BY <2>8, StatusRequested
    <3>3. CASE UNCHANGED <<agents, scripts>>
      <4>1. Within(scripts'[h], scripts[h])
        BY <3>3 DEF Within
      <4> QED
        BY <1>3, <2>1, <2>4, <3>1, <3>3, <4>1, InstalledKept
    <3>4. CASE /\ agents' = [b \in AgentId |->
                    IF b \in Open(r)
                    THEN [agents[b] EXCEPT !.table[r.slot] = Replacement(r)]
                    ELSE agents[b]]
               /\ scripts' = [scripts EXCEPT ![r.agent] = Recorded(scripts[r.agent], info)]
      <4> SUFFICES ASSUME NEW d \in scripts'[h], phase = "running" \/ d.fn.home # Dev
                   PROVE  Replaced(a, d)'
        BY <2>1, <3>1 DEF SameAgent
      <4>1. r.plugin \in Plugin /\ r.agent \in Key /\ r.slot \in Slot /\ r.fn \in Fn
        BY DataAssumption DEF RequestType
      <4>2. Replacement(r) \in Pointer /\ Replacement(r).home \in Plugin
        BY <4>1, ReplacementType DEF TypeInv
      <4>3. \/ d \in scripts[h]
            \/ r.agent = h /\ d.slot = r.slot
        <5>1. CASE r.agent = h
          <6>1. scripts'[h] = Recorded(scripts[h], info)
            BY <1>0, <2>1, <3>4, <5>1
          <6> QED
            BY <2>3, <3>2, <5>1, <6>1, RecordedUnique DEF InfoOf
        <5>2. CASE r.agent # h
          BY <1>0, <2>1, <3>4, <5>2
        <5> QED
          BY <5>1, <5>2
      <4>4. d.slot \in Slot
        BY <2>3, <4>1, <4>3 DEF StatusInfo
      <4>5. CASE a \in Open(r) /\ d.slot = r.slot
        <5>1. agents'[a].table[d.slot] = Replacement(r)
          BY <1>1, <2>1, <3>4, <4>4, <4>5 DEF Agent
        <5>2. agents'[a].module \in Module
          BY <2>1 DEF SameAgent
        <5> QED
          BY <4>2, <5>1, <5>2, NamesAssumption
          DEF Replaced, OfCommon, OfAgent, Region, InstanceOf
      <4>6. CASE ~(a \in Open(r) /\ d.slot = r.slot)
        <5>1. agents'[a].table[d.slot] = agents[a].table[d.slot]
          BY <1>1, <2>1, <3>4, <4>4, <4>6 DEF Agent
        <5>2. Replaced(a, d)
          <6>1. CASE d \in scripts[h]
            BY <1>3, <3>1, <6>1 DEF InstalledInv
          <6>2. CASE r.agent = h /\ d.slot = r.slot
            <7>1. a \in Targets(r) /\ a \notin Open(r)
              BY <1>3, <4>6, <6>2 DEF Targets
            <7>2. ~Displaceable(a, r)
              BY <2>2, <7>1 DEF Open
            <7> QED
              BY <2>1, <6>2, <7>2 DEF Displaceable, Replaced
          <6> QED
            BY <4>3, <6>1, <6>2
        <5> QED
          BY <2>1, <3>1, <5>1, <5>2
          DEF Replaced, OfCommon, OfAgent, Region, InstanceOf, SameAgent
      <4> QED
        BY <4>5, <4>6
    <3> QED
      BY <3>2, <3>3, <3>4
  <2>9. CASE ~InstallStatuses /\ ~RemoveLiveStatuses /\ ~ \E r \in Request : ReplaceStatus(r)
    <3>1. /\ agents'[a].table = agents[a].table \/ (a = created' /\ setting' = "statuses")
          /\ UNCHANGED commonInfo
          /\ a = created' => a = created /\ (setting \in {"table", "statuses"} =>
                                               setting' \in {"table", "statuses"})
      BY <1>1, <1>3, <2>2, <2>9, TablesUntouched
    <3>2. agents'[a].table = agents[a].table
      BY <3>1 DEF Installed
    <3>3. Installed(a)
      <4>1. a = created => created' = created \/ setting = "nothing"
        BY <1>1, <2>9, ModulesTouched
        DEF CreateAgent, GameFree, LoadCommon, UnloadCommon, NroLoad, NroUnload,
            ModulesUntouched, agentVars
      <4> QED
        BY <2>1, <3>1, <4>1 DEF Installed
    <3>4. Within(scripts'[h], scripts[h])
      BY <2>1, <2>9, ListsWithin
    <3> QED
      BY <1>3, <2>1, <2>4, <3>1, <3>2, <3>3, <3>4, InstalledKept
  <2> QED
    BY <2>5, <2>6, <2>7, <2>8, <2>9
<1>4. \/ \E m \in Module, h \in Hash : CreateAgent(m, h) /\ a = created + 1
      \/ a <= created /\ a \in loadedAgents
  <2>1. CASE \E m \in Module, h \in Hash : CreateAgent(m, h)
    <3>1. PICK m \in Module, h \in Hash : CreateAgent(m, h)
      BY <2>1
    <3>2. a \in loadedAgents \/ a = created + 1
      BY <3>1 DEF CreateAgent
    <3> QED
      BY <3>1, <3>2, ListedAgent
  <2>2. CASE \E m \in Module : NroUnload(m)
    BY <2>2, ListedAgent DEF NroUnload
  <2>3. ASSUME ~ \E m \in Module, h \in Hash : CreateAgent(m, h),
               ~ \E m \in Module : NroUnload(m)
        PROVE  UNCHANGED loadedAgents
    BY <2>3 DEF Next, Game, Ask, Loader, LoadCommon, UnloadCommon, NroLoad,
                SetTable, InstallStatuses, InstallWaza, DestroyAgent,
                ReplaceStatus, ReplaceWaza, LoadDev, RemoveLiveStatuses,
                RemoveLiveWaza, PurgeStatuses, UnloadDev, vars, agentVars
  <2> QED
    BY <2>1, <2>2, <2>3, ListedAgent
<1> QED
  BY <1>2, <1>3, <1>4

\* InstalledEverywhere, over every run in which the development plugin leaves the
\* scripts of all fighters alone: a request reaches the agents that are and those
\* still to come, whatever is created, destroyed or reloaded in between.
THEOREM InstalledThroughout ==
  ASSUME NoDevCommon PROVE Spec => []InstalledEverywhere
<1>1. Init => InstallInvs
  <2>1. Init => InstalledInv
    BY DEF Init, InstalledInv
  <2> QED
    BY <2>1, InitTypeInv, InitCommon, InitRegistry DEF InstallInvs
<1>2. InstallInvs /\ [Next]_vars => InstallInvs'
  <2> SUFFICES ASSUME InstallInvs, [Next]_vars PROVE InstallInvs'
    OBVIOUS
  <2>1. TypeInv' /\ CommonInv' /\ VtablesExact' /\ RegistryInv'
    BY NextTypeInv, NextCommon, NextVtables, NextRegistry DEF InstallInvs
  <2>2. InstalledInv'
    BY NextInstalled
  <2> QED
    BY <2>1, <2>2 DEF InstallInvs
<1>3. InstallInvs => InstalledEverywhere
  <2> SUFFICES ASSUME InstallInvs, Quiet, NEW a \in loadedAgents, Live(a),
                      NEW e \in scripts[agents[a].hash]
               PROVE  Replaced(a, e)
    BY DEF InstalledEverywhere, Replaced
  <2>1. Installed(a)
    BY DEF Quiet, Installed
  <2>2. agents[a].hash \in Key
    BY ListedAgent, AgentType DEF InstallInvs, Key
  <2>3. phase = "running" \/ e.fn.home # Dev
    BY <2>2 DEF Quiet, InstallInvs, RegistryInv, Holds
  <2> QED
    BY <2>1, <2>3 DEF InstallInvs, InstalledInv
<1> QED
  BY <1>1, <1>2, <1>3, PTL DEF Spec

-----------------------------------------------------------------------------
(* The customizers implement ScriptSlots.                                  *)

\* Only requests choose whose function a customizer has: an installation saves
\* what it displaces in it, and nothing ever takes one away.
LEMMA CustomizersTouched ==
  ASSUME TypeInv, [Next]_vars
  PROVE  \/ \A h \in Hash : \/ customizers'[h] = customizers[h]
                            \/ /\ customizers[h] \in StatusWazaInfo
                               /\ \E b \in Target : customizers'[h] = [customizers[h] EXCEPT !.backup = b]
         \/ \E r \in WazaRequest : ReplaceWaza(r)
<1>0. customizers \in [Hash -> StatusWazaInfo \cup {Null}]
  BY DEF TypeInv, TypeOK
<1>1. CASE InstallWaza
  <2> DEFINE h == agents[created].hash
  <2>1. created \in AgentId /\ created <= created
    <3>1. created \in AgentId
      BY <1>1 DEF InstallWaza, TypeInv, AgentsMade
    <3> QED
      BY <3>1, BoundsAssumption DEF AgentId
  <2>2. h \in Hash /\ agents[created].waza \in Target
    BY <2>1, AgentType
  <2>3. \/ UNCHANGED customizers
        \/ /\ customizers[h] # Null
           /\ customizers' = [customizers EXCEPT ![h].backup = agents[created].waza]
    BY <1>1 DEF InstallWaza
  <2> HIDE DEF h
  <2> QED
    BY <1>0, <2>2, <2>3
<1>2. ASSUME ~InstallWaza PROVE UNCHANGED customizers \/ \E r \in WazaRequest : ReplaceWaza(r)
  BY <1>2 DEF Next, Game, Ask, Loader, LoadCommon, UnloadCommon, NroLoad, NroUnload,
              CreateAgent, SetTable, InstallStatuses, DestroyAgent, ReplaceStatus,
              LoadDev, RemoveLiveStatuses, RemoveLiveWaza, PurgeStatuses, UnloadDev, vars
<1> QED
  BY <1>1, <1>2

\* A request turned down, or accepted for a customizer it may have.
Accepted(r, info) == /\ TakesWaza(r.agent) /\ WazaInfoOf(info, r)
                     /\ customizers' = [customizers EXCEPT ![r.agent] = info]

LEMMA CustomizersChange ==
  ASSUME TypeInv, [Next]_vars
  PROVE  \/ \E r \in WazaRequest : \E info : Accepted(r, info)
         \/ \A h \in Hash : \/ customizers'[h] = customizers[h]
                            \/ /\ customizers[h] \in StatusWazaInfo
                               /\ \E b \in Target : customizers'[h] = [customizers[h] EXCEPT !.backup = b]
<1>1. ASSUME NEW r \in WazaRequest, ReplaceWaza(r)
      PROVE  (\E info : Accepted(r, info)) \/ UNCHANGED customizers
  BY <1>1, WazaRequested DEF Accepted
<1> QED
  BY <1>1, CustomizersTouched

\* The holder of an entry, which a saved backup does not change.
HolderOf(info) == [owner |-> info.fn.home, fn |-> info.fn, low |-> info.low]

LEMMA SameWazaSlot ==
  ASSUME TypeInv, NEW h \in Hash,
         \/ customizers'[h] = customizers[h]
         \/ /\ customizers[h] \in StatusWazaInfo
            /\ \E b \in Target : customizers'[h] = [customizers[h] EXCEPT !.backup = b]
  PROVE  WazaSlot(h)' = WazaSlot(h) /\ (customizers'[h] = Null <=> customizers[h] = Null)
<1>1. CASE customizers'[h] = customizers[h]
  BY <1>1 DEF WazaSlot
<1>2. CASE /\ customizers[h] \in StatusWazaInfo
           /\ \E b \in Target : customizers'[h] = [customizers[h] EXCEPT !.backup = b]
  <2>1. PICK b \in Target : customizers'[h] = [customizers[h] EXCEPT !.backup = b]
    BY <1>2
  <2>2. /\ customizers'[h].fn = customizers[h].fn /\ customizers'[h].low = customizers[h].low
        /\ customizers'[h] \in StatusWazaInfo
    BY <1>2, <2>1 DEF StatusWazaInfo
  <2> QED
    BY <1>2, <2>2, NamesAssumption DEF WazaSlot
<1> QED
  BY <1>1, <1>2

LEMMA NextCustomizers ==
  TypeInv /\ CustomizersOwned /\ [Next]_vars
    => CustomizersOwned' /\ [Slots!Next]_WazaSlots
<1> SUFFICES ASSUME TypeInv, CustomizersOwned, [Next]_vars
             PROVE  CustomizersOwned' /\ (Slots!Next \/ UNCHANGED WazaSlots)
  OBVIOUS
<1>0. customizers \in [Hash -> StatusWazaInfo \cup {Null}]
  BY DEF TypeInv, TypeOK
<1>1. ASSUME NEW r \in WazaRequest, NEW info, Accepted(r, info)
      PROVE  CustomizersOwned' /\ Slots!Next
  <2> DEFINE k == r.agent
  <2>1. k \in Hash /\ r.plugin \in Plugin /\ r.fn \in Fn
    BY DataAssumption DEF WazaRequestType
  <2>2. /\ info \in StatusWazaInfo /\ info # Null /\ info.fn.home \in Plugin
        /\ HolderOf(info) \in WazaHolder
    <3>1. info \in StatusWazaInfo /\ info.fn = Replacement(r)
      BY <1>1 DEF Accepted, WazaInfoOf
    <3>2. info.fn.home \in Plugin
      BY <2>1, <3>1, ReplacementType DEF TypeInv
    <3> QED
      BY <3>1, <3>2, NamesAssumption DEF HolderOf, WazaHolder, StatusWazaInfo
  <2>3. /\ customizers'[k] = info /\ \A h \in Hash \ {k} : customizers'[h] = customizers[h]
    BY <1>0, <1>1, <2>1 DEF Accepted
  <2>4. CustomizersOwned'
    BY <2>2, <2>3 DEF CustomizersOwned
  <2>5. WazaSlots' = [WazaSlots EXCEPT ![k] = HolderOf(info)]
    <3>1. WazaSlot(k)' = HolderOf(info)
      BY <2>2, <2>3 DEF WazaSlot, HolderOf
    <3>2. \A h \in Hash \ {k} : WazaSlot(h)' = WazaSlot(h)
      BY <2>3 DEF WazaSlot
    <3> QED
      BY <2>1, <3>1, <3>2 DEF WazaSlots
  <2>6. WazaSlots'[k] = HolderOf(info)
    BY <2>1, <2>5 DEF WazaSlots
  <2>7. WazaSlots[k] = Null \/ WazaSlots[k].low
    BY <1>1, <2>1 DEF Accepted, TakesWaza, WazaSlots, WazaSlot
  <2>8. Slots!Claim(k) \/ Slots!Override(k)
    <3> HIDE DEF k
    <3> QED BY <2>2, <2>5, <2>6, <2>7 DEF Slots!Claim, Slots!Override, Slots!Take
  <2> QED
    BY <2>1, <2>4, <2>8 DEF Slots!Next
<1>2. ASSUME \A h \in Hash : \/ customizers'[h] = customizers[h]
                             \/ /\ customizers[h] \in StatusWazaInfo
                                /\ \E b \in Target :
                                     customizers'[h] = [customizers[h] EXCEPT !.backup = b]
      PROVE  CustomizersOwned' /\ UNCHANGED WazaSlots
  <2>1. \A h \in Hash : /\ WazaSlot(h)' = WazaSlot(h)
                        /\ customizers'[h] = Null <=> customizers[h] = Null
    BY <1>2, SameWazaSlot
  <2>2. \A h \in Hash : customizers[h] # Null => customizers'[h].fn = customizers[h].fn
    BY <1>2 DEF StatusWazaInfo
  <2> QED
    BY <2>1, <2>2 DEF CustomizersOwned, WazaSlots
<1> QED
  BY <1>1, <1>2, CustomizersChange

LEMMA InitCustomizers == Init => CustomizersOwned /\ Slots!Init
BY DEF Init, CustomizersOwned, Slots!Init, WazaSlots, WazaSlot

\* Seen hash by hash, the registry of replace_move_customizer obeys ScriptSlots,
\* its holders never leaving.
THEOREM CustomizersImplementSlots == Spec => ImplementsSlots
<1>1. TypeInv /\ CustomizersOwned /\ [Next]_vars
        => (TypeInv /\ CustomizersOwned)' /\ [Slots!Next]_WazaSlots
  BY NextTypeInv, NextCustomizers
<1>2. Init => TypeInv /\ CustomizersOwned /\ Slots!Init
  BY InitTypeInv, InitCustomizers
<1> QED
  BY <1>1, <1>2, PTL DEF Spec, ImplementsSlots, Slots!Spec

\* What follows from it: a customizer recorded with high priority is overridden by
\* no later request ("has already been replaced", status.rs).
THEOREM WazaHighPriorityHeld == Spec => Slots!HighPriorityHeld
<1>1. [Slots!Next]_WazaSlots => [Slots!HighPriorityStep]_WazaSlots
  <2> SUFFICES ASSUME Slots!Next PROVE Slots!HighPriorityStep
    OBVIOUS
  <2> USE DEF Slots!HighPriorityStep
  <2>1. CASE \E j \in Hash : Slots!Claim(j) \/ Slots!Override(j)
    <3>1. PICK j \in Hash : Slots!Claim(j) \/ Slots!Override(j)
      BY <2>1
    <3>2. \A k \in Hash \ {j} : WazaSlots'[k] = WazaSlots[k]
      BY <3>1 DEF Slots!Claim, Slots!Override, Slots!Take, WazaSlots
    <3>3. WazaSlots[j] = Null \/ WazaSlots[j].low
      BY <3>1 DEF Slots!Claim, Slots!Override
    <3> QED
      BY <3>2, <3>3
  <2>2. CASE Slots!Leave
    BY <2>2 DEF Slots!Leave
  <2> QED
    BY <2>1, <2>2 DEF Slots!Next
<1>2. Slots!Spec => [][Slots!Next]_WazaSlots
  BY PTL DEF Slots!Spec
<1> QED
  BY <1>1, <1>2, CustomizersImplementSlots, PTL DEF ImplementsSlots, Slots!HighPriorityHeld
=============================================================================
