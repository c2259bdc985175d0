--------------------------- MODULE CallbacksProofs ---------------------------
(***************************************************************************)
(* Proofs about Callbacks: the lists are exact, and the game never calls   *)
(* into a plugin that has left, whatever the number of lists and plugins   *)
(* and however the threads interleave.                                     *)
(***************************************************************************)
EXTENDS Callbacks, TLAPS

\* The resident plugins stay; the development plugin is there from its load to
\* its unload, and what it has added is forgotten with it.
LifeInv ==
  /\ Plugin \ {Dev} \subseteq mapped
  /\ Dev \in mapped <=> phase # Away
  /\ \A l \in List : <<Dev, l>> \in added => Dev \in mapped

\* Who adds to a list is there, and has not added to it yet; the development
\* plugin adds nothing once its uninstallation has begun.
AddInv ==
  \A p \in Plugin : adding[p] # NotAdding =>
    /\ p \in mapped /\ adding[p].list \in List
    /\ p = Dev => phase = 0

\* What the game has yet to call is still in the list it holds.
GameInv ==
  /\ game.list = Null => game.todo = {} /\ game.now = Null
  /\ game.list # Null =>
       /\ game.todo \subseteq lists[game.list]
       /\ game.now # Null => game.now \in lists[game.list]

IInv == TypeOK /\ LifeInv /\ AddInv /\ ListsExact /\ GameInv

USE ConstantsAssumption DEF ConstantsAssumption, Away

-----------------------------------------------------------------------------
LEMMA LengthIsNat == Len(PurgeOrder) \in Nat /\ DOMAIN PurgeOrder = 1..Len(PurgeOrder)
OBVIOUS

LEMMA InitIInv == Init => IInv
<1> SUFFICES ASSUME Init PROVE IInv
    OBVIOUS
<1>1. TypeOK
      <2>1. NotAdding \in [list : List \cup {Null}, stage : {"none", "once", "push"}]
            BY DEF NotAdding
      <2>2. Idle \in [list : List \cup {Null}, todo : SUBSET Callback, now : Callback \cup {Null}]
            BY DEF Idle
      <2>3. phase \in 0..Away
            BY LengthIsNat DEF Init
      <2>4. gen \in [Plugin -> 0..MaxGen] /\ hooks \in [List -> Nat]
            BY DEF Init
      <2> QED BY <2>1, <2>2, <2>3, <2>4 DEF Init, TypeOK
<1>2. LifeInv /\ AddInv
      BY DEF Init, LifeInv, AddInv
<1>3. ListsExact
      BY DEF Init, ListsExact, Members
<1>4. GameInv
      BY DEF Init, GameInv, Idle
<1> QED BY <1>1, <1>2, <1>3, <1>4 DEF IInv

LEMMA TypeStep == TypeOK /\ AddInv /\ [Next]_vars => TypeOK'
<1> SUFFICES ASSUME TypeOK, AddInv, [Next]_vars PROVE TypeOK'
    OBVIOUS
<1> USE LengthIsNat DEF TypeOK
<1>0. \A p \in Plugin : Instance(p) \in Callback
      BY DEF Instance, Callback
<1>1. CASE LoadCommon
      BY <1>1 DEF LoadCommon, WantedHooks, pluginVars, addVars
<1>2. CASE SetCommonInfo
      BY <1>2 DEF SetCommonInfo, pluginVars, hookVars, addVars
<1>3. CASE UnloadCommon
      BY <1>3 DEF UnloadCommon, pluginVars, addVars
<1>4. ASSUME NEW p \in Plugin, NEW l \in List, BeginOnce(p, l) PROVE TypeOK'
      BY <1>4 DEF BeginOnce, pluginVars, commonVars
<1>5. ASSUME NEW p \in Plugin, EndOnce(p) PROVE TypeOK'
  <2>1. hooks' \in [List -> Nat]
    <3>1. hooks' = [hooks EXCEPT ![adding[p].list] = HooksAfterOnce(adding[p].list)]
          BY <1>5 DEF EndOnce
    <3>2. ASSUME NEW l \in List PROVE HooksAfterOnce(l) \in Nat
          BY DEF HooksAfterOnce
    <3> QED BY <3>1, <3>2
  <2>2. adding' \in [Plugin -> [list : List \cup {Null}, stage : {"none", "once", "push"}]]
        BY <1>5 DEF EndOnce
  <2>3. once' \in [Lazy -> {"new", "running", "done"}] /\ overlap' \in BOOLEAN
        BY <1>5 DEF EndOnce
  <2> QED BY <1>5, <2>1, <2>2, <2>3 DEF EndOnce, pluginVars, commonVars
<1>6. ASSUME NEW p \in Plugin, NEW l \in List, BeginPush(p, l) PROVE TypeOK'
      BY <1>6 DEF BeginPush, pluginVars, commonVars, hookVars
<1>7. ASSUME NEW p \in Plugin, Push(p) PROVE TypeOK'
  <2>1. lists' \in [List -> SUBSET Callback]
        BY <1>7, <1>0 DEF Push
  <2>2. adding' \in [Plugin -> [list : List \cup {Null}, stage : {"none", "once", "push"}]]
        BY <1>7 DEF Push, NotAdding
  <2>3. added' \subseteq Plugin \X List
        BY <1>7 DEF Push, AddInv, NotAdding
  <2> QED BY <1>7, <2>1, <2>2, <2>3 DEF Push, pluginVars, commonVars, hookVars
<1>8. ASSUME NEW l \in List, RunList(l) PROVE TypeOK'
      BY <1>8 DEF RunList, pluginVars, commonVars, hookVars, addVars
<1>9. CASE CallNext
  <2>1. PICK c \in game.todo :
          game' = [game EXCEPT !.now = c, !.todo = game.todo \ {c}]
        BY <1>9 DEF CallNext, Advanced
  <2>2. game' \in [list : List \cup {Null}, todo : SUBSET Callback,
                   now : Callback \cup {Null}]
        BY <2>1
  <2> QED BY <1>9, <2>2 DEF CallNext, pluginVars, commonVars, hookVars, addVars
<1>10. CASE EndRun
      BY <1>10 DEF EndRun, Idle, pluginVars, commonVars, hookVars, addVars
<1>11. CASE LoadDev
  <2>1. gen' \in [Plugin -> 0..MaxGen] /\ mapped' \subseteq Plugin /\ phase' \in 0..Away
        BY <1>11 DEF LoadDev
  <2> QED BY <1>11, <2>1 DEF LoadDev, commonVars, hookVars, addVars
<1>12. CASE BeginUninstall
      BY <1>12 DEF BeginUninstall, pluginVars, commonVars, hookVars, addVars
<1>13. CASE PurgeList
  <2>1. lists' \in [List -> SUBSET Callback]
        BY <1>13 DEF PurgeList, Purged
  <2>2. phase' \in 0..Away
        BY <1>13 DEF PurgeList
  <2> QED BY <1>13, <2>1, <2>2 DEF PurgeList, pluginVars, commonVars, hookVars, addVars
<1>14. CASE UnloadDev
      BY <1>14 DEF UnloadDev, commonVars, hookVars
<1>15. CASE UNCHANGED vars
      BY <1>15 DEF vars
<1> QED
  BY <1>1, <1>2, <1>3, <1>4, <1>5, <1>6, <1>7, <1>8, <1>9, <1>10, <1>11, <1>12,
     <1>13, <1>14, <1>15 DEF Next

-----------------------------------------------------------------------------
\* Only the loader changes who is there.
LEMMA LifeStep == IInv /\ [Next]_vars => LifeInv'
<1> SUFFICES ASSUME IInv, [Next]_vars PROVE LifeInv'
    OBVIOUS
<1> USE LengthIsNat DEF IInv, LifeInv
<1>1. CASE LoadDev
      BY <1>1 DEF LoadDev, addVars, TypeOK
<1>2. CASE BeginUninstall
      BY <1>2 DEF BeginUninstall, pluginVars, addVars
<1>3. CASE PurgeList
      BY <1>3 DEF PurgeList, pluginVars, addVars
<1>4. CASE UnloadDev
      BY <1>4 DEF UnloadDev
<1>5. ASSUME NEW p \in Plugin, Push(p) PROVE LifeInv'
  <2>1. p = Dev => Dev \in mapped
        BY <1>5 DEF Push, AddInv, NotAdding
  <2> QED BY <1>5, <2>1 DEF Push, pluginVars
<1>6. ASSUME UNCHANGED <<mapped, phase, added>> PROVE LifeInv'
      BY <1>6
<1>7. ASSUME NEW p \in Plugin, NEW l \in List, BeginOnce(p, l) \/ BeginPush(p, l)
      PROVE  LifeInv'
      BY <1>6, <1>7 DEF BeginOnce, BeginPush, pluginVars
<1>8. ASSUME NEW p \in Plugin, EndOnce(p) PROVE LifeInv'
      BY <1>6, <1>8 DEF EndOnce, pluginVars
<1>9. CASE LoadCommon \/ SetCommonInfo \/ UnloadCommon \/ CallNext \/ EndRun
      BY <1>6, <1>9 DEF LoadCommon, SetCommonInfo, UnloadCommon, CallNext, EndRun,
         pluginVars, addVars
<1>10. ASSUME NEW l \in List, RunList(l) PROVE LifeInv'
      BY <1>6, <1>10 DEF RunList, pluginVars, addVars
<1>11. CASE UNCHANGED vars
      BY <1>6, <1>11 DEF vars
<1> QED
  BY <1>1, <1>2, <1>3, <1>4, <1>5, <1>7, <1>8, <1>9, <1>10, <1>11 DEF Next

LEMMA AddStep == TypeOK /\ AddInv /\ [Next]_vars => AddInv'
<1> SUFFICES ASSUME TypeOK, AddInv, [Next]_vars PROVE AddInv'
    OBVIOUS
<1> USE DEF AddInv
<1>1. ASSUME NEW p \in Plugin, NEW l \in List, BeginOnce(p, l) \/ BeginPush(p, l)
      PROVE  AddInv'
      BY <1>1 DEF BeginOnce, BeginPush, MayAdd, pluginVars, TypeOK
<1>2. ASSUME NEW p \in Plugin, EndOnce(p) PROVE AddInv'
      BY <1>2 DEF EndOnce, pluginVars, TypeOK, NotAdding
<1>3. ASSUME NEW p \in Plugin, Push(p) PROVE AddInv'
      BY <1>3 DEF Push, pluginVars, TypeOK
<1>4. CASE LoadDev
      BY <1>4 DEF LoadDev, addVars
<1>5. CASE BeginUninstall
      BY <1>5 DEF BeginUninstall, pluginVars, addVars
<1>6. CASE PurgeList
      BY <1>6, LengthIsNat DEF PurgeList, pluginVars, addVars
<1>7. CASE UnloadDev
      BY <1>7, LengthIsNat DEF UnloadDev
<1>8. ASSUME UNCHANGED <<mapped, phase, adding>> PROVE AddInv'
      BY <1>8
<1>9. CASE LoadCommon \/ SetCommonInfo \/ UnloadCommon \/ CallNext \/ EndRun
      BY <1>8, <1>9 DEF LoadCommon, SetCommonInfo, UnloadCommon, CallNext, EndRun,
         pluginVars, addVars
<1>10. ASSUME NEW l \in List, RunList(l) PROVE AddInv'
      BY <1>8, <1>10 DEF RunList, pluginVars, addVars
<1>11. CASE UNCHANGED vars
      BY <1>8, <1>11 DEF vars
<1> QED
  BY <1>1, <1>2, <1>3, <1>4, <1>5, <1>6, <1>7, <1>9, <1>10, <1>11 DEF Next

\* A list changes only by the push of an instance that is there, and by the
\* purge of those of the development plugin.
LEMMA ListsStep == IInv /\ [Next]_vars => ListsExact'
<1> SUFFICES ASSUME IInv, [Next]_vars, NEW l \in List
             PROVE  (lists[l] = {Instance(p) : p \in Members(l)})'
    BY DEF ListsExact
<1> USE LengthIsNat DEF IInv
<1>0. lists[l] = {Instance(p) : p \in Members(l)} /\ Members(l) \subseteq Plugin
      BY DEF ListsExact, Members, TypeOK
<1>1. ASSUME UNCHANGED <<gen, mapped, lists, added, phase>>
      PROVE  (lists[l] = {Instance(p) : p \in Members(l)})'
      BY <1>0, <1>1 DEF Members, HasPurged, Instance
<1>2. ASSUME NEW q \in Plugin, Push(q)
      PROVE  (lists[l] = {Instance(p) : p \in Members(l)})'
  <2>1. /\ q \in mapped
        /\ q = Dev => phase = 0
        /\ UNCHANGED <<gen, mapped, phase>> /\ added' = added \cup {<<q, adding[q].list>>}
        BY <1>2 DEF Push, AddInv, NotAdding, pluginVars
  <2>2. ~(q = Dev /\ HasPurged(l))
        BY <2>1 DEF HasPurged
  <2>3. CASE l = adding[q].list
    <3>1. Members(l)' = Members(l) \cup {q}
          BY <2>1, <2>2, <2>3 DEF Members, HasPurged
    <3>2. lists'[l] = lists[l] \cup {Instance(q)}
          BY <1>2, <2>3 DEF Push, TypeOK
    <3> QED BY <1>0, <2>1, <3>1, <3>2 DEF Instance
  <2>4. CASE l # adding[q].list
    <3>1. Members(l)' = Members(l)
          BY <2>1, <2>4 DEF Members, HasPurged
    <3>2. lists'[l] = lists[l]
          BY <1>2, <2>4 DEF Push, TypeOK
    <3> QED BY <1>0, <2>1, <3>1, <3>2 DEF Instance
  <2> QED BY <2>3, <2>4
<1>3. CASE LoadDev
  <2>1. Dev \notin mapped /\ <<Dev, l>> \notin added
        BY <1>3 DEF LoadDev, LifeInv
  <2>2. Members(l)' = Members(l) /\ Dev \notin Members(l)
        BY <1>3, <2>1 DEF LoadDev, Members, HasPurged, addVars
  <2>3. \A p \in Members(l) : gen'[p] = gen[p]
        BY <1>0, <1>3, <2>2 DEF LoadDev, TypeOK
  <2> QED BY <1>0, <1>3, <2>2, <2>3 DEF LoadDev, Instance
<1>4. CASE BeginUninstall
  <2>1. HasPurged(l)' = HasPurged(l)
        BY <1>4 DEF BeginUninstall, HasPurged
  <2>2. Members(l)' = Members(l)
        BY <1>4, <2>1 DEF BeginUninstall, Members, pluginVars, addVars
  <2> QED BY <1>0, <1>4, <2>2 DEF BeginUninstall, Instance, pluginVars
<1>5. CASE PurgeList
  <2>1. /\ phase \in DOMAIN PurgeOrder /\ phase' = phase + 1
        /\ UNCHANGED <<gen, mapped, added>>
        /\ lists' = [lists EXCEPT ![PurgeOrder[phase]] = Purged(@)]
        BY <1>5 DEF PurgeList, pluginVars, addVars
  <2>2. CASE l = PurgeOrder[phase]
    <3>1. HasPurged(l)'
          BY <2>1, <2>2 DEF HasPurged
    <3>2. Members(l)' = Members(l) \ {Dev}
          BY <2>1, <3>1 DEF Members
    <3>3. lists'[l] = {c \in lists[l] : c[1] # Dev}
          BY <2>1, <2>2 DEF Purged, TypeOK
    <3>4. \A p \in Members(l) : Instance(p)[1] = p
          BY DEF Instance
    <3>5. lists'[l] = {Instance(p) : p \in Members(l) \ {Dev}}
          BY <1>0, <3>3, <3>4
    <3> QED BY <2>1, <3>2, <3>5 DEF Instance
  <2>3. CASE l # PurgeOrder[phase]
    <3>1. HasPurged(l)' <=> HasPurged(l)
          BY <2>1, <2>3 DEF HasPurged
    <3>2. Members(l)' = Members(l) /\ lists'[l] = lists[l]
          BY <2>1, <2>3, <3>1 DEF Members, TypeOK
    <3> QED BY <1>0, <2>1, <3>2 DEF Instance
  <2> QED BY <2>2, <2>3
<1>6. CASE UnloadDev
  <2>1. HasPurged(l)
        BY <1>6 DEF UnloadDev, HasPurged
  <2>2. Dev \notin Members(l)
        BY <2>1 DEF Members
  <2>3. Members(l)' = Members(l)
        BY <1>6, <2>1, <2>2 DEF UnloadDev, Members
  <2> QED BY <1>0, <1>6, <2>3 DEF UnloadDev, Instance
<1>7. ASSUME NEW p \in Plugin, NEW k \in List, BeginOnce(p, k) \/ BeginPush(p, k)
      PROVE  UNCHANGED <<gen, mapped, lists, added, phase>>
      BY <1>7 DEF BeginOnce, BeginPush, pluginVars
<1>8. ASSUME NEW p \in Plugin, EndOnce(p) PROVE UNCHANGED <<gen, mapped, lists, added, phase>>
      BY <1>8 DEF EndOnce, pluginVars
<1>9. CASE LoadCommon \/ SetCommonInfo \/ UnloadCommon \/ CallNext \/ EndRun
      BY <1>1, <1>9 DEF LoadCommon, SetCommonInfo, UnloadCommon, CallNext, EndRun,
         pluginVars, addVars
<1>10. ASSUME NEW k \in List, RunList(k) PROVE UNCHANGED <<gen, mapped, lists, added, phase>>
      BY <1>10 DEF RunList, pluginVars, addVars
<1>11. CASE UNCHANGED vars
      BY <1>1, <1>11 DEF vars
<1> QED
  BY <1>1, <1>2, <1>3, <1>4, <1>5, <1>6, <1>7, <1>8, <1>9, <1>10, <1>11 DEF Next

\* The list the game holds is neither added to nor purged: both need its lock.
LEMMA GameStep == IInv /\ [Next]_vars => GameInv'
<1> SUFFICES ASSUME IInv, [Next]_vars PROVE GameInv'
    OBVIOUS
<1> USE DEF IInv, GameInv
<1>0. Null \notin List /\ Null \notin Callback
      OBVIOUS
<1>1. ASSUME NEW p \in Plugin, Push(p) PROVE GameInv'
  <2>1. game.list # Null => lists'[game.list] = lists[game.list]
        BY <1>1 DEF Push, Free, TypeOK
  <2> QED BY <1>1, <2>1 DEF Push
<1>2. CASE PurgeList
  <2>1. game.list # Null => lists'[game.list] = lists[game.list]
        BY <1>2 DEF PurgeList, MayPurge, Free, TypeOK
  <2> QED BY <1>2, <2>1 DEF PurgeList
<1>3. ASSUME NEW l \in List, RunList(l) PROVE GameInv'
      BY <1>0, <1>3 DEF RunList
<1>4. CASE CallNext
      BY <1>4 DEF CallNext, Advanced, TypeOK
<1>5. CASE EndRun
      BY <1>5 DEF EndRun, Idle
<1>6. ASSUME UNCHANGED <<lists, game>> PROVE GameInv'
      BY <1>6
<1>7. ASSUME NEW p \in Plugin, NEW l \in List, BeginOnce(p, l) \/ BeginPush(p, l)
      PROVE  GameInv'
      BY <1>6, <1>7 DEF BeginOnce, BeginPush
<1>8. ASSUME NEW p \in Plugin, EndOnce(p) PROVE GameInv'
      BY <1>6, <1>8 DEF EndOnce
<1>9. CASE \/ LoadCommon \/ SetCommonInfo \/ UnloadCommon \/ LoadDev
           \/ BeginUninstall \/ UnloadDev
      BY <1>6, <1>9 DEF LoadCommon, SetCommonInfo, UnloadCommon, LoadDev,
         BeginUninstall, UnloadDev
<1>10. CASE UNCHANGED vars
      BY <1>6, <1>10 DEF vars
<1> QED
  BY <1>1, <1>2, <1>3, <1>4, <1>5, <1>7, <1>8, <1>9, <1>10 DEF Next

\* What is true between any two steps of registrations, runs and purges: the
\* lists, the additions under way, the list the game runs and the lives of plugins
\* (callbacks.rs, loader.rs:161-175).
THEOREM Invariance == Spec => []IInv
<1>1. IInv /\ [Next]_vars => IInv'
      BY TypeStep, LifeStep, AddStep, ListsStep, GameStep DEF IInv
<1> QED BY InitIInv, <1>1, PTL DEF Spec

-----------------------------------------------------------------------------
\* Every variable keeps its type.
THEOREM TypeCorrect == Spec => []TypeOK
BY Invariance, PTL DEF IInv

\* Every list is what was added to it by the plugins still there.
THEOREM ListsStayExact == Spec => []ListsExact
BY Invariance, PTL DEF IInv

\* The game never is in, nor will call in this run, a callback of a plugin that
\* has left.
THEOREM CallsStayMapped == Spec => []CallsMapped
<1>1. IInv => CallsMapped
  <2> SUFFICES ASSUME IInv, NEW c, (c = game.now /\ c # Null) \/ c \in game.todo
               PROVE  IsMapped(c)
      BY DEF CallsMapped
  <2>1. game.list \in List /\ c \in lists[game.list]
        BY DEF IInv, GameInv, TypeOK
  <2>2. PICK p \in Members(game.list) : c = Instance(p)
        BY <2>1 DEF IInv, ListsExact
  <2> QED BY <2>2 DEF IsMapped, Instance, Members
<1> QED BY Invariance, <1>1, PTL

-----------------------------------------------------------------------------
(* The hooks.                                                              *)

\* COMMON_MEMORY_INFO tells that "common" has been loaded, not that it is.
CommonInv ==
  /\ common = "loaded" => commonInfo
  /\ commonInfo \/ common # "absent" => commonGen > 0

\* A lazy list has its flag from the first call to its Once on; who runs the
\* Once is alone; whoever pushes has been through it.
OnceInv ==
  /\ \A l \in Lazy : should[l] <=> once[l] # "new"
  /\ \A p \in Plugin : adding[p].stage = "once" =>
       /\ adding[p].list \in Lazy /\ once[adding[p].list] = "running"
       /\ \A q \in Plugin : adding[q].stage = "once" /\ adding[q].list = adding[p].list
                             => q = p
  /\ \A p \in Plugin : adding[p].stage = "push" /\ adding[p].list \in Lazy
                         => once[adding[p].list] = "done"
  /\ \A l \in Lazy : lists[l] # {} => once[l] = "done"
  /\ \A p \in Plugin : adding[p] # NotAdding => adding[p].list \in List
  /\ \A p \in Plugin : adding[p].list # Null => adding[p].stage # "none"

\* While a load of "common" is not overlapped by a Once, no Once runs before it
\* is done, and the hooks are those of the lists that have been through theirs.
HookInv ==
  ~overlap /\ common # "absent" =>
    /\ common = "loading" => \A l \in Lazy : once[l] # "running"
    /\ \A l \in List :
         hooks[l] = IF l \in Lazy /\ once[l] # "done" THEN 0 ELSE 1

HooksInv == TypeOK /\ AddInv /\ CommonInv /\ OnceInv /\ HookInv

LEMMA InitHooks == Init => HooksInv
BY InitIInv DEF HooksInv, IInv, Init, CommonInv, OnceInv, HookInv, NotAdding

LEMMA CommonStep == HooksInv /\ [Next]_vars => CommonInv'
<1> SUFFICES ASSUME HooksInv, [Next]_vars PROVE CommonInv'
    OBVIOUS
<1> USE DEF HooksInv, CommonInv, TypeOK
<1>1. ASSUME UNCHANGED <<common, commonInfo, commonGen>> PROVE CommonInv'
      BY <1>1
<1>2. CASE LoadCommon \/ SetCommonInfo \/ UnloadCommon
  <2>1. CASE LoadCommon
    <3>1. common' = "loading" /\ commonGen' = commonGen + 1
          BY <2>1 DEF LoadCommon
    <3> QED BY <3>1
  <2>2. CASE SetCommonInfo
      BY <2>2 DEF SetCommonInfo
  <2>3. CASE UnloadCommon
      BY <2>3 DEF UnloadCommon
  <2> QED BY <1>2, <2>1, <2>2, <2>3
<1>3. ASSUME NEW p \in Plugin, EndOnce(p) \/ Push(p) PROVE CommonInv'
      BY <1>1, <1>3 DEF EndOnce, Push, commonVars
<1>4. ASSUME NEW p \in Plugin, NEW l \in List, BeginOnce(p, l) \/ BeginPush(p, l)
      PROVE  CommonInv'
      BY <1>1, <1>4 DEF BeginOnce, BeginPush, commonVars
<1>5. ASSUME NEW l \in List, RunList(l) PROVE CommonInv'
      BY <1>1, <1>5 DEF RunList, commonVars
<1>6. CASE CallNext \/ EndRun \/ LoadDev \/ BeginUninstall \/ PurgeList \/ UnloadDev
      BY <1>1, <1>6 DEF CallNext, EndRun, LoadDev, BeginUninstall, PurgeList,
         UnloadDev, commonVars
<1>7. CASE UNCHANGED vars
      BY <1>1, <1>7 DEF vars
<1> QED BY <1>2, <1>3, <1>4, <1>5, <1>6, <1>7 DEF Next

LEMMA OnceStep == HooksInv /\ [Next]_vars => OnceInv'
<1> SUFFICES ASSUME HooksInv, [Next]_vars PROVE OnceInv'
    OBVIOUS
<1> USE DEF HooksInv, OnceInv
<1>1. ASSUME UNCHANGED <<should, once, adding, lists>> PROVE OnceInv'
      BY <1>1
<1>2. ASSUME NEW p \in Plugin, NEW l \in List, BeginOnce(p, l) PROVE OnceInv'
  <2>1. /\ adding[p] = NotAdding /\ l \in Lazy /\ once[l] = "new"
        /\ once' = [once EXCEPT ![l] = "running"]
        /\ should' = [should EXCEPT ![l] = TRUE]
        /\ adding' = [adding EXCEPT ![p] = [list |-> l, stage |-> "once"]]
        /\ lists' = lists
        BY <1>2 DEF BeginOnce
  <2>2. \A k \in Lazy : /\ once'[k] = IF k = l THEN "running" ELSE once[k]
                        /\ should'[k] = IF k = l THEN TRUE ELSE should[k]
        BY <2>1 DEF TypeOK
  <2>3. \A q \in Plugin : adding'[q] = IF q = p THEN [list |-> l, stage |-> "once"]
                                       ELSE adding[q]
        BY <2>1 DEF TypeOK
  <2>4. l \in List /\ l # Null
        BY ConstantsAssumption
  <2>5. \A q \in Plugin : /\ adding'[q].list = IF q = p THEN l ELSE adding[q].list
                          /\ adding'[q].stage = IF q = p THEN "once" ELSE adding[q].stage
        BY <2>3
  <2>6. \A q \in Plugin : adding'[q] # NotAdding => adding'[q].list \in List
        BY <2>3, <2>4, <2>5
  <2> HIDE <1>2
  <2>7. \A k \in Lazy : should'[k] <=> once'[k] # "new"
    <3> SUFFICES ASSUME NEW k \in Lazy PROVE should'[k] <=> once'[k] # "new"
        OBVIOUS
    <3>1. CASE k = l
          BY <2>2, <3>1
    <3>2. CASE k # l
      <4>1. should'[k] = should[k] /\ once'[k] = once[k]
            BY <2>2, <3>2
      <4> QED BY <4>1
    <3> QED BY <3>1, <3>2
  <2>8. \A q \in Plugin : adding[q].stage = "once" => adding[q].list # l
        BY <2>1
  <2>9. \A q \in Plugin : adding'[q].stage = "once" =>
          /\ adding'[q].list \in Lazy /\ once'[adding'[q].list] = "running"
          /\ \A r \in Plugin : adding'[r].stage = "once" /\ adding'[r].list = adding'[q].list
                                => r = q
    <3> SUFFICES ASSUME NEW q \in Plugin, adding'[q].stage = "once"
                 PROVE  /\ adding'[q].list \in Lazy /\ once'[adding'[q].list] = "running"
                        /\ \A r \in Plugin :
                             adding'[r].stage = "once" /\ adding'[r].list = adding'[q].list
                               => r = q
        OBVIOUS
    <3>1. CASE q = p
      <4>1. /\ adding'[q].list = l /\ l \in Lazy /\ once'[l] = "running"
            BY <2>1, <2>2, <2>5, <3>1
      <4>2. ASSUME NEW r \in Plugin, adding'[r].stage = "once", adding'[r].list = l, r # p
            PROVE  FALSE
            BY <2>5, <2>8, <4>2
      <4> QED BY <3>1, <4>1, <4>2
    <3>2. CASE q # p
      <4>1. /\ adding[q].stage = "once" /\ adding'[q].list = adding[q].list
            /\ adding[q].list # l
            BY <2>5, <2>8, <3>2
      <4>2. adding[q].list \in Lazy /\ once[adding[q].list] = "running"
            BY <4>1
      <4>3. once'[adding'[q].list] = "running"
            BY <2>2, <4>1, <4>2
      <4>4. ASSUME NEW r \in Plugin, adding'[r].stage = "once",
                   adding'[r].list = adding[q].list
            PROVE  r = q
        <5>1. r # p
              BY <2>5, <4>1, <4>4
        <5>2. adding[r].stage = "once" /\ adding[r].list = adding[q].list
              BY <2>5, <4>4, <5>1
        <5> QED BY <4>1, <5>2
      <4> QED BY <4>1, <4>2, <4>3, <4>4
    <3> QED BY <3>1, <3>2
  <2>10. \A q \in Plugin : adding'[q].stage = "push" /\ adding'[q].list \in Lazy
                           => once'[adding'[q].list] = "done"
        BY <2>1, <2>2, <2>5
  <2>11. \A k \in Lazy : lists'[k] # {} => once'[k] = "done"
        BY <2>1, <2>2
  <2>12. \A q \in Plugin : adding'[q].list # Null => adding'[q].stage # "none"
        BY <2>5
  <2> QED BY <2>6, <2>7, <2>9, <2>10, <2>11, <2>12
<1>3. ASSUME NEW p \in Plugin, EndOnce(p) PROVE OnceInv'
  <2> DEFINE l == adding[p].list
  <2>1. /\ adding[p].stage = "once" /\ l \in Lazy /\ once[l] = "running"
        /\ once' = [once EXCEPT ![l] = "done"]
        /\ adding' = [adding EXCEPT ![p].stage = "push"]
        /\ lists' = lists /\ should' = should
        BY <1>3 DEF EndOnce
  <2>2. \A k \in Lazy : once'[k] = IF k = l THEN "done" ELSE once[k]
        BY <2>1 DEF TypeOK
  <2>3. \A q \in Plugin : /\ adding'[q].list = adding[q].list
                          /\ adding'[q].stage = IF q = p THEN "push" ELSE adding[q].stage
        BY <2>1 DEF TypeOK
  <2>4. l # Null /\ \A q \in Plugin : adding'[q] # NotAdding => adding'[q].list \in List
        BY <2>1, <2>3 DEF NotAdding, TypeOK
  <2> HIDE DEF l
  <2>5. \A q \in Plugin : adding[q].stage = "once" /\ adding[q].list = l => q = p
        BY <2>1 DEF l
  <2>6. adding[p].list = l
        BY DEF l
  <2> HIDE <1>3
  <2>7. \A k \in Lazy : should'[k] <=> once'[k] # "new"
        BY <2>1, <2>2
  <2>8. \A q \in Plugin : adding'[q].stage = "once" =>
          /\ adding'[q].list \in Lazy /\ once'[adding'[q].list] = "running"
          /\ \A r \in Plugin : adding'[r].stage = "once" /\ adding'[r].list = adding'[q].list
                                => r = q
    <3> SUFFICES ASSUME NEW q \in Plugin, adding'[q].stage = "once"
                 PROVE  /\ adding'[q].list \in Lazy /\ once'[adding'[q].list] = "running"
                        /\ \A r \in Plugin :
                             adding'[r].stage = "once" /\ adding'[r].list = adding'[q].list
                               => r = q
        OBVIOUS
    <3>1. q # p /\ adding[q].stage = "once" /\ adding[q].list # l
          BY <2>3, <2>5
    <3>2. adding[q].list \in Lazy /\ once[adding[q].list] = "running"
          BY <3>1
    <3> QED BY <2>2, <2>3, <3>1, <3>2
  <2>9. \A q \in Plugin : adding'[q].stage = "push" /\ adding'[q].list \in Lazy
                           => once'[adding'[q].list] = "done"
        BY <2>2, <2>3, <2>6
  <2>10. \A k \in Lazy : lists'[k] # {} => once'[k] = "done"
        BY <2>1, <2>2
  <2>11. \A q \in Plugin : adding'[q].list # Null => adding'[q].stage # "none"
        BY <2>3
  <2> QED BY <2>4, <2>7, <2>8, <2>9, <2>10, <2>11
<1>4. ASSUME NEW p \in Plugin, NEW l \in List, BeginPush(p, l) PROVE OnceInv'
  <2>1. \A q \in Plugin : adding'[q] = IF q = p THEN [list |-> l, stage |-> "push"]
                                       ELSE adding[q]
        BY <1>4 DEF BeginPush, TypeOK
  <2>2. UNCHANGED <<once, should, lists>> /\ (l \in Lazy => once[l] = "done")
        BY <1>4 DEF BeginPush, hookVars
  <2> QED BY <2>1, <2>2
<1>5. ASSUME NEW p \in Plugin, Push(p) PROVE OnceInv'
  <2>1. \A q \in Plugin : adding'[q] = IF q = p THEN NotAdding ELSE adding[q]
        BY <1>5 DEF Push, TypeOK
  <2>2. \A k \in List : lists'[k] # {} => lists[k] # {} \/ k = adding[p].list
        BY <1>5 DEF Push, TypeOK
  <2>3. UNCHANGED <<once, should>> /\ adding[p].stage = "push"
        BY <1>5 DEF Push, hookVars
  <2>4. \A k \in Lazy : lists'[k] # {} => once'[k] = "done"
        BY <2>2, <2>3
  <2>5. \A k \in Lazy : should'[k] <=> once'[k] # "new"
        BY <2>3
  <2>6. \A q \in Plugin : adding'[q].list # Null \/ adding'[q].stage # "none" =>
          q # p /\ adding'[q] = adding[q]
        BY <2>1 DEF NotAdding
  <2> HIDE <1>5
  <2> QED BY <2>1, <2>3, <2>4, <2>5, <2>6
<1>6. CASE PurgeList
  <2>1. \A k \in List : lists'[k] # {} => lists[k] # {}
        BY <1>6 DEF PurgeList, Purged, TypeOK
  <2> QED BY <1>6, <2>1 DEF PurgeList, hookVars, addVars
<1>7. CASE \/ LoadCommon \/ SetCommonInfo \/ UnloadCommon \/ CallNext \/ EndRun
           \/ LoadDev \/ BeginUninstall \/ UnloadDev
      BY <1>1, <1>7 DEF LoadCommon, SetCommonInfo, UnloadCommon, CallNext, EndRun,
         LoadDev, BeginUninstall, UnloadDev, hookVars, addVars
<1>8. ASSUME NEW l \in List, RunList(l) PROVE OnceInv'
      BY <1>1, <1>8 DEF RunList, hookVars, addVars
<1>9. CASE UNCHANGED vars
      BY <1>1, <1>9 DEF vars
<1> QED BY <1>2, <1>3, <1>4, <1>5, <1>6, <1>7, <1>8, <1>9 DEF Next

LEMMA HookStep == HooksInv /\ [Next]_vars => HookInv'
<1> SUFFICES ASSUME HooksInv, [Next]_vars PROVE HookInv'
    OBVIOUS
<1> USE DEF HooksInv, HookInv
<1>1. ASSUME UNCHANGED <<common, once, hooks, overlap>> PROVE HookInv'
      BY <1>1
<1>2. CASE LoadCommon
  <2>1. overlap' = (\E l \in Lazy : once[l] = "running") /\ once' = once
        BY <1>2 DEF LoadCommon
  <2>2. SUFFICES ASSUME \A l \in Lazy : once[l] # "running" PROVE HookInv'
        BY <2>1
  <2>3. \A l \in Lazy : should[l] <=> once[l] = "done"
        BY <2>2 DEF OnceInv, TypeOK
  <2> QED BY <1>2, <2>1, <2>2, <2>3 DEF LoadCommon, WantedHooks
<1>3. CASE SetCommonInfo
      BY <1>3 DEF SetCommonInfo, hookVars
<1>4. CASE UnloadCommon
      BY <1>4 DEF UnloadCommon
<1>5. ASSUME NEW p \in Plugin, NEW l \in List, BeginOnce(p, l) PROVE HookInv'
  <2>1. /\ l \in Lazy /\ once[l] = "new" /\ once' = [once EXCEPT ![l] = "running"]
        /\ overlap' = (overlap \/ common = "loading")
        /\ common' = common /\ hooks' = hooks
        BY <1>5 DEF BeginOnce, commonVars
  <2>2. SUFFICES ASSUME ~overlap, common # "loading", common # "absent" PROVE HookInv'
        BY <2>1
  <2>3. \A k \in Lazy : once'[k] # "done" <=> once[k] # "done"
        BY <2>1 DEF TypeOK
  <2> QED BY <2>1, <2>2, <2>3
<1>6. ASSUME NEW p \in Plugin, EndOnce(p) PROVE HookInv'
  <2> DEFINE l == adding[p].list
  <2>1. /\ l \in Lazy /\ once[l] = "running" /\ common' = common /\ overlap' = overlap
        /\ once' = [once EXCEPT ![l] = "done"]
        /\ hooks' = [hooks EXCEPT ![l] = HooksAfterOnce(l)]
        BY <1>6 DEF EndOnce, OnceInv, commonVars
  <2> HIDE DEF l
  <2>2. SUFFICES ASSUME ~overlap, common # "absent" PROVE HookInv'
        BY <2>1
  <2>3. common = "loaded" /\ commonInfo
        BY <2>1, <2>2 DEF CommonInv, TypeOK
  <2>4. hooks[l] = 0 /\ HooksAfterOnce(l) = 1
        BY <2>1, <2>2, <2>3 DEF HooksAfterOnce
  <2>5. \A k \in Lazy : once'[k] = IF k = l THEN "done" ELSE once[k]
        BY <2>1 DEF TypeOK
  <2>6. \A k \in List : hooks'[k] = IF k = l THEN 1 ELSE hooks[k]
        BY <2>1, <2>4 DEF TypeOK
  <2> QED BY <2>1, <2>2, <2>3, <2>5, <2>6
<1>7. ASSUME NEW p \in Plugin, NEW l \in List, BeginPush(p, l) PROVE HookInv'
      BY <1>1, <1>7 DEF BeginPush, commonVars, hookVars
<1>8. ASSUME NEW p \in Plugin, Push(p) PROVE HookInv'
      BY <1>1, <1>8 DEF Push, commonVars, hookVars
<1>9. ASSUME NEW l \in List, RunList(l) PROVE HookInv'
      BY <1>1, <1>9 DEF RunList, commonVars, hookVars
<1>10. CASE CallNext \/ EndRun \/ LoadDev \/ BeginUninstall \/ PurgeList \/ UnloadDev
      BY <1>1, <1>10 DEF CallNext, EndRun, LoadDev, BeginUninstall, PurgeList,
         UnloadDev, commonVars, hookVars
<1>11. CASE UNCHANGED vars
      BY <1>1, <1>11 DEF vars
<1> QED BY <1>2, <1>3, <1>4, <1>5, <1>6, <1>7, <1>8, <1>9, <1>10, <1>11 DEF Next

\* Unless its load overlapped a first registration, "common" has one hook for
\* every list in use.
THEOREM ListsStayHookedOnce == Spec => []HookedOnce
<1>1. HooksInv /\ [Next]_vars => HooksInv'
  <2>1. HooksInv /\ [Next]_vars => TypeOK' /\ AddInv'
        BY TypeStep, AddStep DEF HooksInv
  <2> QED BY <2>1, CommonStep, OnceStep, HookStep DEF HooksInv
<1>2. HooksInv => HookedOnce
      BY DEF HooksInv, TypeOK, OnceInv, HookInv, HookedOnce
<1> QED BY InitHooks, <1>1, <1>2, PTL DEF Spec
=============================================================================
