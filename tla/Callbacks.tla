------------------------------ MODULE Callbacks ------------------------------
(***************************************************************************)
(* Callbacks: the lists of callbacks.rs and the hooks that run them, with  *)
(* the load of "common" (lib.rs nro_load) and the uninstallation           *)
(* (loader.rs).                                                            *)
(*                                                                         *)
(* Plugins add functions to lists; hooks placed in "common" run a whole    *)
(* list on the game's thread with the list locked.  The hooks of the lazy  *)
(* lists are placed when they are first needed, by whichever comes second: *)
(* the first registration (std::sync::Once) or the load of "common".       *)
(* Unloading the development plugin purges the lists one after another.    *)
(*                                                                         *)
(* Every step between two lock operations is an action; the game, the      *)
(* loader with the development plugin, and each resident plugin are        *)
(* threads of their own.  A list is the set of its callbacks, which are    *)
(* run in any order.                                                       *)
(***************************************************************************)
EXTENDS Integers, Sequences

CONSTANTS
  Plugin, Dev,  \* plugins; the development plugin, the only one to leave
  List,         \* the callback lists
  Lazy,         \* those with a Once: fighter, weapon and agent main frames
  PurgeOrder,   \* the lists in the order DevelopmentPlugin::uninstall takes
  Null,
  MaxGen        \* bound: loads of "common" and of the development plugin

Callback == Plugin \X (0..MaxGen)   \* of one instance of a plugin, at most one per list

ASSUME ConstantsAssumption ==
  /\ Dev \in Plugin /\ Lazy \subseteq List /\ Null \notin List \cup Callback
  /\ PurgeOrder \in Seq(List) /\ \A l \in List : \E i \in DOMAIN PurgeOrder : PurgeOrder[i] = l
  /\ MaxGen \in Nat \ {0}

VARIABLES
  gen,         \* load count of each plugin: tells its instances apart
  mapped,      \* plugins in memory
  common,      \* "common" is "absent", "loading" (in the hook) or "loaded"
  commonGen,   \* its load count
  commonInfo,  \* COMMON_MEMORY_INFO is set (and never unset)
  lists,       \* the callback lists
  once,        \* per lazy list: Once is "new", "running" or "done"
  should,      \* SHOULD_INSTALL_FIGHTER_CB and its siblings
  hooks,       \* per list: hooks placed in the "common" now loaded
  overlap,     \* history: a first registration and the last load of "common" overlap
  adding,      \* per plugin: the list it is adding to, and how far it is
  added,       \* registrations made (by the development plugin: since its load)
  game,        \* the list the game runs, the callbacks to go and the current one
  phase        \* of the development plugin: lists it has yet to purge

vars == <<gen, mapped, common, commonGen, commonInfo, lists, once, should, hooks,
          overlap, adding, added, game, phase>>
pluginVars == <<gen, mapped>>
commonVars == <<common, commonGen, commonInfo>>
hookVars   == <<once, should, hooks, overlap>>
addVars    == <<adding, added>>

NotAdding == [list |-> Null, stage |-> "none"]
Idle      == [list |-> Null, todo |-> {}, now |-> Null]
Away      == Len(PurgeOrder) + 2   \* phase: unloaded; 0: running; i: i-1 lists purged

Init ==
  /\ gen = [p \in Plugin |-> IF p = Dev THEN 0 ELSE 1]
  /\ mapped = Plugin \ {Dev}
  /\ common = "absent" /\ commonGen = 0 /\ commonInfo = FALSE
  /\ lists = [l \in List |-> {}]
  /\ once = [l \in Lazy |-> "new"] /\ should = [l \in Lazy |-> FALSE]
  /\ hooks = [l \in List |-> 0] /\ overlap = FALSE
  /\ adding = [p \in Plugin |-> NotAdding] /\ added = {}
  /\ game = Idle /\ phase = Away

Free(l)       == game.list # l
IsMapped(c)   == c[1] \in mapped /\ c[2] = gen[c[1]]
Swapped(p)    == <<gen[p], p>>   \* mutant: fields in the wrong order
Instance(p)   == <<p, gen[p]>>

-----------------------------------------------------------------------------
(* The "common" module.                                                    *)

\* callbacks::install: the hooks of the eager lists, and the flagged ones.
AllHooks     == [l \in List |-> IF l \in Lazy THEN 0 ELSE 1]   \* mutant: the flags are not looked at
WantedHooks  == [l \in List |-> IF l \in Lazy /\ ~should[l] THEN 0 ELSE 1]

LoadCommon ==
  /\ common = "absent" /\ commonGen < MaxGen /\ game = Idle
  /\ common' = "loading" /\ commonGen' = commonGen + 1
  /\ hooks' = WantedHooks
  /\ overlap' = (\E l \in Lazy : once[l] = "running")
  /\ UNCHANGED <<pluginVars, commonInfo, lists, once, should, addVars, game, phase>>

\* The end of lib.rs nro_load.
SetCommonInfo ==
  /\ common = "loading"
  /\ common' = "loaded" /\ commonInfo' = TRUE
  /\ UNCHANGED <<pluginVars, commonGen, lists, hookVars, addVars, game, phase>>

\* The hooks go with the module; COMMON_MEMORY_INFO is not told.
UnloadCommon ==
  /\ common = "loaded" /\ game = Idle
  /\ common' = "absent" /\ hooks' = [l \in List |-> 0]
  /\ UNCHANGED <<pluginVars, commonGen, commonInfo, lists, once, should,
                 overlap, addVars, game, phase>>

-----------------------------------------------------------------------------
(* Registration: add_*_callback.                                           *)

MayAdd(p) == p \in mapped /\ (p = Dev => phase = 0)

\* call_once: the flag first.  A second caller waits until the first is through.
BeginOnce(p, l) ==
  /\ MayAdd(p) /\ adding[p] = NotAdding /\ <<p, l>> \notin added
  /\ l \in Lazy /\ once[l] = "new"
  /\ once' = [once EXCEPT ![l] = "running"]
  /\ should' = [should EXCEPT ![l] = TRUE]
  /\ adding' = [adding EXCEPT ![p] = [list |-> l, stage |-> "once"]]
  /\ overlap' = (overlap \/ common = "loading")
  /\ UNCHANGED <<pluginVars, commonVars, lists, hooks, added, game, phase>>

\* then the hook, if "common" has been seen; it is lost if "common" is gone.
HooksAfterOnce(l) == IF commonInfo /\ common # "absent" THEN hooks[l] + 1 ELSE hooks[l]
EndOnce(p) ==
  /\ adding[p].stage = "once"
  /\ LET l == adding[p].list
     IN /\ once' = [once EXCEPT ![l] = "done"]
        /\ hooks' = [hooks EXCEPT ![l] = HooksAfterOnce(l)]
        /\ adding' = [adding EXCEPT ![p].stage = "push"]
  /\ UNCHANGED <<pluginVars, commonVars, lists, should, overlap, added, game, phase>>

BeginPush(p, l) ==
  /\ MayAdd(p) /\ adding[p] = NotAdding /\ <<p, l>> \notin added
  /\ l \in Lazy => once[l] = "done"
  /\ adding' = [adding EXCEPT ![p] = [list |-> l, stage |-> "push"]]
  /\ UNCHANGED <<pluginVars, commonVars, lists, hookVars, added, game, phase>>

Push(p) ==
  /\ adding[p].stage = "push" /\ Free(adding[p].list)
  /\ lists' = [lists EXCEPT ![adding[p].list] = @ \cup {Instance(p)}]
  /\ added' = added \cup {<<p, adding[p].list>>}
  /\ adding' = [adding EXCEPT ![p] = NotAdding]
  /\ UNCHANGED <<pluginVars, commonVars, hookVars, game, phase>>

-----------------------------------------------------------------------------
(* The game's thread.                                                      *)

\* A hooked function runs: the list is locked until all callbacks returned.
RunList(l) ==
  /\ game = Idle /\ common = "loaded" /\ hooks[l] > 0
  /\ game' = [list |-> l, todo |-> lists[l], now |-> Null]
  /\ UNCHANGED <<pluginVars, commonVars, lists, hookVars, addVars, phase>>

NotAdvanced(c) == game.todo   \* mutant: the same callback over and over
Advanced(c)    == game.todo \ {c}
CallNext ==
  /\ game.list # Null
  /\ \E c \in game.todo : game' = [game EXCEPT !.now = c, !.todo = Advanced(c)]
  /\ UNCHANGED <<pluginVars, commonVars, lists, hookVars, addVars, phase>>

EndRun ==
  /\ game.list # Null /\ game.todo = {}
  /\ game' = Idle
  /\ UNCHANGED <<pluginVars, commonVars, lists, hookVars, addVars, phase>>

-----------------------------------------------------------------------------
(* The loader.                                                             *)

LoadDev ==
  /\ phase = Away /\ gen[Dev] < MaxGen
  /\ gen' = [gen EXCEPT ![Dev] = @ + 1] /\ mapped' = mapped \cup {Dev}
  /\ phase' = 0
  /\ UNCHANGED <<commonVars, lists, hookVars, addVars, game>>

BeginUninstall ==
  /\ phase = 0 /\ adding[Dev] = NotAdding
  /\ phase' = 1
  /\ UNCHANGED <<pluginVars, commonVars, lists, hookVars, addVars, game>>

\* remove_fighter_resets and its siblings, each with its list locked.
Unlocked(l) == l \in List   \* mutant: the list is purged while the game runs it
MayPurge(l) == Free(l)
CurrentKept(list) == {c \in list : c[1] # Dev \/ c[2] = gen[Dev]}   \* mutant: off by one reload
Purged(list)      == {c \in list : c[1] # Dev}
PurgeList ==
  /\ phase \in DOMAIN PurgeOrder /\ MayPurge(PurgeOrder[phase])
  /\ lists' = [lists EXCEPT ![PurgeOrder[phase]] = Purged(@)]
  /\ phase' = phase + 1
  /\ UNCHANGED <<pluginVars, commonVars, hookVars, addVars, game>>

UnloadDev ==
  /\ phase = Len(PurgeOrder) + 1
  /\ mapped' = mapped \ {Dev} /\ phase' = Away
  /\ added' = {a \in added : a[1] # Dev}
  /\ UNCHANGED <<gen, commonVars, lists, hookVars, adding, game>>

-----------------------------------------------------------------------------
Next ==
  \/ LoadCommon \/ SetCommonInfo \/ UnloadCommon
  \/ \E p \in Plugin, l \in List : BeginOnce(p, l) \/ BeginPush(p, l)
  \/ \E p \in Plugin : EndOnce(p) \/ Push(p)
  \/ \E l \in List : RunList(l)
  \/ CallNext \/ EndRun
  \/ LoadDev \/ BeginUninstall \/ PurgeList \/ UnloadDev

Spec == Init /\ [][Next]_vars

\* Threads keep running, callbacks return, and a thread that waits for a list
\* gets it in the end even if the game keeps taking it: parking_lot's mutexes
\* are eventually fair.
Fairness ==
  /\ WF_vars(SetCommonInfo) /\ WF_vars(CallNext) /\ WF_vars(EndRun)
  /\ \A p \in Plugin : WF_vars(EndOnce(p)) /\ SF_vars(Push(p))
  /\ SF_vars(PurgeList) /\ WF_vars(UnloadDev)
FairSpec == Spec /\ Fairness

-----------------------------------------------------------------------------
(* Properties.                                                             *)

\* Every variable keeps its type.
TypeOK ==
  /\ gen \in [Plugin -> 0..MaxGen] /\ mapped \subseteq Plugin
  /\ common \in {"absent", "loading", "loaded"} /\ commonGen \in 0..MaxGen
  /\ commonInfo \in BOOLEAN /\ overlap \in BOOLEAN
  /\ lists \in [List -> SUBSET Callback]
  /\ once \in [Lazy -> {"new", "running", "done"}] /\ should \in [Lazy -> BOOLEAN]
  /\ hooks \in [List -> Nat]
  /\ adding \in [Plugin -> [list : List \cup {Null}, stage : {"none", "once", "push"}]]
  /\ added \subseteq (Plugin \X List)
  /\ game \in [list : List \cup {Null}, todo : SUBSET Callback,
               now : Callback \cup {Null}]
  /\ phase \in 0..Away

\* The callback the game is in, and those it has yet to call in this run, are
\* mapped code: the development plugin cannot leave under the game's feet,
\* because the purge waits for the lock that the run holds.
CallsMapped ==
  /\ game.now # Null => IsMapped(game.now)
  /\ \A c \in game.todo : IsMapped(c)

\* No list keeps a callback of an unloaded plugin, and none is lost: a list is
\* what was added to it by the plugins still there.
HasPurged(l) == \E i \in DOMAIN PurgeOrder : PurgeOrder[i] = l /\ i < phase
Members(l) ==
  {p \in mapped : <<p, l>> \in added /\ ~(p = Dev /\ HasPurged(l))}
ListsExact == \A l \in List : lists[l] = {Instance(p) : p \in Members(l)}

\* Unless its load overlapped a first registration, "common" has, once loaded,
\* exactly one hook for every list in use: none is forgotten, though the list
\* was first used in an earlier load, between two or before any, and none is
\* placed twice (a function hooked twice runs its list twice).
HookedOnce == common = "loaded" /\ ~overlap =>
  \A l \in List :
    /\ hooks[l] <= 1
    /\ hooks[l] = 1 \/ lists[l] = {} \/ (l \in Lazy /\ once[l] = "running")

\* An uninstallation that has begun ends, though the game keeps running lists.
UninstallEnds == (phase \in 1..Away - 1) ~> (phase = Away)
=============================================================================
