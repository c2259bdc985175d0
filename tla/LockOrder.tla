------------------------------ MODULE LockOrder ------------------------------
(***************************************************************************)
(* LockOrder: every mutex of the repository and the order in which each    *)
(* handler and each exported function takes and drops them.                *)
(*                                                                         *)
(* A handler is the sequence of its lock, unlock and call steps; what it   *)
(* does in between is the subject of the other modules.  Within(l, body)   *)
(* is a block that holds l while body runs.  A "call" hands control to a   *)
(* plugin, which may call one function of smashline and return.            *)
(* parking_lot's mutexes are not reentrant: a thread that locks what it    *)
(* holds waits for itself.                                                 *)
(***************************************************************************)
EXTENDS Naturals, Sequences, SequencesExt

CONSTANTS
  Categories,   \* sequence of the ACMD categories
  Lists,        \* sequence of the callback lists, in the order they are purged
  GameThread,   \* threads that run the game's functions, hooked ones included
  InputThread,  \* threads that watch the controllers and reload
  PluginThread, \* threads that plugins start themselves
  Nobody

Category == Range(Categories)
List     == Range(Lists)
Thread   == GameThread \cup InputThread \cup PluginThread

ASSUME LockAssumption ==
  /\ Categories \in Seq(Category) /\ IsInjective(Categories) /\ Categories # <<>>
  /\ Lists \in Seq(List) /\ IsInjective(Lists)
  /\ Nobody \notin Thread

SCRIPTS(c)          == <<"SCRIPTS", c>>          \* GAME_SCRIPTS and its siblings
CREATE_AGENTS(c, s) == <<"CREATE_AGENTS", c, s>> \* s: "own" or "share"
CALLBACKS(l)        == <<"CALLBACKS", l>>        \* FIGHTER_RESETS and its siblings
STATUS_SCRIPTS            == <<"STATUS_SCRIPTS">>
COMMON_STATUS_SCRIPTS     == <<"COMMON_STATUS_SCRIPTS">>
STATUS_CUSTOMIZERS        == <<"STATUS_CUSTOMIZERS">>
LOADED_ACMD_AGENTS        == <<"LOADED_ACMD_AGENTS">>
LOADED_STATUS_AGENTS      == <<"LOADED_STATUS_AGENTS">>
STATUS_CREATE_AGENTS      == <<"STATUS_CREATE_AGENTS">>
STATUS_VTABLES            == <<"STATUS_VTABLES">>
FRAMES                    == <<"FRAMES">>
SYMBOL_HOOKS              == <<"SYMBOL_HOOKS">>
CUSTOM_EH_MEM             == <<"CUSTOM_EH_MEM">>
LOADED_DEVELOPMENT_PLUGIN == <<"LOADED_DEVELOPMENT_PLUGIN">>

AcmdMutex   == {SCRIPTS(c) : c \in Category}
               \cup {CREATE_AGENTS(c, s) : c \in Category, s \in {"own", "share"}}
StatusMutex == {STATUS_SCRIPTS, COMMON_STATUS_SCRIPTS, STATUS_CUSTOMIZERS}
ListMutex   == {CALLBACKS(l) : l \in List}
Mutex ==
  AcmdMutex \cup StatusMutex \cup ListMutex
  \cup {LOADED_ACMD_AGENTS, LOADED_STATUS_AGENTS, STATUS_CREATE_AGENTS, STATUS_VTABLES,
        FRAMES, SYMBOL_HOOKS, CUSTOM_EH_MEM, LOADED_DEVELOPMENT_PLUGIN}

VARIABLES
  rest,   \* per thread: the steps it has yet to take, <<>> when it is idle
  holder  \* per mutex: the thread that holds it, or Nobody
vars == <<rest, holder>>

-----------------------------------------------------------------------------
(* Steps and blocks.                                                       *)

Lock(l)   == <<"lock", l>>
Unlock(l) == <<"unlock", l>>
PluginCode == <<"call", <<>>>>
LockStep   == {"lock", "unlock"} \X Mutex \cup {PluginCode}

Within(l, body) == <<Lock(l)>> \o body \o <<Unlock(l)>>
Briefly(l)      == Within(l, <<>>)
Odd(i)          == i % 2 = 1
EachBriefly(ls) ==   \* one after another
  [i \in 1..2 * Len(ls) |-> IF Odd(i) THEN Lock(ls[(i + 1) \div 2]) ELSE Unlock(ls[i \div 2])]
LockAll(ls)       == [i \in DOMAIN ls |-> Lock(ls[i])]
UnlockAll(ls)     == [i \in DOMAIN ls |-> Unlock(ls[i])]
AllHeld(ls, body) == LockAll(ls) \o body \o UnlockAll(ls)

AllScripts      == [i \in DOMAIN Categories |-> SCRIPTS(Categories[i])]
AllCallbacks    == [i \in DOMAIN Lists |-> CALLBACKS(Lists[i])]
AllCreateAgents ==
  [i \in 1..2 * Len(Categories) |->
     CREATE_AGENTS(Categories[(i + 1) \div 2], IF Odd(i) THEN "own" ELSE "share")]

-----------------------------------------------------------------------------
(* What plugins call.                                                      *)

\* acmd.rs: three locks, never two at once.
ReplacedInOneGo(c) ==   \* mutant: the registry is locked before the agents, as status.rs does
  Briefly(CUSTOM_EH_MEM) \o Within(SCRIPTS(c), Briefly(LOADED_ACMD_AGENTS))
ReplacedByName(c) == Briefly(CUSTOM_EH_MEM) \o Briefly(SCRIPTS("common"))   \* mutant: no such registry
ReplaceAcmdScript(c) ==
  Briefly(CUSTOM_EH_MEM) \o Briefly(LOADED_ACMD_AGENTS) \o Briefly(SCRIPTS(c))

ReplaceStatusScript       == Within(STATUS_SCRIPTS, Briefly(LOADED_STATUS_AGENTS))
ReplaceCommonStatusScript == Within(COMMON_STATUS_SCRIPTS, Briefly(LOADED_STATUS_AGENTS))
ReplaceMoveCustomizer     == Within(STATUS_CUSTOMIZERS, Briefly(LOADED_STATUS_AGENTS))
AddCallback(l)            == Briefly(CALLBACKS(l))
LeakedGuard               == <<Lock(FRAMES)>>   \* mutant: the guard is never dropped
ReplaceFrame              == Briefly(FRAMES)
ReplaceSymbol             == Briefly(SYMBOL_HOOKS)

Exported ==
  {ReplaceAcmdScript(c) : c \in Category} \cup {AddCallback(l) : l \in List}
  \cup {ReplaceStatusScript, ReplaceCommonStatusScript, ReplaceMoveCustomizer,
        ReplaceFrame, ReplaceSymbol}

-----------------------------------------------------------------------------
(* What the game calls.                                                    *)

\* The list of create functions is held throughout.
CreateAcmdAgent(c, s) ==
  Within(CREATE_AGENTS(c, s), Briefly(LOADED_ACMD_AGENTS) \o Briefly(SCRIPTS(c)))
CreateStatusAgent ==
  Within(STATUS_CREATE_AGENTS, Within(STATUS_VTABLES, Briefly(LOADED_STATUS_AGENTS)))
NotDropped        == Within(STATUS_SCRIPTS, Briefly(STATUS_CUSTOMIZERS))   \* mutant: no drop(scripts)
SetStatusScripts  == Briefly(STATUS_SCRIPTS) \o Briefly(STATUS_CUSTOMIZERS)
SetCommonTable    == Briefly(COMMON_STATUS_SCRIPTS)

RunCallbacks(l)   == Within(CALLBACKS(l), <<PluginCode>>)
BuildFrameChain   == Briefly(FRAMES)

LoadCommon  == Briefly(SYMBOL_HOOKS) \o Within(STATUS_SCRIPTS, Briefly(COMMON_STATUS_SCRIPTS))
LoadFighter ==
  Briefly(SYMBOL_HOOKS) \o EachBriefly(AllCreateAgents) \o Briefly(STATUS_CREATE_AGENTS)

\* clear_loaded_agent holds every list, and both lists of agents for each hash.
ForgetAgents == Within(LOADED_ACMD_AGENTS, Briefly(LOADED_STATUS_AGENTS))
Unload ==
  AllHeld(AllCreateAgents, ForgetAgents) \o Briefly(SYMBOL_HOOKS) \o Briefly(STATUS_VTABLES)

GameFunction ==
  {CreateAcmdAgent(c, s) : c \in Category, s \in {"own", "share"}}
  \cup {RunCallbacks(l) : l \in List}
  \cup {CreateStatusAgent, SetStatusScripts, SetCommonTable, BuildFrameChain,
        LoadCommon, LoadFighter, Unload}

-----------------------------------------------------------------------------
(* What the loader does.                                                   *)

PurgeCallbacks == EachBriefly(AllCallbacks)
RemoveAcmdScripts ==
  Within(LOADED_ACMD_AGENTS, EachBriefly(AllScripts)) \o AllHeld(AllScripts, <<>>)
RemoveLiveStatusScripts ==
  Within(LOADED_STATUS_AGENTS, Within(STATUS_SCRIPTS, Briefly(COMMON_STATUS_SCRIPTS)))
RemoveLiveStatusWaza == Within(LOADED_STATUS_AGENTS, Briefly(STATUS_CUSTOMIZERS))
RemoveStatusScripts ==
  RemoveLiveStatusScripts \o RemoveLiveStatusWaza
  \o Within(STATUS_SCRIPTS, Briefly(COMMON_STATUS_SCRIPTS))

Uninstall ==
  <<PluginCode>> \o PurgeCallbacks \o RemoveAcmdScripts \o RemoveStatusScripts
  \o Briefly(CUSTOM_EH_MEM)

\* load_development_plugin, the first time and later.
FirstLoad == Within(LOADED_DEVELOPMENT_PLUGIN, <<PluginCode>>)
Reload    == Within(LOADED_DEVELOPMENT_PLUGIN, Uninstall \o <<PluginCode>>)
Loading   == {FirstLoad, Reload}

-----------------------------------------------------------------------------
(* Threads.                                                                *)

Init == /\ rest = [t \in Thread |-> <<>>]
        /\ holder = [l \in Mutex |-> Nobody]

Busy(t)  == rest[t] # <<>>
Next1(t) == Head(rest[t])
Waits(t) == Busy(t) /\ Next1(t)[1] = "lock"

Work(t) ==
  {f \in GameFunction : t \in GameThread} \cup {f \in Loading : t \in InputThread}
  \cup {f \in Exported : t \in PluginThread}

Begin(t) ==
  /\ ~Busy(t)
  /\ \E f \in Work(t) : rest' = [rest EXCEPT ![t] = f]
  /\ UNCHANGED holder

Acquire(t) ==
  /\ Waits(t) /\ holder[Next1(t)[2]] = Nobody
  /\ holder' = [holder EXCEPT ![Next1(t)[2]] = t]
  /\ rest' = [rest EXCEPT ![t] = Tail(@)]

Release(t) ==
  /\ Busy(t) /\ Next1(t)[1] = "unlock"
  /\ holder' = [holder EXCEPT ![Next1(t)[2]] = Nobody]
  /\ rest' = [rest EXCEPT ![t] = Tail(@)]

\* A plugin's function may register, and may read the controllers, which runs
\* hid_hook and, with the buttons held, reloads.
Callable == Exported \cup Loading \cup {<<>>}
EnterPlugin(t) ==
  /\ Busy(t) /\ Next1(t)[1] = "call"
  /\ \E f \in Callable : rest' = [rest EXCEPT ![t] = f \o Tail(@)]
  /\ UNCHANGED holder

Step(t) == Begin(t) \/ Acquire(t) \/ Release(t) \/ EnterPlugin(t)
Next == \E t \in Thread : Step(t)

Spec == Init /\ [][Next]_vars

\* Threads keep running, a plugin's functions return, and a thread that waits
\* for a mutex gets it in the end if it keeps becoming free: parking_lot's
\* mutexes are eventually fair.  No thread has to begin anything.
Fairness ==
  \A t \in Thread : WF_vars(Release(t)) /\ WF_vars(EnterPlugin(t)) /\ SF_vars(Acquire(t))
FairSpec == Spec /\ Fairness

-----------------------------------------------------------------------------
(* Properties.                                                             *)

Held(t)   == {l \in Mutex : holder[l] = t}
Wanted(t) == Next1(t)[2]

\* Threads that wait for each other, each for a mutex of the next.
Circle(S) ==
  /\ S # {} /\ \A t \in S : Waits(t)
  /\ {holder[Wanted(t)] : t \in S} = S

\* Every variable keeps its type.
TypeOK ==
  /\ rest \in [Thread -> Seq(LockStep)]
  /\ holder \in [Mutex -> Thread \cup {Nobody}]

\* No threads wait for each other except where the code takes two mutexes in
\* both orders: the uninstallation puts live status agents back with their list
\* locked before the scripts (scripts.rs:470-483), a request locks the scripts
\* first; and a function that the game runs with its list locked registers into
\* a list or reloads the development plugin (callbacks.rs:184), or the
\* development plugin's own code reloads it (loader.rs:181).
AgentsAgainstRequest(S) ==
  /\ \E t \in S : LOADED_STATUS_AGENTS \in Held(t) /\ Wanted(t) \in StatusMutex
  /\ \E u \in S : Held(u) \cap StatusMutex # {} /\ Wanted(u) = LOADED_STATUS_AGENTS
FromPluginCode(S) ==
  \E t \in S :
    \/ Held(t) \cap ListMutex # {} /\ Wanted(t) \in ListMutex \cup {LOADED_DEVELOPMENT_PLUGIN}
    \/ LOADED_DEVELOPMENT_PLUGIN \in Held(t) /\ Wanted(t) = LOADED_DEVELOPMENT_PLUGIN
OnlyKnownCircles ==
  \A S \in SUBSET Thread : Circle(S) => AgentsAgainstRequest(S) \/ FromPluginCode(S)

\* Of the game's own handlers only the load of "common" takes part in a circle,
\* between the loader and a request for a common script: otherwise a game thread
\* is in one only while it runs a plugin's callback with the list locked.
HandlersInNoCircle ==
  \A S \in SUBSET Thread : Circle(S) =>
    \A t \in S \cap GameThread :
      \/ Held(t) \cap ListMutex # {}
      \/ Held(t) = {STATUS_SCRIPTS} /\ Wanted(t) = COMMON_STATUS_SCRIPTS

\* Whatever a thread has begun it ends, unless some threads wait for each other:
\* no mutex is left locked on any path, and waiting for the loader, which holds
\* LOADED_DEVELOPMENT_PLUGIN over a whole reload, ends as well.
EveryCallReturns ==
  \A t \in Thread : Busy(t) ~> (~Busy(t) \/ \E S \in SUBSET Thread : Circle(S))
=============================================================================
