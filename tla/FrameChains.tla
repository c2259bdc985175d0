----------------------------- MODULE FrameChains -----------------------------
(***************************************************************************)
(* FrameChains: the frame replacements of callbacks.rs, on top of the      *)
(* symbol hooks: the function that an agent runs every frame is chosen     *)
(* when the agent is initialised, starting from what the loader resolves   *)
(* the game's own function to.                                             *)
(*                                                                         *)
(* FIGHTER_FRAMES, WEAPON_FRAMES and AGENT_FRAMES_MAIN only grow: nothing  *)
(* purges them when the development plugin leaves.                         *)
(***************************************************************************)
EXTENDS SymbolHooks

CONSTANTS
  CommonModule,   \* the module of the functions replaced, "common"
  FrameList,      \* "fighter", "weapon" and "main"
  Control,        \* per list: the name of the function it replaces
  FramePiece,     \* the pieces that replace a frame function
  Frame,          \* per frame piece: [list, kind, isFighter]
  Agent,
  Kind, Category  \* per agent: its kind; "fighter" or "weapon"

ASSUME FramesAssumption ==
  /\ CommonModule \in Module \ StaticModule
  /\ FramePiece \subseteq Piece \ SymbolPiece
  /\ \A x \in FramePiece :
       /\ Frame[x].list \in FrameList /\ Frame[x].isFighter \in BOOLEAN
       /\ Frame[x].list # "main" => Frame[x].isFighter = (Frame[x].list = "fighter")
  /\ \A a \in Agent : Category[a] \in {"fighter", "weapon"}
  /\ \A l \in FrameList : IndexOf(CommonModule, Control[l]) # {}

VARIABLES
  frames,   \* the lists
  control,  \* per agent and list: the address installed, or Null
  seen      \* history: how long the list was then

vars == <<hookVars, frames, control, seen>>
frameVars == <<frames, control, seen>>

NoAgents == [a \in Agent |-> [l \in FrameList |-> Null]]

Init ==
  /\ HooksInit
  /\ frames = [l \in FrameList |-> <<>>]
  /\ control = NoAgents /\ seen = [a \in Agent |-> [l \in FrameList |-> 0]]

\* replace_fighter_frame, replace_weapon_frame, replace_agent_frame_main.
ReplaceFrame(p, x) ==
  /\ MayUse(p, x) /\ x \in FramePiece
  /\ frames' = [frames EXCEPT ![Frame[x].list] = Append(@, NewEntry(p, x))]
  /\ Register(p, x)
  /\ UNCHANGED <<where, loads, value, orig, hooks, patched, state, control, seen>>

\* Kinds of fighters and of weapons are numbered from zero alike.
OfKind(e, a)  == Frame[e.piece].kind = Kind[a]   \* mutant: the category is not looked at
Matches(e, a) ==
  /\ Frame[e.piece].kind = Kind[a]
  /\ Frame[e.piece].list = "main" => Frame[e.piece].isFighter = (Category[a] = "fighter")

\* The lists that an agent's two init functions go through.
ListsOf(a) == {Category[a], "main"} \cap FrameList

\* nn::ro::LookupSymbol
Relative(m, name)     == value[m][CHOOSE i \in IndexOf(m, name) : TRUE]   \* mutant: no base
LookupSymbol(m, name) == Resolved(m, CHOOSE i \in IndexOf(m, name) : TRUE)

IsCode(address) ==
  \/ PieceAt(address) # {}
  \/ \E m \in Module : address \in {Base(m) + i : i \in {j \in Symbols(m) : where[m] # Null}}

\* sys_line_system_fighter_init_replace and its siblings: every matching entry
\* takes the function so far as its original; the last one is installed and
\* called.
Chained(im, e, a) ==
  IF im.state # "running" \/ ~Matches(e, a) THEN im
  ELSE [WriteOriginal(im, e, im.control) EXCEPT !.control = Address(e)]
Chaining(a, l) ==
  LET after[j \in 0..Len(frames[l])] ==
        IF j = 0 THEN [control |-> LookupSymbol(CommonModule, Control[l]),
                       orig |-> orig, state |-> "running"]
        ELSE Chained(after[j - 1], frames[l][j], a)
  IN after
SysLineInit(a, l) ==
  /\ state = "running" /\ where[CommonModule] # Null /\ l \in ListsOf(a)
  /\ control[a][l] = Null
  /\ LET im == Chaining(a, l)[Len(frames[l])]
     IN /\ control' = [control EXCEPT ![a][l] = im.control]
        /\ orig' = im.orig
        /\ state' = IF im.state = "running" /\ ~IsCode(im.control) THEN "faulted" ELSE im.state
  /\ seen' = [seen EXCEPT ![a][l] = Len(frames[l])]
  /\ UNCHANGED <<where, loads, value, hooks, used, patched, frames>>

AgentGone(a) ==
  /\ \E l \in FrameList : control[a][l] # Null
  /\ control' = [control EXCEPT ![a] = NoAgents[a]]
  /\ seen' = [seen EXCEPT ![a] = [l \in FrameList |-> 0]]
  /\ UNCHANGED <<hookVars, frames>>

\* Agents run code of the modules; they are gone before one is unloaded.
Modules ==
  \/ \E m \in Module, k \in Slot : LoadModule(m, k) /\ UNCHANGED frameVars
  \/ \E m \in Module : UnloadModule(m) /\ control = NoAgents /\ UNCHANGED frameVars
Plugins ==
  \E p \in Plugin, x \in Piece :
    \/ ReplaceSymbol(p, x) /\ UNCHANGED frameVars
    \/ StaticSymbol(p, x) /\ UNCHANGED frameVars
    \/ ReplaceFrame(p, x)
Loader ==
  \/ \E k \in Slot : LoadDev(k) /\ UNCHANGED frameVars
  \/ UnloadDev /\ UNCHANGED frameVars
Agents == \E a \in Agent : AgentGone(a) \/ \E l \in FrameList : SysLineInit(a, l)

Next == Modules \/ Plugins \/ Loader \/ Agents
Spec == Init /\ [][Next]_vars

-----------------------------------------------------------------------------
(* Properties.                                                             *)

\* Every variable keeps its type.
TypeOK ==
  /\ HooksTypeOK
  /\ \A l \in FrameList : Range(frames[l]) \subseteq Entry
  /\ control \in [Agent -> [FrameList -> 0..W - 1 \cup {Null}]]
  /\ seen \in [Agent -> [FrameList -> Nat]]

MeantFor(e, a) ==   \* what the plugin asked for
  Frame[e.piece].kind = Kind[a] /\ Frame[e.piece].isFighter = (Category[a] = "fighter")

\* What a live agent runs every frame goes through exactly the replacements for
\* its kind and category that were registered before it was initialised, the
\* newest first, and then to the game's function as the loader resolves it:
\* though the originals are shared by all agents, and whoever registers or is
\* initialised later.  Unless a development plugin with one of them has left.
AgentChains ==
  state = "running" /\ ~StaticStale =>
    \A a \in Agent : \A l \in ListsOf(a) : control[a][l] # Null =>
      LET meant == {j \in DOMAIN frames[l] : MeantFor(frames[l][j], a)}
      IN \/ StaleIn(frames[l], meant)
         \/ Calls(control[a][l], frames[l], {j \in meant : j <= seen[a][l]},
                  LookupSymbol(CommonModule, Control[l]))

\* Nothing is written to or called in unmapped memory before a development
\* plugin has left entries behind.
FaultsOnlyByStale ==
  state = "faulted" =>
    \/ \E m \in Module : AnyStale(hooks[m]) \/ AnyStale(patched[m])
    \/ \E l \in FrameList : AnyStale(frames[l])
=============================================================================
