-------------------------------- MODULE Unwind --------------------------------
(***************************************************************************)
(* Unwind: unwind.rs, by which C++ exceptions of the game go through the   *)
(* frames of plugins, which have no unwind information.                    *)
(*                                                                         *)
(* Memory is cut into slots; a slot holds an image, whose first cells are  *)
(* its code (one memory region) and the rest its data.  An address is      *)
(* slot * SlotSize + cell.  A function that wants exceptions to land in it *)
(* holds a marker, and its landing pad is the cell after the marker.       *)
(*                                                                         *)
(* libunwind walks the stack twice: to search the frame with a handler,    *)
(* and again to clean up and land.  Every frame costs a step; each look at *)
(* CUSTOM_EH_MEM is one holding of its mutex, and a step of its own.       *)
(***************************************************************************)
EXTENDS Integers, Sequences, FiniteSets, SequencesExt

CONSTANTS
  Thread,           \* threads of the game that throw
  Image,            \* the game's image and the plugins'
  Game, Resident,   \* the game's image; the plugins that are always there
  Code,             \* per image: [text, functions, markers]
  Home,             \* per image that is always there: its slot
  Slots, SlotSize,  \* the memory
  Reach,            \* the cells that byte_search looks at, 0x2000
  Stacks,           \* stacks a throw finds: frames, the innermost first
  Null

Slot == 0..Slots - 1

ASSUME UnwindAssumption ==
  /\ Game \in Image /\ Resident \subseteq Image \ {Game} /\ Null \notin Image \cup Int
  /\ Slots \in Nat \ {0} /\ SlotSize \in Nat \ {0} /\ Reach \in Nat

\* Functions and markers lie in the text.  A frame is in a function, and the
\* outermost is one of the game that catches everything.
InFunction(b, cell) == \E g \in Code[b].functions : cell \in g.first..g.last
ASSUME CodeAssumption ==
  /\ \A b \in Image : /\ Code[b].text \in 1..SlotSize
                      /\ Code[b].markers \subseteq 0..Code[b].text - 1
                      /\ \A g \in Code[b].functions :
                           g.first \in 0..Code[b].text - 1 /\ g.last \in 0..Code[b].text - 1
  /\ Stacks \subseteq Seq([image : Image, cell : 0..SlotSize - 1, catches : BOOLEAN])
  /\ \A s \in Stacks : /\ Len(s) > 0 /\ Last(s).image = Game /\ Last(s).catches
                       /\ \A i \in DOMAIN s : InFunction(s[i].image, s[i].cell)

VARIABLES
  image,        \* per slot: the image mapped, or Null
  customEhMem,  \* CUSTOM_EH_MEM: memory regions, in no order that matters
  unwinding,    \* per thread: its last unwinding
  state         \* of the process: "running", "aborted" or "faulted"

unwindVars == <<image, customEhMem, unwinding, state>>

SlotOf(address) == address \div SlotSize
Cell(address)   == address % SlotSize
Mapped(address) == SlotOf(address) \in Slot /\ image[SlotOf(address)] # Null
SlotsOf(b)      == {k \in Slot : image[k] = b}

\* svc::query_memory, in code that is mapped: the region of that code.
QueryMemory(address) ==
  LET k == SlotOf(address)
  IN [base |-> k * SlotSize, end |-> k * SlotSize + Code[image[k]].text]

Idle == [pc |-> "idle", phase |-> 1, frames |-> <<>>, at |-> 0, found |-> 0, pad |-> 0,
         disturbed |-> FALSE]

UnwindInit ==
  /\ image = [k \in Slot |-> IF \E b \in Resident \cup {Game} : Home[b] = k
                             THEN CHOOSE b \in Resident \cup {Game} : Home[b] = k ELSE Null]
  /\ customEhMem = {} /\ unwinding = [t \in Thread |-> Idle] /\ state = "running"

-----------------------------------------------------------------------------
(* CUSTOM_EH_MEM.                                                          *)

IsCustomEhMem(ip) == \E m \in customEhMem : m.base <= ip /\ ip < m.end

\* History: an unwinding is disturbed when what lies at one of its frames changes.
Disturbed(k) ==
  [t \in Thread |-> IF \E f \in Range(unwinding[t].frames) : SlotOf(f.address) = k
                    THEN [unwinding[t] EXCEPT !.disturbed = TRUE] ELSE unwinding[t]]

RegisterSkylinePlugin(address) ==
  LET mem == QueryMemory(address)
  IN IF \E m \in customEhMem : m.base = mem.base THEN UNCHANGED <<customEhMem, unwinding>>
     ELSE customEhMem' = customEhMem \cup {mem} /\ unwinding' = Disturbed(SlotOf(address))

AllRemoved(base)   == {}   \* mutant: the list is cleared
Unregistered(base) == {m \in customEhMem : m.base # base}
UnregisterSkylinePlugin(base) ==
  customEhMem' = Unregistered(base) /\ unwinding' = Disturbed(SlotOf(base))

\* replace_acmd_script registers the plugin whose function it is given: at any
\* time while the plugin is there.
PluginRegisters(k) ==
  /\ state = "running" /\ image[k] \notin {Game, Null}
  /\ RegisterSkylinePlugin(k * SlotSize)
  /\ UNCHANGED <<image, state>>

-----------------------------------------------------------------------------
(* Unwinding.                                                              *)

InPlugin(f)   == image[SlotOf(f.address)] # Game
Registered(f) == QueryMemory(f.address) \in customEhMem

\* A throw, with the stack it finds.
Throw(t) ==
  /\ state = "running" /\ unwinding[t].pc \in {"idle", "landed"}
  /\ \E s \in Stacks :
       /\ \A i \in DOMAIN s : SlotsOf(s[i].image) # {}
       /\ LET frames == [i \in DOMAIN s |->
                          [address |-> (CHOOSE k \in SlotsOf(s[i].image) : TRUE) * SlotSize + s[i].cell,
                           catches |-> s[i].catches]]
          IN unwinding' = [unwinding EXCEPT ![t] =
               [Idle EXCEPT !.pc = "step", !.frames = frames,
                  !.disturbed = \E f \in Range(frames) : InPlugin(f) /\ ~Registered(f)]]
  /\ UNCHANGED <<image, customEhMem, state>>

At(t, pc) == state = "running" /\ unwinding[t].pc = pc
Goes(t, pc) == unwinding' = [unwinding EXCEPT ![t].pc = pc]
Dies(t, how) == Goes(t, "dead") /\ state' = how
Frame(t)  == unwinding[t].frames[unwinding[t].at]

\* step_replace: to the next frame.  In a plugin that is known, the hook goes on
\* to make up its unwind information; other code has the game's, or none at
\* all (setInfoBasedOnIPRegister), which ends the walk and the process.
StepReplace(t) ==
  /\ At(t, "step")
  /\ LET u == unwinding[t]
         f == u.frames[u.at + 1]
         reached(pc) == unwinding' = [unwinding EXCEPT ![t].at = @ + 1, ![t].pc = pc]
     IN \/ IsCustomEhMem(f.address) /\ reached("mark") /\ UNCHANGED state
        \/ /\ ~IsCustomEhMem(f.address) /\ image[SlotOf(f.address)] = Game
           /\ \/ ~f.catches /\ reached("step")
              \/ f.catches /\ u.phase = 1
                 /\ unwinding' = [unwinding EXCEPT ![t].phase = 2, ![t].found = u.at + 1, ![t].at = 0]
              \/ f.catches /\ u.phase = 2 /\ reached("landed")
           /\ UNCHANGED state
        \/ /\ ~IsCustomEhMem(f.address) /\ image[SlotOf(f.address)] # Game
           /\ reached("dead") /\ state' = "aborted"
  /\ UNCHANGED <<image, customEhMem>>

IsMarker(address) == Cell(address) \in Code[image[SlotOf(address)]].markers
FirstOf(S) == CHOOSE x \in S : \A y \in S : x <= y

\* byte_search: the first marker from the address on, whosever it is, unless
\* memory ends before: Null then stands for a fault.
FromBase(start)   ==   \* mutant: from the start of the region
  FirstOf({x \in start - Cell(start)..start + SlotSize : Mapped(x) /\ IsMarker(x)})
ByteSearch(start) ==
  LET cells == start..start + Reach - 1
      stops == {x \in cells : ~Mapped(x) \/ IsMarker(x)}
  IN IF stops = {} THEN -1 ELSE IF ~Mapped(FirstOf(stops)) THEN Null ELSE FirstOf(stops)

\* The rest of step_replace; in the search phase custom_eh_personality answers
\* that a handler was found, without looking.
MakeInfo(t) ==
  /\ At(t, "mark")
  /\ LET u      == unwinding[t]
         pc_end == ByteSearch(Frame(t).address)
     IN IF pc_end = Null THEN Dies(t, "faulted")
        ELSE IF pc_end = -1 THEN Dies(t, "aborted")
        ELSE /\ unwinding' = [unwinding EXCEPT ![t] =
                  IF u.phase = 1
                  THEN [u EXCEPT !.phase = 2, !.found = u.at, !.at = 0, !.pc = "step"]
                  ELSE [u EXCEPT !.pad = pc_end + 1, !.pc = "personality"]]
             /\ UNCHANGED state
  /\ UNCHANGED <<image, customEhMem>>

\* custom_eh_personality in the cleanup phase: two looks, then the landing pad.
CustomEhPersonality(t) ==
  /\ \/ /\ At(t, "personality")
        /\ IF IsCustomEhMem(Frame(t).address) THEN Goes(t, "pad") /\ UNCHANGED state
           ELSE Dies(t, "aborted")
     \/ /\ At(t, "pad")
        /\ IF IsCustomEhMem(unwinding[t].pad) THEN Goes(t, "install") /\ UNCHANGED state
           ELSE Dies(t, "aborted")
     \/ /\ At(t, "install")
        /\ IF Mapped(unwinding[t].pad) THEN Goes(t, "landed") /\ UNCHANGED state
           ELSE Dies(t, "faulted")
  /\ UNCHANGED <<image, customEhMem>>

Unwinds(t) == StepReplace(t) \/ MakeInfo(t) \/ CustomEhPersonality(t)

-----------------------------------------------------------------------------
(* Properties.                                                             *)

\* Every variable keeps its type.
UnwindTypeOK ==
  /\ image \in [Slot -> Image \cup {Null}] /\ state \in {"running", "aborted", "faulted"}
  /\ \A m \in customEhMem : m.base \in Nat /\ m.end \in m.base + 1..m.base + SlotSize
  /\ \A t \in Thread : LET u == unwinding[t] IN
       /\ u.pc \in {"idle", "step", "mark", "personality", "pad", "install", "landed", "dead"}
       /\ u.phase \in 1..2 /\ u.at \in 0..Len(u.frames) /\ u.found \in 0..Len(u.frames)
       /\ u.pad \in 0..Slots * SlotSize /\ u.disturbed \in BOOLEAN

\* Where an exception should land: the innermost frame that catches or is a
\* plugin's, and there past the marker of its own function.
Handler(u) == FirstOf({i \in DOMAIN u.frames : u.frames[i].catches \/ InPlugin(u.frames[i])})
Function(b, cell) == CHOOSE g \in Code[b].functions : cell \in g.first..g.last
PadsOf(b, cell) == {c \in Code[b].markers : c >= cell /\ c < cell + Reach /\ c < Function(b, cell).last}
Pads(f) == {SlotOf(f.address) * SlotSize + c + 1 :
              c \in PadsOf(image[SlotOf(f.address)], Cell(f.address))}
Marked(u) == LET f == u.frames[Handler(u)] IN InPlugin(f) => Pads(f) # {}

\* An exception lands in the innermost frame that catches or is a plugin's, the
\* one the search found, and there in the pad of its own function: unless that
\* function has no marker, or a plugin with a frame on the stack was not
\* registered all along.  Whatever is registered, reloaded or thrown meanwhile.
LandsInHandler ==
  \A t \in Thread :
    LET u == unwinding[t]
    IN u.pc = "landed" /\ ~u.disturbed /\ Marked(u) =>
         /\ u.at = Handler(u) /\ u.found = Handler(u)
         /\ InPlugin(Frame(t)) => u.pad = FirstOf(Pads(Frame(t)))

\* The process dies of an unwinding only in those two cases.
DiesOnlyIfDisturbed ==
  \A t \in Thread :
    unwinding[t].pc = "dead" => unwinding[t].disturbed \/ ~Marked(unwinding[t])
=============================================================================
