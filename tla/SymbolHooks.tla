----------------------------- MODULE SymbolHooks -----------------------------
(***************************************************************************)
(* SymbolHooks: hooks.rs, the functions plugins put in place of symbols    *)
(* of the game's modules.                                                  *)
(*                                                                         *)
(* Memory is cut into slots, each holding the image of one module or       *)
(* plugin.  An address is a number below W: slot * SlotSize + offset.  A   *)
(* symbol's st_value is relative to its module, modulo W, because the      *)
(* replacement may lie below the module.  A plugin's image holds, for each *)
(* of its pieces (replacement functions), the function at Offset and the   *)
(* static that its "original" points to; an entry of a registry keeps both *)
(* as addresses, that is, as piece and slot, whatever lies there later.    *)
(***************************************************************************)
EXTENDS Rtld, FiniteSets, SequencesExt

CONSTANTS
  Module, StaticModule,  \* the game's modules; those that are always loaded
  Plugin, Dev,           \* plugins; the development plugin, the only one to leave
  Piece,                 \* the replacement functions a plugin may have
  SymbolPiece,           \* those that replace a symbol
  Uses,                  \* per plugin: the pieces it has
  AtStart,               \* pieces of SymbolPiece the resident plugins register at once
  Target,                \* per piece of SymbolPiece: [module, name]
  NoOriginal,            \* pieces registered without an "original"
  Offset,                \* per piece: its function's place in the image
  Table,                 \* per module: dynsym and hash table as linked
  Slots, SlotSize,       \* the memory
  Home,                  \* per static module and resident plugin: its slot
  OverflowChecks,        \* a debug build: arithmetic panics instead of wrapping
  MaxLoads,              \* bound, per image: loads; after the last one it stays
  Null

Slot    == 0..Slots - 1
W       == Slots * SlotSize
Image   == Module \cup Plugin
Entry   == [piece : Piece, at : Slot, by : Plugin, gen : Nat]
Name    == Seq(0..255)
Staying == StaticModule \cup (Plugin \ {Dev})
Symbols(m)  == DOMAIN Table[m].dynsym
Defined(m)  == {i \in Symbols(m) : ~IsCommon(Table[m].dynsym[i])}

ASSUME HooksAssumption ==
  /\ StaticModule \subseteq Module /\ Module \cap Plugin = {} /\ Dev \in Plugin
  /\ Slots \in Nat \ {0} /\ SlotSize \in Nat \ {0} /\ Null \notin Image \cup Int
  /\ \A i \in Staying : Home[i] \in Slot /\ \A j \in Staying : Home[i] = Home[j] => i = j
  /\ IsFiniteSet(Plugin) /\ IsFiniteSet(AtStart) /\ SymbolPiece \subseteq Piece
  /\ NoOriginal \subseteq Piece
  /\ \A x \in SymbolPiece : Target[x].module \in Module /\ Target[x].name \in Name
  /\ \A p \in Plugin \ {Dev} : AtStart \subseteq Uses[p] \cap SymbolPiece
  /\ \A x \in AtStart : Target[x].module \notin StaticModule
  /\ \A x \in Piece : /\ Offset[x] \in 1..SlotSize - 1
                      /\ \A y \in Piece : Offset[x] = Offset[y] => x = y
  /\ MaxLoads \in [Image -> Nat \ {0}] /\ OverflowChecks \in BOOLEAN

\* What a linker makes: a module defines a name once, and its chains end.
ASSUME TablesAssumption ==
  \A m \in Module :
    LET t == Table[m]
    IN /\ t.dynsym \in Seq([name : Name, shndx : Nat]) /\ Len(t.dynsym) < SlotSize
       /\ t.nbucket \in Nat \ {0} /\ t.bucket \in [0..t.nbucket - 1 -> 0..Len(t.dynsym)]
       /\ t.chain \in [Symbols(m) -> 0..Len(t.dynsym)]
       /\ \A i, j \in Defined(m) : t.dynsym[i].name = t.dynsym[j].name => i = j
       /\ \E rank \in [Symbols(m) -> Symbols(m)] :
            \A i \in Symbols(m) : t.chain[i] # 0 => rank[i] < rank[t.chain[i]]

VARIABLES
  where,    \* the slot of each image, or Null
  loads,    \* load count of each image
  value,    \* per module: st_value of each of its symbols
  orig,     \* per slot: the statics behind "original" of the plugin there
  hooks,    \* SYMBOL_HOOKS, per module
  used,     \* pieces each plugin has registered since its load
  patched,  \* history, per module: the entries its image is to be patched with
  state     \* of the process: "running", "panicked" or "faulted"

hookVars == <<where, loads, value, orig, hooks, used, patched, state>>

Base(i)       == where[i] * SlotSize
Address(e)    == e.at * SlotSize + Offset[e.piece]
ImageAt(k)    == {i \in Image : where[i] = k}
PluginAt(k)   == ImageAt(k) \cap Plugin # {}
Free(k)       == ImageAt(k) = {}
Stale(e)      == e.by = Dev /\ (where[Dev] = Null \/ e.gen # loads[Dev])
NewEntry(p, x) == [piece |-> x, at |-> where[p], by |-> p, gen |-> loads[p]]
NameOf(e)     == Target[e.piece].name

LinkedValue(m)    == [i \in Symbols(m) |-> IF i \in Defined(m) THEN i ELSE 0]
IndexOf(m, name)  == Providers(Table[m], name)
Resolved(m, i)    == (value[m][i] + Base(m)) % W   \* what the loader resolves symbol i of m to

HooksInit ==
  /\ where = [i \in Image |-> IF i \in StaticModule \cup (Plugin \ {Dev}) THEN Home[i] ELSE Null]
  /\ loads = [i \in Image |-> IF where[i] = Null THEN 0 ELSE 1]
  /\ value = [m \in Module |-> LinkedValue(m)]
  /\ orig = [k \in Slot |-> [x \in Piece |-> 0]]
  /\ used = [p \in Plugin |-> IF p = Dev THEN {} ELSE AtStart]
  /\ hooks = [m \in Module |-> SetToSeq({NewEntry(p, x) : p \in Plugin \ {Dev},
                                          x \in {y \in AtStart : Target[y].module = m}})]
  /\ patched = [m \in Module |-> <<>>] /\ state = "running"

-----------------------------------------------------------------------------
(* symbol_replace and lazy_symbol_replace, on an image under way:          *)
(* [value, orig, state].                                                   *)

Negative(address, base)   == address - base   \* mutant: signed
Difference(address, base) == (address - base) % W
WriteOriginal(im, e, address) ==
  IF e.piece \in NoOriginal THEN im
  ELSE IF ~PluginAt(e.at) THEN [im EXCEPT !.state = "faulted"]
  ELSE [im EXCEPT !.orig[e.at][e.piece] = address]

\* What a debug build computes with checks: the original's address only if there
\* is one to write.
ChecksFail(im, base, i, e) ==
  /\ OverflowChecks
  /\ \/ Address(e) < base
     \/ e.piece \notin NoOriginal /\ im.value[i] + base >= W
SymbolReplace(im, base, i, e) ==
  IF ChecksFail(im, base, i, e)
  THEN [im EXCEPT !.state = "panicked"]
  ELSE [WriteOriginal(im, e, (im.value[i] + base) % W)
          EXCEPT !.value[i] = Difference(Address(e), base)]

LazySymbolReplace(im, m, base, e) ==
  LET i == GetSymbolByName(Table[m], NameOf(e))
  IN IF im.state # "running" THEN im
     ELSE IF OverflowChecks /\ Overflows(NameOf(e)) THEN [im EXCEPT !.state = "panicked"]
     ELSE IF i = 0 THEN im ELSE SymbolReplace(im, base, i, e)

-----------------------------------------------------------------------------
(* Modules.                                                                *)

\* nro_load: the hooks of the module in the order they were registered.
Patching(m, k) ==
  LET after[j \in 0..Len(hooks[m])] ==
        IF j = 0 THEN [value |-> LinkedValue(m), orig |-> orig, state |-> "running"]
        ELSE LazySymbolReplace(after[j - 1], m, k * SlotSize, hooks[m][j])
  IN after
LoadModule(m, k) ==
  /\ state = "running" /\ where[m] = Null /\ Free(k) /\ loads[m] < MaxLoads[m]
  /\ LET im == Patching(m, k)[Len(hooks[m])]
     IN /\ value' = [value EXCEPT ![m] = im.value]
        /\ orig' = im.orig /\ state' = im.state
  /\ where' = [where EXCEPT ![m] = k] /\ loads' = [loads EXCEPT ![m] = @ + 1]
  /\ patched' = [patched EXCEPT ![m] = hooks[m]]
  /\ UNCHANGED <<hooks, used>>

\* nro_unload: every original of the module's hooks becomes null.
Untouched(im, e) == im   \* mutant: originals are left as they are
Nulled(im, e)    == WriteOriginal(im, e, 0)
Nulling(m) ==
  LET after[j \in 0..Len(hooks[m])] ==
        IF j = 0 THEN [orig |-> orig, state |-> "running"] ELSE Nulled(after[j - 1], hooks[m][j])
  IN after
UnloadModule(m) ==
  /\ state = "running" /\ where[m] # Null /\ m \notin StaticModule
  /\ loads[m] < MaxLoads[m]
  /\ LET im == Nulling(m)[Len(hooks[m])]
     IN orig' = im.orig /\ state' = im.state
  /\ where' = [where EXCEPT ![m] = Null]
  /\ value' = [value EXCEPT ![m] = LinkedValue(m)] /\ patched' = [patched EXCEPT ![m] = <<>>]
  /\ UNCHANGED <<loads, hooks, used>>

-----------------------------------------------------------------------------
(* Plugins.                                                                *)

MayUse(p, x) == state = "running" /\ where[p] # Null /\ x \in Uses[p] \ used[p]
Register(p, x) == used' = [used EXCEPT ![p] = @ \cup {x}]

\* replace_symbol: takes effect at the next load of the module.
ReplaceSymbol(p, x) ==
  /\ MayUse(p, x) /\ x \in SymbolPiece /\ Target[x].module \notin StaticModule
  /\ hooks' = [hooks EXCEPT ![Target[x].module] = Append(@, NewEntry(p, x))]
  /\ Register(p, x)
  /\ UNCHANGED <<where, loads, value, orig, patched, state>>

\* replace_static_symbol: takes effect at once, in the image the address lies in:
\* the module the first time, afterwards the plugin that replaced the symbol,
\* which exports no such symbol.  An address in no image has no header to read.
FirstPatch(m, e) ==
  IF \E j \in DOMAIN patched[m] : NameOf(patched[m][j]) = NameOf(e) THEN patched[m]
  ELSE Append(patched[m], e)
AnyImage(address, m)         == {m}   \* mutant: the symbol's module, not the address's
ObjectFromAddress(address, m) == ImageAt(address \div SlotSize)
ReplaceStaticSymbol(p, x, address, byName) ==
  LET m       == Target[x].module
      e       == NewEntry(p, x)
      objects == ObjectFromAddress(address, m)
      o       == CHOOSE o \in objects : TRUE
      image   == [value |-> value[o], orig |-> orig, state |-> "running"]
      i       == GetSymbolByValue(Table[o], value[o], Difference(address, Base(o)))
      im      == IF byName THEN LazySymbolReplace(image, o, Base(o), e)
                 ELSE IF i = 0 THEN image ELSE SymbolReplace(image, Base(o), i, e)
  IN /\ IF objects = {} THEN state' = "faulted" /\ UNCHANGED <<value, orig>>
        ELSE IF o \in Plugin THEN UNCHANGED <<state, value, orig>>
        ELSE state' = im.state /\ orig' = im.orig /\ value' = [value EXCEPT ![o] = im.value]
     /\ patched' = [patched EXCEPT ![m] = FirstPatch(m, e)]
     /\ Register(p, x)
     /\ UNCHANGED <<where, loads, hooks>>

\* StaticSymbol::Unresolved is looked up now; StaticSymbol::Resolved was bound
\* when the plugin was loaded, to the game's function or to a replacement.
StaticSymbol(p, x) ==
  /\ MayUse(p, x) /\ x \in SymbolPiece /\ Target[x].module \in StaticModule
  /\ LET m == Target[x].module
     IN \E i \in IndexOf(m, Target[x].name) :
          \/ ReplaceStaticSymbol(p, x, Resolved(m, i), TRUE)
          \/ \E address \in {Resolved(m, i), Base(m) + LinkedValue(m)[i]} :
               ReplaceStaticSymbol(p, x, address, FALSE)

\* The development plugin comes with fresh statics, and leaves its entries.
LoadDev(k) ==
  /\ state = "running" /\ where[Dev] = Null /\ Free(k) /\ loads[Dev] < MaxLoads[Dev]
  /\ where' = [where EXCEPT ![Dev] = k] /\ loads' = [loads EXCEPT ![Dev] = @ + 1]
  /\ orig' = [orig EXCEPT ![k] = [x \in Piece |-> 0]]
  /\ UNCHANGED <<value, hooks, used, patched, state>>
UnloadDev ==
  /\ state = "running" /\ where[Dev] # Null /\ loads[Dev] < MaxLoads[Dev]
  /\ where' = [where EXCEPT ![Dev] = Null] /\ used' = [used EXCEPT ![Dev] = {}]
  /\ UNCHANGED <<loads, value, orig, hooks, patched, state>>

-----------------------------------------------------------------------------
(* Properties.                                                             *)

\* Where a call of address leads from the function there, if one is.
PieceAt(address) ==
  {x \in Piece : PluginAt(address \div SlotSize) /\ Offset[x] = address % SlotSize}
Onward(address) ==
  IF PieceAt(address) = {} THEN address
  ELSE orig[address \div SlotSize][CHOOSE x \in PieceAt(address) : TRUE]

\* A call to address runs the functions of the entries of es at the positions
\* ps, the newest first, each calling the next, and then what is at last; one
\* without an original has nothing to call.
Reached(address, es, ps) ==   \* what is called when those after j have run
  LET reached[j \in 0..Len(es)] ==
        IF j = Len(es) THEN address
        ELSE IF j + 1 \in ps THEN Onward(reached[j + 1]) ELSE reached[j + 1]
  IN reached
Calls(address, es, ps, last) ==
  \A j \in 0..Len(es) :
    (\A i \in ps : i > j => es[i].piece \notin NoOriginal) =>
      /\ j \in ps => Reached(address, es, ps)[j] = Address(es[j])
      /\ j = 0 => Reached(address, es, ps)[j] = last

PatchesOf(m, name) == {j \in DOMAIN patched[m] : NameOf(patched[m][j]) = name}
StaleIn(es, ps)    == \E j \in ps : Stale(es[j])
AnyStale(es)       == StaleIn(es, DOMAIN es)
\* What stands for a static symbol may be an address that now holds other code.
StaticStale        == \E s \in StaticModule : AnyStale(patched[s])

\* Every variable keeps its type.
HooksTypeOK ==
  /\ where \in [Image -> Slot \cup {Null}] /\ \A i \in Image : loads[i] \in 0..MaxLoads[i]
  /\ \A m \in Module : value[m] \in [Symbols(m) -> 0..W - 1]
  /\ orig \in [Slot -> [Piece -> 0..W - 1]]
  /\ \A m \in Module : Range(hooks[m]) \subseteq Entry /\ Range(patched[m]) \subseteq Entry
  /\ used \in [Plugin -> SUBSET Piece] /\ state \in {"running", "panicked", "faulted"}

\* In a loaded module a symbol that the module defines leads through the
\* replacements registered before the load (for a static module: the first
\* one), the newest first, to the game's function, wherever plugin and module
\* lie; one it only imports is never touched.  Unless one of them, or one of a
\* static module's, belongs to a development plugin that has left.
SymbolChains ==
  state = "running" /\ ~StaticStale =>
    \A m \in Module : where[m] # Null => \A i \in Symbols(m) :
      LET ps == PatchesOf(m, Table[m].dynsym[i].name)
      IN IF i \notin Defined(m) THEN value[m][i] = LinkedValue(m)[i]
         ELSE \/ StaleIn(patched[m], ps)
              \/ Calls(Resolved(m, i), patched[m], ps, Base(m) + LinkedValue(m)[i])

\* While a module is not loaded the originals of its hooks are null, which is
\* what a replacement is to check before it calls one.
OriginalsNulled ==
  state = "running" =>
    \A m \in Module : where[m] = Null => \A e \in Range(hooks[m]) :
      PluginAt(e.at) => orig[e.at][e.piece] = 0
=============================================================================
