-------------------------- MODULE FrameChainsProofs --------------------------
(***************************************************************************)
(* Proofs about SymbolHooks and FrameChains: where symbols and the frame   *)
(* functions of agents lead, which originals are null, and what faults,    *)
(* for any number of modules, plugins, replacements, agents and reloads,   *)
(* and any layout of memory and of the modules' symbol tables.             *)
(***************************************************************************)
EXTENDS FrameChains, FiniteSetTheorems, WellFoundedInduction, TLAPS

-----------------------------------------------------------------------------
(* Invariants.                                                             *)

Address0 == 0..W - 1
TypeInv ==
  /\ where \in [Image -> Slot \cup {Null}] /\ loads \in [Image -> Nat]
  /\ \A i \in Image : loads[i] <= MaxLoads[i]
  /\ value = [m \in Module |-> value[m]] /\ \A m \in Module : value[m] \in [Symbols(m) -> Address0]
  /\ orig \in [Slot -> [Piece -> Address0]]
  /\ hooks \in [Module -> Seq(Entry)] /\ patched \in [Module -> Seq(Entry)]
  /\ frames \in [FrameList -> Seq(Entry)]
  /\ used \in [Plugin -> SUBSET Piece] /\ state \in {"running", "panicked", "faulted"}
  /\ control \in [Agent -> [FrameList -> Address0 \cup {Null}]]
  /\ seen \in [Agent -> [FrameList -> Nat]]

\* Images lie apart; the static modules and the resident plugins stay.
Apart(w) == \A i, j \in Image : w[i] = w[j] /\ w[i] # Null => i = j
MemoryInv == Apart(where) /\ \A i \in Staying : where[i] = Home[i]

\* Stale, in a state where w and l are where and loads.
Gone(e, w, l)       == e.by = Dev /\ (w[Dev] = Null \/ e.gen # l[Dev])
GoneIn(es, ps, w, l) == \E j \in ps : Gone(es[j], w, l)
AnyGone(es, w, l)    == GoneIn(es, DOMAIN es, w, l)
StaticGone(pt, w, l) == \E s \in StaticModule : AnyGone(pt[s], w, l)

\* The entries of a list that are not stale: each is where its plugin is, and
\* there is one for a piece (u is used).
Recorded(e, w, l, u) ==
  /\ e.by = Dev => e.gen <= l[Dev]
  /\ ~Gone(e, w, l) => e.at = w[e.by] /\ e.piece \in u[e.by]
OnePerPiece(es, w, l) ==
  \A i, j \in DOMAIN es :
    ~Gone(es[i], w, l) /\ ~Gone(es[j], w, l) /\ es[i].piece = es[j].piece /\ es[i].at = es[j].at
      => i = j
ListInv(es, w, l, u) == OnePerPiece(es, w, l) /\ \A i \in DOMAIN es : Recorded(es[i], w, l, u)
HooksOf(m, es) ==
  \A i \in DOMAIN es : es[i].piece \in SymbolPiece /\ Target[es[i].piece].module = m
FramesOf(l, es) ==
  \A i \in DOMAIN es : es[i].piece \in FramePiece /\ Frame[es[i].piece].list = l
EntriesInv ==
  /\ \A m \in Module : /\ ListInv(hooks[m], where, loads, used)
                       /\ ListInv(patched[m], where, loads, used)
                       /\ HooksOf(m, hooks[m]) /\ HooksOf(m, patched[m])
                       /\ m \in StaticModule => hooks[m] = <<>>
  /\ \A l \in FrameList : ListInv(frames[l], where, loads, used) /\ FramesOf(l, frames[l])

BaseInv == TypeInv /\ MemoryInv /\ EntriesInv

\* An original that is not null is one of a module that is loaded.
PluginIn(k, w) == \E p \in Plugin : w[p] = k
NullInv ==
  state = "running" =>
    \A k \in Slot, x \in SymbolPiece :
      LET m == Target[x].module
      IN PluginIn(k, where) /\ m \notin StaticModule /\ orig[k][x] # 0 =>
           /\ where[m] # Null /\ x \notin NoOriginal
           /\ \E i \in DOMAIN hooks[m] : hooks[m][i].at = k /\ hooks[m][i].piece = x

FaultInv ==
  state = "faulted" =>
    \/ \E m \in Module : AnyGone(hooks[m], where, loads) \/ AnyGone(patched[m], where, loads)
    \/ \E l \in FrameList : AnyGone(frames[l], where, loads)

\* What the function at position j of es calls, of those at the positions ps
\* (or, past the end, what is called first).
Leads(es, ps, j, native, address) ==
  \/ address = native /\ \A i \in ps : i >= j
  \/ \E i \in ps : i < j /\ address = Address(es[i]) /\ \A h \in ps : h < j => h <= i
Chained0(es, ps, org, native) ==
  \A j \in ps : es[j].piece \notin NoOriginal =>
    Leads(es, ps, j, native, org[es[j].at][es[j].piece])
Chain(es, ps, org, native, address) ==
  Chained0(es, ps, org, native) /\ Leads(es, ps, Len(es) + 1, native, address)

\* Where the symbols of a module lead.
Named(es, name) == {j \in DOMAIN es : NameOf(es[j]) = name}
SymbolsLeadTo(m, es, val, org, w, l) ==
  \A i \in Symbols(m) :
    LET ps == Named(es, Table[m].dynsym[i].name)
        base == w[m] * SlotSize
    IN IF i \notin Defined(m) THEN val[i] = 0
       ELSE GoneIn(es, ps, w, l) \/ Chain(es, ps, org, base + i, (val[i] + base) % W)
ChainInv ==
  state = "running" /\ ~StaticGone(patched, where, loads) =>
    \A m \in Module : where[m] # Null =>
      SymbolsLeadTo(m, patched[m], value[m], orig, where, loads)

\* Where the frame functions of an agent lead.
Meant(es, a) == {j \in DOMAIN es : MeantFor(es[j], a)}
FrameSymbol(l) == CHOOSE i \in IndexOf(CommonModule, Control[l]) : TRUE
Native(l, val, w) == (val[CommonModule][FrameSymbol(l)] + w[CommonModule] * SlotSize) % W
AgentLeadsTo(es, a, sn, org, native, address, w, l) ==
  \/ GoneIn(es, Meant(es, a), w, l)
  \/ Chain(es, {j \in Meant(es, a) : j <= sn}, org, native, address)
AgentInv ==
  state = "running" /\ ~StaticGone(patched, where, loads) =>
    \A a \in Agent : \A l \in ListsOf(a) : control[a][l] # Null =>
      /\ where[CommonModule] # Null /\ seen[a][l] <= Len(frames[l])
      /\ AgentLeadsTo(frames[l], a, seen[a][l], orig, Native(l, value, where), control[a][l],
                      where, loads)

\* The symbols of a module are on the chains of the buckets that the hash of
\* rtld.rs puts them in.
Bucket(m, i) == ElfHash(Table[m].dynsym[i].name) % Table[m].nbucket
LinkedByHash ==
  \A m \in Module : \A i \in Symbols(m) :
    \/ i = Table[m].bucket[Bucket(m, i)]
    \/ \E j \in Symbols(m) : Table[m].chain[j] = i /\ Bucket(m, j) = Bucket(m, i)

-----------------------------------------------------------------------------
(* Recursion over a list, up and down.                                     *)

LEMMA UpTo ==
  ASSUME NEW n \in Nat, NEW P \in SUBSET (0..n), 0 \in P, \A j \in 1..n : j - 1 \in P => j \in P
  PROVE  \A j \in 0..n : j \in P
<1> DEFINE Q == (0..n) \ P
           R == OpToRel(<, Nat)
<1> SUFFICES ASSUME Q # {} PROVE FALSE
  OBVIOUS
<1>1. IsWellFoundedOn(R, Nat)
  BY NatLessThanWellFounded
<1>2. PICK x \in Q : \A y \in Q : ~ (<<y, x>> \in R)
  <2>1. Q \subseteq Nat
    OBVIOUS
  <2> HIDE DEF Q, R
  <2> QED BY <1>1, <2>1, WFMin
<1>3. x - 1 \in Q
  <2>1. x \in 1..n /\ x - 1 \in 0..n
    OBVIOUS
  <2> QED BY <2>1
<1>4. <<x - 1, x>> \in R
  BY <1>2, <1>3 DEF OpToRel
<1> QED BY <1>2, <1>3, <1>4

LEMMA DownFrom ==
  ASSUME NEW n \in Nat, NEW P \in SUBSET (0..n), n \in P, \A j \in 0..n - 1 : j + 1 \in P => j \in P
  PROVE  \A j \in 0..n : j \in P
<1> DEFINE Q == {j \in 0..n : n - j \in P}
<1>1. 0 \in Q
  OBVIOUS
<1>2. \A j \in 1..n : j - 1 \in Q => j \in Q
  <2> SUFFICES ASSUME NEW j \in 1..n, n - (j - 1) \in P PROVE n - j \in P
    OBVIOUS
  <2>1. n - j \in 0..n - 1 /\ (n - j) + 1 = n - (j - 1)
    OBVIOUS
  <2> QED BY <2>1
<1>3. \A j \in 0..n : j \in Q
  <2> HIDE DEF Q
  <2>1. Q \in SUBSET (0..n)
    BY DEF Q
  <2> QED BY <1>1, <1>2, <2>1, UpTo
<1>4. \A j \in 0..n : n - j \in 0..n /\ n - (n - j) = j
  OBVIOUS
<1> QED BY <1>3, <1>4

\* A function defined from one value to the next.
Steps(f, n, s0, step) == f[0] = s0 /\ \A j \in 1..n : f[j] = step[j][f[j - 1]]
LEMMA Iteration ==
  ASSUME NEW n \in Nat, NEW S, NEW s0 \in S, NEW step \in [1..n -> [S -> S]]
  PROVE  \E f \in [0..n -> S] : Steps(f, n, s0, step)
<1> DEFINE Goes(m) == \E f \in [0..m -> S] :
                        f[0] = s0 /\ \A j \in 1..m : f[j] = step[j][f[j - 1]]
           P == {m \in 0..n : Goes(m)}
<1>1. 0 \in P
  <2> DEFINE f == [j \in 0..0 |-> s0]
  <2>1. f \in [0..0 -> S] /\ f[0] = s0 /\ \A j \in 1..0 : f[j] = step[j][f[j - 1]]
    OBVIOUS
  <2>2. Goes(0)
    <3> HIDE DEF f
    <3> QED BY <2>1
  <2> QED BY <2>2
<1>2. ASSUME NEW m \in 1..n, Goes(m - 1)
      PROVE  Goes(m)
  <2>1. PICK f \in [0..m - 1 -> S] :
          f[0] = s0 /\ \A j \in 1..m - 1 : f[j] = step[j][f[j - 1]]
    BY <1>2
  <2> DEFINE g == [j \in 0..m |-> IF j = m THEN step[m][f[m - 1]] ELSE f[j]]
  <2>2. step[m][f[m - 1]] \in S
    BY <2>1
  <2>3. g \in [0..m -> S]
    BY <2>1, <2>2
  <2>4. g[0] = s0 /\ \A j \in 1..m : g[j] = step[j][g[j - 1]]
    <3>1. \A j \in 0..m - 1 : g[j] = f[j]
      OBVIOUS
    <3>2. g[m] = step[m][f[m - 1]] /\ g[m - 1] = f[m - 1]
      OBVIOUS
    <3> HIDE DEF g
    <3>3. \A j \in 1..m : j = m \/ (j \in 1..m - 1 /\ g[j] = f[j] /\ g[j - 1] = f[j - 1])
      BY <3>1
    <3>4. 0 \in 0..m - 1
      OBVIOUS
    <3>5. g[m] = step[m][g[m - 1]]
      BY <3>2
    <3>6. ASSUME NEW j \in 1..m PROVE g[j] = step[j][g[j - 1]]
      BY <2>1, <3>3, <3>5
    <3> QED BY <2>1, <3>1, <3>4, <3>6
  <2> HIDE DEF g
  <2> QED BY <2>3, <2>4
<1>3. n \in P
  <2>1. \A m \in 1..n : m - 1 \in P => m \in P
    <3> SUFFICES ASSUME NEW m \in 1..n, m - 1 \in P PROVE m \in P
      OBVIOUS
    <3>1. Goes(m - 1) /\ m \in 0..n
      OBVIOUS
    <3> HIDE DEF Goes
    <3> QED BY <1>2, <3>1
  <2>2. P \in SUBSET (0..n) /\ n \in 0..n
    OBVIOUS
  <2> HIDE DEF P
  <2> QED BY <1>1, <2>1, <2>2, UpTo
<1> QED BY <1>3 DEF Steps

-----------------------------------------------------------------------------
(* Addresses.                                                              *)

LEMMA Sizes == /\ Slots \in Nat \ {0} /\ SlotSize \in Nat \ {0} /\ W \in Nat \ {0}
               /\ Slot \subseteq Nat /\ Address0 \subseteq Nat /\ Null \notin Slot \cup Address0
<1>1. Slots \in Nat \ {0} /\ SlotSize \in Nat \ {0} /\ Null \notin Int
  BY HooksAssumption
<1>2. Slots * SlotSize \in Nat \ {0}
  BY <1>1
<1> QED BY <1>1, <1>2 DEF W, Slot, Address0

\* An address of a slot and an offset, and back.
LEMMA AddressOf ==
  ASSUME NEW k \in Slot, NEW c \in 0..SlotSize - 1
  PROVE  /\ (k * SlotSize + c) \div SlotSize = k /\ (k * SlotSize + c) % SlotSize = c
         /\ k * SlotSize + c \in Address0 /\ k * SlotSize \in Address0
<1>1. k \in Nat /\ c \in Nat /\ SlotSize \in Nat \ {0} /\ c < SlotSize /\ k <= Slots - 1
      /\ Slots \in Nat
  BY Sizes DEF Slot
<1>2. (k * SlotSize + c) \div SlotSize = k /\ (k * SlotSize + c) % SlotSize = c
  BY <1>1
<1>3. PICK d \in Nat : Slots = k + 1 + d
  <2>1. Slots - k - 1 \in Nat /\ Slots = k + 1 + (Slots - k - 1)
    BY <1>1
  <2> QED BY <2>1
<1>4. Slots * SlotSize = k * SlotSize + SlotSize + d * SlotSize
  BY <1>1, <1>3
<1>5. d * SlotSize >= 0 /\ k * SlotSize \in Nat /\ Slots * SlotSize \in Nat
  BY <1>1
<1>6. k * SlotSize + c <= Slots * SlotSize - 1
  BY <1>1, <1>4, <1>5
<1> QED BY <1>1, <1>2, <1>4, <1>5, <1>6 DEF Address0, W

\* Differences and sums wrap, and undo each other.
LEMMA Wrapping ==
  ASSUME NEW a \in Address0, NEW b \in Address0
  PROVE  /\ a % W = a /\ (a + b) % W \in Address0 /\ Difference(a, b) \in Address0
         /\ (Difference(a, b) + b) % W = a
<1>1. W \in Nat \ {0} /\ a \in Nat /\ b \in Nat /\ a < W /\ b < W
  BY Sizes DEF Address0
<1>2. \A x \in 0..W - 1 : x % W = x
  BY <1>1
<1>3. (a + b) % W \in 0..W - 1 /\ (a - b) % W \in 0..W - 1
  BY <1>1
<1>4. CASE a >= b
  <2>1. (a - b) % W = a - b
    BY <1>1, <1>2, <1>4
  <2> QED BY <1>1, <1>2, <1>3, <2>1 DEF Difference, Address0
<1>5. CASE a < b
  <2>1. (a - b) % W = a - b + W
    BY <1>1, <1>5
  <2>2. (a + W) % W = a
    BY <1>1
  <2>3. a - b + W + b = a + W
    BY <1>1
  <2> QED BY <1>1, <1>2, <1>3, <2>1, <2>2, <2>3 DEF Difference, Address0
<1> QED BY <1>1, <1>4, <1>5

LEMMA EntryAddress ==
  ASSUME NEW e \in Entry
  PROVE  /\ e.piece \in Piece /\ e.at \in Slot /\ e.by \in Plugin /\ e.gen \in Nat
         /\ Offset[e.piece] \in 1..SlotSize - 1 /\ Address(e) \in Address0
         /\ Address(e) \div SlotSize = e.at /\ Address(e) % SlotSize = Offset[e.piece]
<1>1. e.piece \in Piece /\ e.at \in Slot /\ e.by \in Plugin /\ e.gen \in Nat
  BY DEF Entry
<1>2. Offset[e.piece] \in 1..SlotSize - 1 /\ Offset[e.piece] \in 0..SlotSize - 1
  <2>1. Offset[e.piece] \in 1..SlotSize - 1
    BY <1>1, HooksAssumption
  <2> QED BY <2>1, Sizes
<1> QED BY <1>1, <1>2, AddressOf DEF Address

LEMMA Tables ==
  ASSUME NEW m \in Module
  PROVE  /\ Len(Table[m].dynsym) \in Nat /\ Len(Table[m].dynsym) < SlotSize
         /\ Symbols(m) = 1..Len(Table[m].dynsym) /\ Table[m].nbucket \in Nat \ {0}
         /\ \A i \in Symbols(m) : Table[m].dynsym[i].name \in Name
<1> DEFINE t == Table[m]
<1>1. /\ t.dynsym \in Seq([name : Name, shndx : Nat]) /\ Len(t.dynsym) < SlotSize
      /\ t.nbucket \in Nat \ {0}
  BY TablesAssumption
<1>2. \A S : \A s \in Seq(S) :
        DOMAIN s = 1..Len(s) /\ Len(s) \in Nat /\ \A i \in 1..Len(s) : s[i] \in S
  OBVIOUS
<1>3. /\ DOMAIN t.dynsym = 1..Len(t.dynsym) /\ Len(t.dynsym) \in Nat
      /\ \A i \in 1..Len(t.dynsym) : t.dynsym[i] \in [name : Name, shndx : Nat]
  <2> HIDE DEF t
  <2> QED BY <1>1, <1>2, Zenon
<1> QED BY <1>1, <1>3 DEF Symbols

LEMMA SymbolAddress ==
  ASSUME NEW m \in Module, NEW i \in Symbols(m), where[m] \in Slot
  PROVE  /\ Base(m) \in Address0 /\ Base(m) + i \in Address0 /\ i \in Address0
         /\ (Base(m) + i) \div SlotSize = where[m]
         /\ (i + Base(m)) % W = Base(m) + i
<1>1. i \in 0..SlotSize - 1
  BY Tables, Sizes
<1>2. /\ Base(m) \in Address0 /\ Base(m) + i \in Address0
      /\ (Base(m) + i) \div SlotSize = where[m]
  BY <1>1, AddressOf DEF Base
<1>3. i + Base(m) = Base(m) + i /\ i \in Address0
  BY <1>1, <1>2, Sizes DEF Address0
<1>4. (Base(m) + i) % W = Base(m) + i
  BY <1>2, Wrapping
<1> QED BY <1>2, <1>3, <1>4

-----------------------------------------------------------------------------
(* rtld.rs.                                                                *)

LEMMA Powers == 2^24 \in Nat \ {0} /\ 2^28 \in Nat \ {0}
OBVIOUS

LEMMA BitType ==
  ASSUME NEW n \in Int, NEW i \in 0..7
  PROVE  2^i \in Nat \ {0} /\ Bit(n, i) \in 0..1
<1>1. 2^i \in Nat \ {0}
  <2>1. /\ 2^0 \in Nat \ {0} /\ 2^1 \in Nat \ {0} /\ 2^2 \in Nat \ {0} /\ 2^3 \in Nat \ {0}
        /\ 2^4 \in Nat \ {0} /\ 2^5 \in Nat \ {0} /\ 2^6 \in Nat \ {0} /\ 2^7 \in Nat \ {0}
    OBVIOUS
  <2>2. i = 0 \/ i = 1 \/ i = 2 \/ i = 3 \/ i = 4 \/ i = 5 \/ i = 6 \/ i = 7
    OBVIOUS
  <2> QED BY <2>1, <2>2, Zenon
<1>2. n \div 2^i \in Int
  BY <1>1
<1> QED BY <1>1, <1>2 DEF Bit

LEMMA HashStepType ==
  ASSUME NEW h \in Int, NEW c \in Int
  PROVE  HashStep(h, c) \in Int
<1> DEFINE low == Shifted(h, c) % 2^28
<1>1. Shifted(h, c) \in Int /\ h \div 2^24 \in Int
  BY Powers DEF Shifted
<1>2. low \in Int /\ (low \div 16) % 16 \in Int
  BY <1>1, Powers
<1>3. G(h, c) \in Int
  <2>1. Shifted(h, c) \div 2^28 \in Int
    BY <1>1, Powers
  <2> QED BY <1>1, <2>1 DEF G, Upper
<1>4. \A a, b \in Int : Xor4(a, b) \in Int
  <2> SUFFICES ASSUME NEW a \in Int, NEW b \in Int PROVE Xor4(a, b) \in Int
    OBVIOUS
  <2>1. \A i \in 0..7 : ((Bit(a, i) + Bit(b, i)) % 2) * 2^i \in Int
    BY BitType
  <2> QED BY <2>1 DEF Xor4
<1>5. /\ Bit(low, 4) * 16 \in Int /\ Bit(low, 5) * 32 \in Int
      /\ Bit(low, 6) * 64 \in Int /\ Bit(low, 7) * 128 \in Int
  <2> HIDE DEF low
  <2> QED BY <1>2, BitType
<1>6. 16 * Xor4((low \div 16) % 16, G(h, c)) \in Int
  <2> HIDE DEF low
  <2>1. Xor4((low \div 16) % 16, G(h, c)) \in Int
    BY <1>2, <1>3, <1>4
  <2>2. \A x \in Int : 16 * x \in Int
    OBVIOUS
  <2> QED BY <2>1, <2>2
<1> HIDE DEF low
<1>7. HashStep(h, c) = low - Bit(low, 4) * 16 - Bit(low, 5) * 32 - Bit(low, 6) * 64
                       - Bit(low, 7) * 128 + 16 * Xor4((low \div 16) % 16, G(h, c))
  BY DEF HashStep, low
<1> QED BY <1>2, <1>5, <1>6, <1>7

LEMMA ElfHashType ==
  ASSUME NEW name \in Name
  PROVE  ElfHash(name) \in Int
<1> DEFINE n == Len(name)
           Is(f) == f = [i \in 0..n |-> IF i = 0 THEN 0 ELSE HashStep(f[i - 1], name[i])]
           Z == Int
           zero == 0
           step == [i \in 1..n |-> [h \in Int |-> HashStep(h, name[i])]]
<1>1. n \in Nat /\ \A i \in 1..n : name[i] \in Int
  <2>1. name \in Seq(0..255)
    BY DEF Name
  <2>2. \A S : \A s \in Seq(S) : Len(s) \in Nat /\ \A i \in 1..Len(s) : s[i] \in S
    OBVIOUS
  <2>3. n \in Nat /\ \A i \in 1..n : name[i] \in 0..255
    BY <2>1, <2>2, Zenon
  <2>4. 0..255 \subseteq Int
    OBVIOUS
  <2> HIDE DEF n
  <2> QED BY <2>3, <2>4
<1> HIDE DEF n
<1>2. /\ step \in [1..n -> [Z -> Z]]
      /\ \A i \in 1..n : \A h \in Int : step[i][h] = HashStep(h, name[i])
  <2>1. \A i \in 1..n : \A h \in Int : HashStep(h, name[i]) \in Int
    BY <1>1, HashStepType
  <2> QED BY <2>1
<1>z. zero \in Z
  OBVIOUS
<1> HIDE DEF step, Z, zero
<1>3. PICK f \in [0..n -> Z] : Steps(f, n, zero, step)
  <2>1. n \in Nat
    BY <1>1
  <2> QED BY <1>2, <1>z, <2>1, Iteration
<1>4. Is(f)
  <2>1. \A i \in 0..n : f[i] = IF i = 0 THEN 0 ELSE HashStep(f[i - 1], name[i])
    <3>1. \A i \in 0..n : i = 0 \/ (i \in 1..n /\ i - 1 \in 0..n)
      BY <1>1
    <3> QED BY <1>2, <1>3, <3>1 DEF Z, zero, Steps
  <2>2. f = [i \in 0..n |-> f[i]]
    BY <1>3
  <2> QED BY <2>1, <2>2
<1> DEFINE g == CHOOSE h : Is(h)
<1>5. Is(g)
  <2> HIDE DEF Is
  <2> QED BY <1>4
<1>6. \A i \in 0..n : g[i] \in Int
  <2> DEFINE P == {i \in 0..n : g[i] \in Int}
  <2> HIDE DEF g
  <2>a. g[0] = 0 /\ \A i \in 1..n : g[i] = HashStep(g[i - 1], name[i])
    <3>1. g = [i \in 0..n |-> IF i = 0 THEN 0 ELSE HashStep(g[i - 1], name[i])]
      BY <1>5
    <3>2. \A i \in 0..n : g[i] = IF i = 0 THEN 0 ELSE HashStep(g[i - 1], name[i])
      BY <3>1, Zenon
    <3>3. 0 \in 0..n /\ \A i \in 1..n : i \in 0..n /\ i # 0
      BY <1>1
    <3> QED BY <3>2, <3>3
  <2>1. 0 \in P
    BY <1>1, <2>a
  <2>2. \A i \in 1..n : i - 1 \in P => i \in P
    <3>1. \A i \in 1..n : i \in 0..n
      BY <1>1
    <3> QED BY <1>1, <2>a, <3>1, HashStepType
  <2>3. P \in SUBSET (0..n)
    OBVIOUS
  <2>4. \A i \in P : g[i] \in Int
    OBVIOUS
  <2> HIDE DEF P
  <2>5. \A i \in 0..n : i \in P
    BY <1>1, <2>1, <2>2, <2>3, UpTo
  <2> QED BY <2>4, <2>5
<1>7. ElfHash(name) = g[n]
  BY DEF ElfHash, n
<1> QED BY <1>1, <1>6, <1>7

\* Down a chain: a symbol that is looked for, or none.
LEMMA FirstOnIs ==
  ASSUME NEW m \in Module, NEW S \in SUBSET Symbols(m)
  PROVE  /\ FirstOn(Table[m], S)[0] = 0
         /\ \A i \in Symbols(m) :
              /\ FirstOn(Table[m], S)[i] \in S \cup {0}
              /\ FirstOn(Table[m], S)[i] =
                   IF i \in S THEN i ELSE FirstOn(Table[m], S)[Table[m].chain[i]]
<1> DEFINE n == Len(Table[m].dynsym)
           c == Table[m].chain
           Is(f) == f = [i \in 0..n |-> IF i = 0 \/ i \in S THEN i ELSE f[c[i]]]
<1>1. n \in Nat /\ Symbols(m) = 1..n
  BY Tables
<1>2. PICK rank \in [1..n -> 1..n] : \A i \in 1..n : c[i] # 0 => rank[i] < rank[c[i]]
  BY <1>1, TablesAssumption
<1>3. c \in [1..n -> 0..n]
  BY <1>1, TablesAssumption
<1> HIDE DEF n, c
<1>on. ASSUME NEW i \in 1..n, NEW r \in 1..n, rank[i] > n - r
      PROVE  c[i] = 0 \/ (c[i] \in 1..n /\ rank[c[i]] > n - (r - 1))
  <2>1. c[i] \in 0..n /\ rank[i] \in 1..n
    BY <1>2, <1>3
  <2> SUFFICES ASSUME c[i] # 0 PROVE c[i] \in 1..n /\ rank[c[i]] > n - (r - 1)
    OBVIOUS
  <2>2. c[i] \in 1..n /\ rank[c[i]] \in 1..n /\ rank[i] < rank[c[i]]
    <3>1. c[i] \in 1..n
      <4> DEFINE d == c[i]
      <4>1. d \in 0..n /\ d # 0
        BY <2>1
      <4> HIDE DEF d
      <4>2. d \in 1..n
        BY <4>1
      <4> QED BY <4>2 DEF d
    <3>2. rank[i] < rank[c[i]]
      BY <1>2, <2>1
    <3> QED BY <1>2, <3>1, <3>2
  <2> QED BY <1>1, <1>on, <2>1, <2>2
<1>4. \E f : Is(f)
  <2> DEFINE Upto(f, r) == \A i \in 1..n : rank[i] > n - r => f[i] = IF i \in S THEN i ELSE f[c[i]]
             Goes(r) == \E f \in [0..n -> 0..n] : f[0] = 0 /\ Upto(f, r)
             P == {r \in 0..n : Goes(r)}
  <2>1. 0 \in P
    <3> DEFINE f == [i \in 0..n |-> 0]
    <3>1. f \in [0..n -> 0..n] /\ f[0] = 0
      BY <1>1
    <3>2. Upto(f, 0)
      BY <1>1, <1>2
    <3>3. 0 \in 0..n
      BY <1>1
    <3> HIDE DEF f
    <3> QED BY <3>1, <3>2, <3>3
  <2>2. ASSUME NEW r \in 1..n, Goes(r - 1)
        PROVE  Goes(r)
    <3>1. PICK f \in [0..n -> 0..n] : f[0] = 0 /\ Upto(f, r - 1)
      BY <2>2
    <3> DEFINE g == [i \in 0..n |-> IF i = 0 THEN 0 ELSE IF i \in S THEN i ELSE f[c[i]]]
    <3>2. g \in [0..n -> 0..n] /\ g[0] = 0
      BY <1>1, <1>3, <3>1
    <3>3. \A i \in 1..n : rank[i] > n - (r - 1) => g[i] = f[i]
      BY <1>1, <3>1
    <3>4. ASSUME NEW i \in 1..n, rank[i] > n - r, i \notin S
          PROVE  f[c[i]] = g[c[i]]
      <4>1. c[i] = 0 \/ (c[i] \in 1..n /\ rank[c[i]] > n - (r - 1))
        BY <3>4, <1>on
      <4> QED BY <3>1, <3>2, <3>3, <4>1
    <3>5. Upto(g, r)
      BY <3>4
    <3> HIDE DEF g
    <3> QED BY <3>2, <3>5
  <2>3. n \in P
    <3>1. \A r \in 1..n : r - 1 \in P => r \in P
      BY <2>2
    <3>2. P \in SUBSET (0..n)
      OBVIOUS
    <3>3. n \in 0..n
      BY <1>1
    <3> HIDE DEF P
    <3> QED BY <1>1, <2>1, <3>1, <3>2, <3>3, UpTo
  <2>4. PICK f \in [0..n -> 0..n] : f[0] = 0 /\ Upto(f, n)
    BY <2>3
  <2>5. \A i \in 0..n : f[i] = IF i = 0 \/ i \in S THEN i ELSE f[c[i]]
    <3>1. \A i \in 1..n : rank[i] > n - n
      BY <1>1, <1>2
    <3>2. \A i \in 0..n : i = 0 \/ i \in 1..n
      BY <1>1
    <3>3. \A i \in 1..n : f[i] = IF i \in S THEN i ELSE f[c[i]]
      BY <2>4, <3>1
    <3>4. 0 \notin 1..n
      OBVIOUS
    <3> QED BY <2>4, <3>2, <3>3, <3>4
  <2>6. f = [i \in 0..n |-> f[i]]
    BY <2>4
  <2> QED BY <2>5, <2>6
<1> DEFINE g == CHOOSE f : Is(f)
<1>5. Is(g)
  <2> HIDE DEF Is
  <2> QED BY <1>4
<1>6. g = FirstOn(Table[m], S)
  BY DEF FirstOn, n, c
<1> HIDE DEF g
<1>7. g[0] = 0 /\ \A i \in 1..n : g[i] = IF i \in S THEN i ELSE g[c[i]]
  <2>1. g = [i \in 0..n |-> IF i = 0 \/ i \in S THEN i ELSE g[c[i]]]
    BY <1>5
  <2>2. \A i \in 0..n : g[i] = IF i = 0 \/ i \in S THEN i ELSE g[c[i]]
    BY <2>1, Zenon
  <2>3. 0 \in 0..n /\ \A i \in 1..n : i \in 0..n /\ i # 0
    BY <1>1
  <2> QED BY <2>2, <2>3
<1>8. \A i \in 1..n : g[i] \in S \cup {0}
  <2> DEFINE P == {r \in 0..n : \A i \in 1..n : rank[i] > n - r => g[i] \in S \cup {0}}
  <2>1. 0 \in P
    BY <1>1, <1>2
  <2>2. ASSUME NEW r \in 1..n, r - 1 \in P PROVE r \in P
    <3> SUFFICES ASSUME NEW i \in 1..n, rank[i] > n - r PROVE g[i] \in S \cup {0}
      OBVIOUS
    <3>1. c[i] = 0 \/ (c[i] \in 1..n /\ rank[c[i]] > n - (r - 1))
      BY <1>on
    <3> QED BY <1>7, <2>2, <3>1
  <2>3. P \in SUBSET (0..n)
    OBVIOUS
  <2>4. n \in P
    <3>1. \A r \in 1..n : r - 1 \in P => r \in P
      BY <2>2
    <3>2. n \in 0..n
      BY <1>1
    <3> HIDE DEF P
    <3> QED BY <1>1, <2>1, <2>3, <3>1, <3>2, UpTo
  <2> QED BY <1>1, <1>2, <2>4
<1> QED BY <1>1, <1>6, <1>7, <1>8 DEF c

LEMMA LeastIs ==
  ASSUME NEW S \in SUBSET Nat
  PROVE  (S = {} /\ LeastOf(S) = 0) \/ LeastOf(S) \in S
<1> SUFFICES ASSUME S # {} PROVE LeastOf(S) \in S
  BY DEF LeastOf
<1> DEFINE R == OpToRel(<, Nat)
<1>1. IsWellFoundedOn(R, Nat)
  BY NatLessThanWellFounded
<1>2. PICK x \in S : \A y \in S : ~ (<<y, x>> \in R)
  <2> HIDE DEF R
  <2> QED BY <1>1, WFMin
<1>3. \A y \in S : x <= y
  <2> SUFFICES ASSUME NEW y \in S, y < x PROVE FALSE
    OBVIOUS
  <2>1. <<y, x>> \in R
    BY DEF OpToRel
  <2> QED BY <1>2, <2>1
<1> QED BY <1>3 DEF LeastOf

LEMMA BucketOf ==
  ASSUME NEW m \in Module, NEW name \in Name
  PROVE  /\ ElfHash(name) % Table[m].nbucket \in 0..Table[m].nbucket - 1
         /\ Table[m].bucket \in [0..Table[m].nbucket - 1 -> {0} \cup Symbols(m)]
<1>1. ElfHash(name) \in Int /\ Table[m].nbucket \in Nat \ {0}
  BY ElfHashType, Tables
<1>2. \A h \in Int : \A n \in Nat \ {0} : h % n \in 0..n - 1
  OBVIOUS
<1>3. Table[m].bucket \in [0..Table[m].nbucket - 1 -> 0..Len(Table[m].dynsym)]
  BY TablesAssumption
<1>4. 0..Len(Table[m].dynsym) = {0} \cup Symbols(m)
  <2>1. \A n \in Nat : 0..n = {0} \cup 1..n
    OBVIOUS
  <2> QED BY <2>1, Tables, Zenon
<1>5. ElfHash(name) % Table[m].nbucket \in 0..Table[m].nbucket - 1
  BY <1>1, <1>2
<1> QED BY <1>3, <1>4, <1>5

\* What is found by name is a symbol with that name that the module defines.
LEMMA NameSound ==
  ASSUME NEW m \in Module, NEW name \in Name
  PROVE  /\ Providers(Table[m], name) \subseteq Symbols(m)
         /\ GetSymbolByName(Table[m], name) \in Providers(Table[m], name) \cup {0}
<1> DEFINE S == Providers(Table[m], name)
           b == ElfHash(name) % Table[m].nbucket
<1>1. S \in SUBSET Symbols(m)
  BY DEF Providers, Symbols
<1>2. Table[m].bucket[b] \in {0} \cup Symbols(m)
  BY BucketOf
<1>3. GetSymbolByName(Table[m], name) = FirstOn(Table[m], S)[Table[m].bucket[b]]
  BY DEF GetSymbolByName
<1> HIDE DEF S, b
<1>4. FirstOn(Table[m], S)[Table[m].bucket[b]] \in S \cup {0}
  BY <1>1, <1>2, FirstOnIs
<1> QED BY <1>1, <1>3, <1>4 DEF S

Valued(m, v, d) == {i \in Symbols(m) : ~IsCommon(Table[m].dynsym[i]) /\ v[i] = d}

\* What is found by value is a defined symbol with that value.
LEMMA ValueSound ==
  ASSUME NEW m \in Module, NEW v, NEW d
  PROVE  GetSymbolByValue(Table[m], v, d) \in Valued(m, v, d) \cup {0}
<1> DEFINE S == Valued(m, v, d)
           first == FirstOn(Table[m], S)
           B == {b \in 0..Table[m].nbucket - 1 : first[Table[m].bucket[b]] # 0}
           b0 == LeastOf(B)
<1>1. S \in SUBSET Symbols(m)
  BY DEF Valued
<1>2. Table[m].bucket[b0] \in {0} \cup Symbols(m)
  <2>1. Table[m].nbucket \in Nat \ {0}
    BY Tables
  <2>2. B \in SUBSET (0..Table[m].nbucket - 1) /\ 0..Table[m].nbucket - 1 \subseteq Nat
        /\ 0 \in 0..Table[m].nbucket - 1
    BY <2>1
  <2> HIDE DEF B
  <2>3. B \in SUBSET Nat
    BY <2>2
  <2>4. b0 \in 0..Table[m].nbucket - 1
    BY <2>2, <2>3, LeastIs
  <2>5. Table[m].bucket \in [0..Table[m].nbucket - 1 -> 0..Len(Table[m].dynsym)]
    BY TablesAssumption
  <2>6. 0..Len(Table[m].dynsym) = {0} \cup Symbols(m)
    <3>1. \A n \in Nat : 0..n = {0} \cup 1..n
      OBVIOUS
    <3> QED BY <3>1, Tables, Zenon
  <2> QED BY <2>4, <2>5, <2>6
<1>3. GetSymbolByValue(Table[m], v, d) = first[Table[m].bucket[b0]]
  BY DEF GetSymbolByValue, Valued, Symbols
<1> HIDE DEF S, b0
<1>4. first[Table[m].bucket[b0]] \in S \cup {0}
  BY <1>1, <1>2, FirstOnIs
<1> QED BY <1>1, <1>3, <1>4 DEF S

\* A symbol on the chains is found, or another one of those looked for.
LEMMA Found ==
  ASSUME LinkedByHash, NEW m \in Module, NEW S \in SUBSET Symbols(m), NEW i \in S
  PROVE  FirstOn(Table[m], S)[Table[m].bucket[Bucket(m, i)]] # 0
<1> DEFINE n == Len(Table[m].dynsym)
           c == Table[m].chain
           f == FirstOn(Table[m], S)
           Q == {j \in Symbols(m) : Bucket(m, j) = Bucket(m, i) /\ f[j] # 0}
<1>1. n \in Nat /\ Symbols(m) = 1..n
  BY Tables
<1>2. PICK rank \in [1..n -> 1..n] : \A j \in 1..n : c[j] # 0 => rank[j] < rank[c[j]]
  BY <1>1, TablesAssumption
<1>3. \A j \in Symbols(m) : f[j] = IF j \in S THEN j ELSE f[c[j]]
  BY FirstOnIs
<1>4. 0 \notin Symbols(m)
  BY <1>1
<1>5. i \in Q
  BY <1>3, <1>4
<1> HIDE DEF n, c, f
<1> DEFINE ranks == {rank[j] : j \in Q}
<1>6. ranks \in SUBSET Nat /\ ranks # {}
  <2>1. \A j \in Q : rank[j] \in Nat
    BY <1>1, <1>2
  <2> QED BY <1>5, <2>1
<1>7. PICK j \in Q : \A h \in Q : ~ (rank[h] < rank[j])
  <2> DEFINE R == OpToRel(<, Nat)
  <2>1. IsWellFoundedOn(R, Nat)
    BY NatLessThanWellFounded
  <2>2. PICK x \in ranks : \A y \in ranks : ~ (<<y, x>> \in R)
    <3> HIDE DEF R, ranks
    <3> QED BY <1>6, <2>1, WFMin
  <2>3. PICK j \in Q : rank[j] = x
    OBVIOUS
  <2>4. ASSUME NEW h \in Q, rank[h] < rank[j] PROVE FALSE
    <3>1. rank[h] \in ranks /\ rank[h] \in Nat /\ rank[j] \in Nat
      BY <1>6
    <3>2. <<rank[h], rank[j]>> \in R
      BY <3>1, <2>4 DEF OpToRel
    <3> HIDE DEF R, ranks
    <3> QED BY <2>2, <2>3, <3>1, <3>2
  <2> QED BY <2>4
<1>8. j \in Symbols(m) /\ Bucket(m, j) = Bucket(m, i) /\ f[j] # 0
  OBVIOUS
<1>9. \A h \in Symbols(m) : Bucket(m, h) = Bucket(m, i) /\ f[h] # 0 => ~ (rank[h] < rank[j])
  BY <1>7
<1> HIDE DEF Q
<1>10. CASE j = Table[m].bucket[Bucket(m, j)]
  BY <1>8, <1>10 DEF f
<1>11. CASE \E h \in Symbols(m) : c[h] = j /\ Bucket(m, h) = Bucket(m, j)
  <2>1. PICK h \in Symbols(m) : c[h] = j /\ Bucket(m, h) = Bucket(m, j)
    BY <1>11
  <2>2. f[h] # 0
    BY <1>3, <1>4, <1>8, <2>1
  <2>3. rank[h] < rank[j]
    BY <1>1, <1>2, <1>4, <1>8, <2>1
  <2> QED BY <1>8, <1>9, <2>1, <2>2, <2>3
<1> QED BY <1>8, <1>10, <1>11 DEF LinkedByHash, c

\* So a defined symbol is found by its name, and by its value.
LEMMA NameFound ==
  ASSUME LinkedByHash, NEW m \in Module, NEW i \in Defined(m)
  PROVE  /\ Providers(Table[m], Table[m].dynsym[i].name) = {i}
         /\ GetSymbolByName(Table[m], Table[m].dynsym[i].name) = i
<1> DEFINE name == Table[m].dynsym[i].name
           S == Providers(Table[m], name)
<1>1. i \in Symbols(m) /\ name \in Name
  BY Tables DEF Defined
<1>2. \A j \in Defined(m) : Table[m].dynsym[j].name = name => j = i
  BY TablesAssumption
<1>3. S = {i}
  BY <1>1, <1>2 DEF Providers, Provides, Defined, Symbols
<1>4. GetSymbolByName(Table[m], name) \in {i, 0}
  BY <1>1, <1>3, NameSound
<1>5. GetSymbolByName(Table[m], name) = FirstOn(Table[m], S)[Table[m].bucket[Bucket(m, i)]]
  BY DEF GetSymbolByName, Bucket
<1>6. FirstOn(Table[m], S)[Table[m].bucket[Bucket(m, i)]] # 0
  BY <1>1, <1>3, Found
<1> QED BY <1>3, <1>4, <1>5, <1>6

LEMMA ValueFound ==
  ASSUME LinkedByHash, NEW m \in Module, NEW v, NEW d, NEW i \in Valued(m, v, d)
  PROVE  GetSymbolByValue(Table[m], v, d) # 0
<1> DEFINE S == Valued(m, v, d)
           first == FirstOn(Table[m], S)
           B == {b \in 0..Table[m].nbucket - 1 : first[Table[m].bucket[b]] # 0}
<1>1. S \in SUBSET Symbols(m) /\ i \in Symbols(m)
  BY DEF Valued
<1>2. Bucket(m, i) \in B
  <2>1. Table[m].dynsym[i].name \in Name
    BY <1>1, Tables
  <2>2. Bucket(m, i) \in 0..Table[m].nbucket - 1
    BY <2>1, BucketOf DEF Bucket
  <2> HIDE DEF S
  <2>3. i \in S
    BY DEF S
  <2>4. first[Table[m].bucket[Bucket(m, i)]] # 0
    BY <1>1, <2>3, Found
  <2> HIDE DEF first
  <2> QED BY <2>2, <2>4
<1>3. LeastOf(B) \in B
  <2>1. 0..Table[m].nbucket - 1 \subseteq Nat
    OBVIOUS
  <2>2. B \in SUBSET Nat
    BY <2>1
  <2> HIDE DEF B
  <2> QED BY <1>2, <2>2, LeastIs
<1>4. GetSymbolByValue(Table[m], v, d) = first[Table[m].bucket[LeastOf(B)]]
  BY DEF GetSymbolByValue, Valued, Symbols
<1>5. first[Table[m].bucket[LeastOf(B)]] # 0
  BY <1>3
<1> QED BY <1>4, <1>5

LEMMA LeastUnique ==
  ASSUME NEW S \in SUBSET Nat, NEW i \in S, \A j \in S : i <= j
  PROVE  LeastOf(S) = i
<1>1. LeastOf(S) = CHOOSE h \in S : \A j \in S : h <= j
  BY DEF LeastOf
<1>2. \A h \in S : (\A j \in S : h <= j) => h = i
  OBVIOUS
<1> QED BY <1>1, <1>2

\* A table that a linker made of the dynsym, with a hash that agrees with
\* gen_rtld_elf_hash on the names in it.
LinkerMade(m, AbiHash) ==
  /\ Table[m] = LinkerTable(Table[m].dynsym, Table[m].nbucket, AbiHash)
  /\ \A i \in Symbols(m) : AbiHash[Table[m].dynsym[i].name] = ElfHash(Table[m].dynsym[i].name)

\* In the tables that a linker makes, every symbol that a module defines is
\* found by its name, if gen_rtld_elf_hash is the hash the linker used
\* (rtld.rs get_symbol_by_name).
THEOREM LookupFinds ==
  ASSUME NEW AbiHash, \A m \in Module : LinkerMade(m, AbiHash)
  PROVE  /\ LinkedByHash
         /\ \A m \in Module : \A i \in Defined(m) :
              GetSymbolByName(Table[m], Table[m].dynsym[i].name) = i
<1>1. ASSUME NEW m \in Module, NEW i \in Symbols(m)
      PROVE  \/ i = Table[m].bucket[Bucket(m, i)]
             \/ \E j \in Symbols(m) : Table[m].chain[j] = i /\ Bucket(m, j) = Bucket(m, i)
  <2> DEFINE t == Table[m]
             In(b) == {j \in Symbols(m) : Bucket(m, j) = b}
             S == In(Bucket(m, i))
             Below == {j \in S : j < i}
  <2>1. \A b : {j \in Symbols(m) : AbiHash[t.dynsym[j].name] % t.nbucket = b} = In(b)
    BY DEF LinkerMade, Bucket
  <2>2. /\ t.bucket = [b \in 0..t.nbucket - 1 |-> LeastOf(In(b))]
        /\ t.chain = [j \in Symbols(m) |->
                        LeastOf({h \in In(AbiHash[t.dynsym[j].name] % t.nbucket) : h > j})]
    <3>1. t = LinkerTable(t.dynsym, t.nbucket, AbiHash)
      BY DEF LinkerMade
    <3> DEFINE made == LinkerTable(t.dynsym, t.nbucket, AbiHash)
    <3>2. t.bucket = made.bucket /\ t.chain = made.chain
      <4> HIDE DEF made, t
      <4> QED BY <3>1 DEF made
    <3>3. DOMAIN t.dynsym = Symbols(m)
      BY DEF Symbols
    <3>4. /\ made.bucket = [b \in 0..t.nbucket - 1 |->
                 LeastOf({j \in Symbols(m) : AbiHash[t.dynsym[j].name] % t.nbucket = b})]
          /\ made.chain = [j \in Symbols(m) |->
                 LeastOf({h \in {g \in Symbols(m) : AbiHash[t.dynsym[g].name] % t.nbucket
                                                      = AbiHash[t.dynsym[j].name] % t.nbucket} : h > j})]
      <4> HIDE DEF t
      <4> QED BY <3>3 DEF LinkerTable
    <3> HIDE DEF made
    <3> HIDE DEF In, t
    <3> QED BY <2>1, <3>2, <3>4
  <2>3. Bucket(m, i) \in 0..t.nbucket - 1
    BY Tables, BucketOf DEF Bucket
  <2>4. \A j \in S : t.chain[j] = LeastOf({h \in S : h > j})
    <3>1. \A j \in S : j \in Symbols(m) /\ AbiHash[t.dynsym[j].name] % t.nbucket = Bucket(m, i)
      BY DEF LinkerMade, Bucket
    <3> HIDE DEF t, In
    <3> QED BY <2>2, <3>1
  <2>5. t.bucket[Bucket(m, i)] = LeastOf(S)
    BY <2>2, <2>3
  <2>6. S \in SUBSET Nat /\ i \in S /\ S \subseteq Symbols(m) /\ \A j \in S : Bucket(m, j) = Bucket(m, i)
    <3>1. Symbols(m) \subseteq Nat
      BY Tables
    <3> QED BY <3>1
  <2> HIDE DEF S, t
  <2>7. CASE Below = {}
    <3>1. \A j \in S : i <= j
      BY <2>6, <2>7
    <3>2. LeastOf(S) = i
      BY <2>6, <3>1, LeastUnique
    <3> QED BY <2>5, <3>2 DEF t
  <2>8. CASE Below # {}
    <3> DEFINE R == OpToRel(<, Nat)
               D == {i - j : j \in Below}
    <3>1. IsWellFoundedOn(R, Nat)
      BY NatLessThanWellFounded
    <3>2. D \in SUBSET Nat /\ D # {}
      <4>1. ASSUME NEW j \in Below PROVE i - j \in Nat
        <5>1. i \in Nat /\ j \in Nat /\ j < i
          BY <2>6
        <5> QED BY <5>1
      <4> QED BY <2>8, <4>1
    <3>3. PICK d \in D : \A y \in D : ~ (<<y, d>> \in R)
      <4> HIDE DEF R, D
      <4> QED BY <3>1, <3>2, WFMin
    <3>4. PICK j \in Below : d = i - j
      OBVIOUS
    <3>5. ASSUME NEW h \in S, h > j, h < i PROVE FALSE
      <4>1. h \in Below /\ i - h \in D /\ i \in Nat /\ h \in Nat /\ j \in Nat
        BY <2>6, <3>5
      <4>2. i - h < d /\ i - h \in Nat /\ d \in Nat
        BY <3>4, <3>5, <4>1
      <4>3. <<i - h, d>> \in R
        BY <4>2 DEF OpToRel
      <4> QED BY <3>3, <4>1, <4>3
    <3> DEFINE A == {h \in S : h > j}
    <3>6. i \in A /\ A \in SUBSET Nat /\ \A h \in A : i <= h
      <4>1. i > j
        BY <2>6, <3>4
      <4>2. \A h \in S : h \in Nat /\ i \in Nat
        BY <2>6
      <4>3. \A h \in A : i <= h
        BY <3>5, <4>2
      <4> QED BY <2>6, <4>1, <4>2, <4>3
    <3>7. LeastOf(A) = i
      <4> HIDE DEF A
      <4> QED BY <3>6, LeastUnique
    <3>8. t.chain[j] = i /\ j \in Symbols(m) /\ Bucket(m, j) = Bucket(m, i)
      BY <2>4, <2>6, <3>7
    <3> QED BY <3>8 DEF t
  <2> QED BY <2>7, <2>8
<1>2. LinkedByHash
  BY <1>1 DEF LinkedByHash
<1> QED BY <1>2, NameFound

-----------------------------------------------------------------------------
(* Images under way.                                                       *)

Originals == [Slot -> [Piece -> Address0]]
States    == {"running", "panicked", "faulted"}
PatchIm(m) == [value : [Symbols(m) -> Address0], orig : Originals, state : States]
NullIm     == [orig : Originals, state : States]
ControlIm  == [control : Address0, orig : Originals, state : States]

Written(org, e, address) ==
  IF e.piece \in NoOriginal \/ ~PluginAt(e.at) THEN org
  ELSE [org EXCEPT ![e.at][e.piece] = address]
WrittenState(st, e) == IF e.piece \notin NoOriginal /\ ~PluginAt(e.at) THEN "faulted" ELSE st

LEMMA WrittenIs ==
  ASSUME NEW org \in Originals, NEW e \in Entry, NEW address \in Address0
  PROVE  /\ Written(org, e, address) \in Originals
         /\ \A k \in Slot, x \in Piece :
              Written(org, e, address)[k][x] =
                IF k = e.at /\ x = e.piece /\ x \notin NoOriginal /\ PluginAt(k)
                THEN address ELSE org[k][x]
<1>1. e.piece \in Piece /\ e.at \in Slot
  BY EntryAddress
<1>2. CASE e.piece \in NoOriginal \/ ~PluginAt(e.at)
  BY <1>2 DEF Written
<1>3. CASE ~ (e.piece \in NoOriginal \/ ~PluginAt(e.at))
  <2>1. Written(org, e, address) = [org EXCEPT ![e.at][e.piece] = address]
    BY <1>3 DEF Written
  <2>2. [org EXCEPT ![e.at][e.piece] = address] \in Originals
    BY <1>1 DEF Originals
  <2>3. ASSUME NEW k \in Slot, NEW x \in Piece
        PROVE  [org EXCEPT ![e.at][e.piece] = address][k][x]
                 = IF k = e.at /\ x = e.piece THEN address ELSE org[k][x]
    BY <1>1 DEF Originals
  <2> QED BY <1>3, <2>1, <2>2, <2>3
<1> QED BY <1>2, <1>3

LEMMA WritePatch ==
  ASSUME NEW m \in Module, NEW im \in PatchIm(m), NEW e \in Entry, NEW address \in Address0
  PROVE  WriteOriginal(im, e, address) =
           [value |-> im.value, orig |-> Written(im.orig, e, address),
            state |-> WrittenState(im.state, e)]
BY DEF WriteOriginal, Written, WrittenState, PatchIm

LEMMA WriteNull ==
  ASSUME NEW im \in NullIm, NEW e \in Entry, NEW address \in Address0
  PROVE  WriteOriginal(im, e, address) =
           [orig |-> Written(im.orig, e, address), state |-> WrittenState(im.state, e)]
BY DEF WriteOriginal, Written, WrittenState, NullIm

LEMMA WriteControl ==
  ASSUME NEW im \in ControlIm, NEW e \in Entry, NEW address \in Address0
  PROVE  WriteOriginal(im, e, address) =
           [control |-> im.control, orig |-> Written(im.orig, e, address),
            state |-> WrittenState(im.state, e)]
BY DEF WriteOriginal, Written, WrittenState, ControlIm

\* symbol_replace of symbol i: it panics, or replaces the value and writes the
\* original.
Replaces(m, base, i, e, im, after) ==
  /\ after.value = [im.value EXCEPT ![i] = Difference(Address(e), base)]
  /\ after.orig = Written(im.orig, e, (im.value[i] + base) % W)
  /\ after.state = WrittenState(im.state, e)
LEMMA SymbolReplaceIs ==
  ASSUME NEW m \in Module, NEW im \in PatchIm(m), NEW base \in Address0,
         NEW i \in Symbols(m), NEW e \in Entry
  PROVE  /\ SymbolReplace(im, base, i, e) \in PatchIm(m)
         /\ \/ /\ SymbolReplace(im, base, i, e).state = "panicked"
               /\ SymbolReplace(im, base, i, e).value = im.value
               /\ SymbolReplace(im, base, i, e).orig = im.orig
            \/ Replaces(m, base, i, e, im, SymbolReplace(im, base, i, e))
<1> DEFINE address == (im.value[i] + base) % W
           d == Difference(Address(e), base)
<1>1. address \in Address0 /\ d \in Address0
  <2>1. im.value[i] \in Address0 /\ Address(e) \in Address0
    BY EntryAddress DEF PatchIm
  <2> QED BY <2>1, Wrapping
<1>2. CASE ChecksFail(im, base, i, e)
  <2>1. SymbolReplace(im, base, i, e) = [im EXCEPT !.state = "panicked"]
    BY <1>2 DEF SymbolReplace
  <2> QED BY <2>1 DEF PatchIm, States
<1>3. CASE ~ChecksFail(im, base, i, e)
  <2>1. SymbolReplace(im, base, i, e) = [WriteOriginal(im, e, address) EXCEPT !.value[i] = d]
    BY <1>3 DEF SymbolReplace
  <2> HIDE DEF address, d
  <2>2. WriteOriginal(im, e, address) =
          [value |-> im.value, orig |-> Written(im.orig, e, address),
           state |-> WrittenState(im.state, e)]
    BY <1>1, WritePatch
  <2>3. SymbolReplace(im, base, i, e) =
          [value |-> [im.value EXCEPT ![i] = d], orig |-> Written(im.orig, e, address),
           state |-> WrittenState(im.state, e)]
    BY <2>1, <2>2
  <2>4. im.orig \in Originals /\ im.value \in [Symbols(m) -> Address0] /\ im.state \in States
    BY DEF PatchIm
  <2>5. Written(im.orig, e, address) \in Originals
    BY <1>1, <2>4, WrittenIs
  <2>6. [im.value EXCEPT ![i] = d] \in [Symbols(m) -> Address0]
    BY <1>1, <2>4
  <2>7. WrittenState(im.state, e) \in States
    BY <2>4 DEF WrittenState, States
  <2> QED BY <2>3, <2>5, <2>6, <2>7 DEF PatchIm, Replaces, address, d
<1> QED BY <1>2, <1>3

\* lazy_symbol_replace: nothing without such a symbol.
LEMMA LazyReplaceIs ==
  ASSUME NEW m \in Module, NEW im \in PatchIm(m), NEW base \in Address0, NEW e \in Entry,
         NameOf(e) \in Name
  PROVE  LET after == LazySymbolReplace(im, m, base, e)
             i     == GetSymbolByName(Table[m], NameOf(e))
         IN /\ after \in PatchIm(m)
            /\ im.state # "running" => after = im
            /\ \/ after.state # "running" /\ after.value = im.value /\ after.orig = im.orig
                  /\ (after.state = "faulted" => im.state = "faulted")
               \/ im.state = "running" /\ i = 0 /\ after = im
               \/ im.state = "running" /\ i \in Providers(Table[m], NameOf(e))
                  /\ Replaces(m, base, i, e, im, after)
<1> DEFINE after == LazySymbolReplace(im, m, base, e)
           i     == GetSymbolByName(Table[m], NameOf(e))
<1>1. i \in Providers(Table[m], NameOf(e)) \cup {0} /\ Providers(Table[m], NameOf(e)) \subseteq Symbols(m)
  BY NameSound
<1>2. CASE im.state # "running"
  BY <1>2 DEF LazySymbolReplace, PatchIm
<1>3. CASE im.state = "running" /\ OverflowChecks /\ Overflows(NameOf(e))
  <2>1. after = [im EXCEPT !.state = "panicked"]
    BY <1>3 DEF LazySymbolReplace
  <2>2. [im EXCEPT !.state = "panicked"] \in PatchIm(m)
        /\ [im EXCEPT !.state = "panicked"].state = "panicked"
        /\ [im EXCEPT !.state = "panicked"].value = im.value
        /\ [im EXCEPT !.state = "panicked"].orig = im.orig
    BY DEF PatchIm, States
  <2> QED BY <1>3, <2>1, <2>2
<1>4. CASE im.state = "running" /\ ~ (OverflowChecks /\ Overflows(NameOf(e))) /\ i = 0
  BY <1>4 DEF LazySymbolReplace
<1>5. CASE im.state = "running" /\ ~ (OverflowChecks /\ Overflows(NameOf(e))) /\ i # 0
  <2>1. after = SymbolReplace(im, base, i, e)
    BY <1>5 DEF LazySymbolReplace
  <2>2. i \in Symbols(m) /\ i \in Providers(Table[m], NameOf(e))
    BY <1>1, <1>5
  <2> HIDE DEF i, after
  <2>3. /\ after \in PatchIm(m)
        /\ (after.state = "panicked" /\ after.value = im.value /\ after.orig = im.orig)
           \/ Replaces(m, base, i, e, im, after)
    BY <2>1, <2>2, SymbolReplaceIs
  <2> QED BY <1>5, <2>2, <2>3 DEF i, after
<1> QED BY <1>2, <1>3, <1>4, <1>5

LEMMA SeqEntry ==
  ASSUME NEW es \in Seq(Entry)
  PROVE  /\ Len(es) \in Nat /\ DOMAIN es = 1..Len(es)
         /\ \A i \in 1..Len(es) : es[i] \in Entry
OBVIOUS

LEMMA LinkedIs ==
  ASSUME NEW m \in Module
  PROVE  LinkedValue(m) \in [Symbols(m) -> Address0]
<1>1. \A i \in Symbols(m) : i \in Address0 /\ 0 \in Address0
  <2>1. Slots * SlotSize >= SlotSize
    <3>1. Slots \in Nat \ {0} /\ SlotSize \in Nat \ {0}
      BY HooksAssumption
    <3>2. Slots - 1 \in Nat /\ (Slots - 1) * SlotSize \in Nat
      BY <3>1
    <3>3. Slots * SlotSize = (Slots - 1) * SlotSize + SlotSize
      BY <3>1
    <3> QED BY <3>1, <3>2, <3>3
  <2> QED BY <2>1, Tables, Sizes DEF Address0, W
<1> QED BY <1>1 DEF LinkedValue

LEMMA PatchingIs ==
  ASSUME TypeInv, NEW m \in Module, NEW k \in Slot, HooksOf(m, hooks[m])
  PROVE  /\ Patching(m, k) \in [0..Len(hooks[m]) -> PatchIm(m)]
         /\ Patching(m, k)[0] = [value |-> LinkedValue(m), orig |-> orig, state |-> "running"]
         /\ \A j \in 1..Len(hooks[m]) : Patching(m, k)[j] = LazySymbolReplace(Patching(m, k)[j - 1], m, k * SlotSize, hooks[m][j])
<1> DEFINE n == Len(hooks[m])
           Z == PatchIm(m)
           zero == [value |-> LinkedValue(m), orig |-> orig, state |-> "running"]
           step == [j \in 1..n |-> [im \in Z |-> LazySymbolReplace(im, m, k * SlotSize, hooks[m][j])]]
           Is(f) == f = [j \in 0..n |-> IF j = 0 THEN zero ELSE LazySymbolReplace(f[j - 1], m, k * SlotSize, hooks[m][j])]
           g == CHOOSE f : Is(f)
<1>1. n \in Nat /\ zero \in Z
  <2>1. hooks[m] \in Seq(Entry) /\ orig \in Originals
    BY DEF TypeInv, Originals
  <2> QED BY <2>1, SeqEntry, LinkedIs DEF PatchIm, States
<1>2. \A j \in 1..n : \A im \in Z : LazySymbolReplace(im, m, k * SlotSize, hooks[m][j]) \in Z
  <2> SUFFICES ASSUME NEW j \in 1..n, NEW im \in Z
               PROVE  LazySymbolReplace(im, m, k * SlotSize, hooks[m][j]) \in Z
    OBVIOUS
  <2>1. hooks[m] \in Seq(Entry)
    BY DEF TypeInv
  <2>2. hooks[m][j] \in Entry /\ hooks[m][j].piece \in SymbolPiece
    BY <2>1, SeqEntry DEF HooksOf
  <2>3. NameOf(hooks[m][j]) \in Name
    BY <2>2, HooksAssumption DEF NameOf
  <2>4. k * SlotSize \in Address0
    <3>1. 0 \in 0..SlotSize - 1
      BY Sizes
    <3> QED BY <3>1, AddressOf
  <2> QED BY <2>2, <2>3, <2>4, LazyReplaceIs
<1>3. Patching(m, k) = g
  BY DEF Patching
<1> HIDE DEF n, Z, zero
<1>4. /\ step \in [1..n -> [Z -> Z]]
      /\ \A j \in 1..n : \A im \in Z : step[j][im] = LazySymbolReplace(im, m, k * SlotSize, hooks[m][j])
  BY <1>2
<1> HIDE DEF step
<1>5. PICK f \in [0..n -> Z] : Steps(f, n, zero, step)
  BY <1>1, <1>4, Iteration
<1>6. Is(f)
  <2>1. f[0] = zero /\ \A j \in 1..n : f[j] = step[j][f[j - 1]]
    BY <1>5 DEF Steps
  <2>2. \A j \in 0..n : j = 0 \/ (j \in 1..n /\ j - 1 \in 0..n)
    BY <1>1
  <2>3. \A j \in 1..n : j # 0
    OBVIOUS
  <2>4. \A j \in 0..n : f[j] = IF j = 0 THEN zero ELSE LazySymbolReplace(f[j - 1], m, k * SlotSize, hooks[m][j])
    BY <1>4, <2>1, <2>2, <2>3
  <2>5. f = [j \in 0..n |-> f[j]]
    OBVIOUS
  <2> QED BY <2>4, <2>5
<1>7. Is(g)
  <2> HIDE DEF Is
  <2> QED BY <1>6
<1> HIDE DEF g
<1>8. g[0] = zero /\ \A j \in 1..n : g[j] = LazySymbolReplace(g[j - 1], m, k * SlotSize, hooks[m][j])
  <2>1. \A j \in 0..n : g[j] = IF j = 0 THEN zero ELSE LazySymbolReplace(g[j - 1], m, k * SlotSize, hooks[m][j])
    BY <1>7, Zenon
  <2>2. 0 \in 0..n /\ \A j \in 1..n : j \in 0..n /\ j # 0
    BY <1>1
  <2> QED BY <2>1, <2>2
<1>9. \A j \in 0..n : g[j] \in Z
  <2> DEFINE P == {j \in 0..n : g[j] \in Z}
  <2>1. 0 \in P
    BY <1>1, <1>8
  <2>2. \A j \in 1..n : j - 1 \in P => j \in P
    <3>1. \A j \in 1..n : j \in 0..n
      BY <1>1
    <3> QED BY <1>2, <1>8, <3>1
  <2>3. P \in SUBSET (0..n) /\ \A j \in P : g[j] \in Z
    OBVIOUS
  <2> HIDE DEF P
  <2>4. \A j \in 0..n : j \in P
    BY <1>1, <2>1, <2>2, <2>3, UpTo
  <2> QED BY <2>3, <2>4
<1>10. g \in [0..n -> Z]
  <2>1. g = [j \in 0..n |-> g[j]]
    <3>1. g = [j \in 0..n |-> IF j = 0 THEN zero ELSE LazySymbolReplace(g[j - 1], m, k * SlotSize, hooks[m][j])]
      BY <1>7
    <3> QED BY <3>1
  <2> QED BY <1>9, <2>1
<1> QED BY <1>3, <1>8, <1>10 DEF n, Z, zero

LEMMA NullingIs ==
  ASSUME TypeInv, NEW m \in Module
  PROVE  /\ Nulling(m) \in [0..Len(hooks[m]) -> NullIm]
         /\ Nulling(m)[0] = [orig |-> orig, state |-> "running"]
         /\ \A j \in 1..Len(hooks[m]) : Nulling(m)[j] = Nulled(Nulling(m)[j - 1], hooks[m][j])
<1> DEFINE n == Len(hooks[m])
           Z == NullIm
           zero == [orig |-> orig, state |-> "running"]
           step == [j \in 1..n |-> [im \in Z |-> Nulled(im, hooks[m][j])]]
           Is(f) == f = [j \in 0..n |-> IF j = 0 THEN zero ELSE Nulled(f[j - 1], hooks[m][j])]
           g == CHOOSE f : Is(f)
<1>1. n \in Nat /\ zero \in Z
  <2>1. hooks[m] \in Seq(Entry) /\ orig \in Originals
    BY DEF TypeInv, Originals
  <2> QED BY <2>1, SeqEntry DEF NullIm, States
<1>2. \A j \in 1..n : \A im \in Z : Nulled(im, hooks[m][j]) \in Z
  <2> SUFFICES ASSUME NEW j \in 1..n, NEW im \in Z
               PROVE  Nulled(im, hooks[m][j]) \in Z
    OBVIOUS
  <2>1. hooks[m] \in Seq(Entry)
    BY DEF TypeInv
  <2>2. hooks[m][j] \in Entry
    BY <2>1, SeqEntry
  <2>3. 0 \in Address0
    BY Sizes DEF Address0
  <2>4. Nulled(im, hooks[m][j]) = [orig |-> Written(im.orig, hooks[m][j], 0),
                                   state |-> WrittenState(im.state, hooks[m][j])]
    BY <2>2, <2>3, WriteNull DEF Nulled
  <2>5. Written(im.orig, hooks[m][j], 0) \in Originals
    BY <2>2, <2>3, WrittenIs DEF NullIm
  <2> QED BY <2>4, <2>5 DEF NullIm, WrittenState, States
<1>3. Nulling(m) = g
  BY DEF Nulling
<1> HIDE DEF n, Z, zero
<1>4. /\ step \in [1..n -> [Z -> Z]]
      /\ \A j \in 1..n : \A im \in Z : step[j][im] = Nulled(im, hooks[m][j])
  BY <1>2
<1> HIDE DEF step
<1>5. PICK f \in [0..n -> Z] : Steps(f, n, zero, step)
  BY <1>1, <1>4, Iteration
<1>6. Is(f)
  <2>1. f[0] = zero /\ \A j \in 1..n : f[j] = step[j][f[j - 1]]
    BY <1>5 DEF Steps
  <2>2. \A j \in 0..n : j = 0 \/ (j \in 1..n /\ j - 1 \in 0..n)
    BY <1>1
  <2>3. \A j \in 1..n : j # 0
    OBVIOUS
  <2>4. \A j \in 0..n : f[j] = IF j = 0 THEN zero ELSE Nulled(f[j - 1], hooks[m][j])
    BY <1>4, <2>1, <2>2, <2>3
  <2>5. f = [j \in 0..n |-> f[j]]
    OBVIOUS
  <2> QED BY <2>4, <2>5
<1>7. Is(g)
  <2> HIDE DEF Is
  <2> QED BY <1>6
<1> HIDE DEF g
<1>8. g[0] = zero /\ \A j \in 1..n : g[j] = Nulled(g[j - 1], hooks[m][j])
  <2>1. \A j \in 0..n : g[j] = IF j = 0 THEN zero ELSE Nulled(g[j - 1], hooks[m][j])
    BY <1>7, Zenon
  <2>2. 0 \in 0..n /\ \A j \in 1..n : j \in 0..n /\ j # 0
    BY <1>1
  <2> QED BY <2>1, <2>2
<1>9. \A j \in 0..n : g[j] \in Z
  <2> DEFINE P == {j \in 0..n : g[j] \in Z}
  <2>1. 0 \in P
    BY <1>1, <1>8
  <2>2. \A j \in 1..n : j - 1 \in P => j \in P
    <3>1. \A j \in 1..n : j \in 0..n
      BY <1>1
    <3> QED BY <1>2, <1>8, <3>1
  <2>3. P \in SUBSET (0..n) /\ \A j \in P : g[j] \in Z
    OBVIOUS
  <2> HIDE DEF P
  <2>4. \A j \in 0..n : j \in P
    BY <1>1, <2>1, <2>2, <2>3, UpTo
  <2> QED BY <2>3, <2>4
<1>10. g \in [0..n -> Z]
  <2>1. g = [j \in 0..n |-> g[j]]
    <3>1. g = [j \in 0..n |-> IF j = 0 THEN zero ELSE Nulled(g[j - 1], hooks[m][j])]
      BY <1>7
    <3> QED BY <3>1
  <2> QED BY <1>9, <2>1
<1> QED BY <1>3, <1>8, <1>10 DEF n, Z, zero

LEMMA ChainedIs ==
  ASSUME NEW im \in ControlIm, NEW e \in Entry, NEW a
  PROVE  /\ Chained(im, e, a) \in ControlIm
         /\ im.state # "running" \/ ~Matches(e, a) => Chained(im, e, a) = im
         /\ im.state = "running" /\ Matches(e, a) =>
              Chained(im, e, a) = [control |-> Address(e),
                                   orig |-> Written(im.orig, e, im.control),
                                   state |-> WrittenState(im.state, e)]
<1>1. CASE im.state # "running" \/ ~Matches(e, a)
  BY <1>1 DEF Chained
<1>2. CASE im.state = "running" /\ Matches(e, a)
  <2>1. WriteOriginal(im, e, im.control) =
          [control |-> im.control, orig |-> Written(im.orig, e, im.control),
           state |-> WrittenState(im.state, e)]
    BY WriteControl DEF ControlIm
  <2>2. Chained(im, e, a) = [control |-> Address(e), orig |-> Written(im.orig, e, im.control),
                             state |-> WrittenState(im.state, e)]
    BY <1>2, <2>1 DEF Chained
  <2>3. Written(im.orig, e, im.control) \in Originals
    BY WrittenIs DEF ControlIm
  <2>4. Address(e) \in Address0 /\ WrittenState(im.state, e) \in States
    BY EntryAddress DEF WrittenState, States, ControlIm
  <2> QED BY <1>2, <2>2, <2>3, <2>4 DEF ControlIm
<1> QED BY <1>1, <1>2

LEMMA ChainingIs ==
  ASSUME TypeInv, NEW a, NEW l \in FrameList, Native(l, value, where) \in Address0
  PROVE  /\ Chaining(a, l) \in [0..Len(frames[l]) -> ControlIm]
         /\ Chaining(a, l)[0] = [control |-> Native(l, value, where), orig |-> orig, state |-> "running"]
         /\ \A j \in 1..Len(frames[l]) : Chaining(a, l)[j] = Chained(Chaining(a, l)[j - 1], frames[l][j], a)
<1> DEFINE n == Len(frames[l])
           Z == ControlIm
           zero == [control |-> Native(l, value, where), orig |-> orig, state |-> "running"]
           step == [j \in 1..n |-> [im \in Z |-> Chained(im, frames[l][j], a)]]
           Is(f) == f = [j \in 0..n |-> IF j = 0 THEN zero ELSE Chained(f[j - 1], frames[l][j], a)]
           g == CHOOSE f : Is(f)
<1>1. n \in Nat /\ zero \in Z
  <2>1. frames[l] \in Seq(Entry) /\ orig \in Originals
    BY DEF TypeInv, Originals
  <2> QED BY <2>1, SeqEntry DEF ControlIm, States
<1>2. \A j \in 1..n : \A im \in Z : Chained(im, frames[l][j], a) \in Z
  <2>1. frames[l] \in Seq(Entry)
    BY DEF TypeInv
  <2> QED BY <2>1, SeqEntry, ChainedIs
<1>3. Chaining(a, l) = g
  BY DEF Chaining, Native, LookupSymbol, Resolved, Base, FrameSymbol
<1> HIDE DEF n, Z, zero
<1>4. /\ step \in [1..n -> [Z -> Z]]
      /\ \A j \in 1..n : \A im \in Z : step[j][im] = Chained(im, frames[l][j], a)
  BY <1>2
<1> HIDE DEF step
<1>5. PICK f \in [0..n -> Z] : Steps(f, n, zero, step)
  BY <1>1, <1>4, Iteration
<1>6. Is(f)
  <2>1. f[0] = zero /\ \A j \in 1..n : f[j] = step[j][f[j - 1]]
    BY <1>5 DEF Steps
  <2>2. \A j \in 0..n : j = 0 \/ (j \in 1..n /\ j - 1 \in 0..n)
    BY <1>1
  <2>3. \A j \in 1..n : j # 0
    OBVIOUS
  <2>4. \A j \in 0..n : f[j] = IF j = 0 THEN zero ELSE Chained(f[j - 1], frames[l][j], a)
    BY <1>4, <2>1, <2>2, <2>3
  <2>5. f = [j \in 0..n |-> f[j]]
    OBVIOUS
  <2> QED BY <2>4, <2>5
<1>7. Is(g)
  <2> HIDE DEF Is
  <2> QED BY <1>6
<1> HIDE DEF g
<1>8. g[0] = zero /\ \A j \in 1..n : g[j] = Chained(g[j - 1], frames[l][j], a)
  <2>1. \A j \in 0..n : g[j] = IF j = 0 THEN zero ELSE Chained(g[j - 1], frames[l][j], a)
    BY <1>7, Zenon
  <2>2. 0 \in 0..n /\ \A j \in 1..n : j \in 0..n /\ j # 0
    BY <1>1
  <2> QED BY <2>1, <2>2
<1>9. \A j \in 0..n : g[j] \in Z
  <2> DEFINE P == {j \in 0..n : g[j] \in Z}
  <2>1. 0 \in P
    BY <1>1, <1>8
  <2>2. \A j \in 1..n : j - 1 \in P => j \in P
    <3>1. \A j \in 1..n : j \in 0..n
      BY <1>1
    <3> QED BY <1>2, <1>8, <3>1
  <2>3. P \in SUBSET (0..n) /\ \A j \in P : g[j] \in Z
    OBVIOUS
  <2> HIDE DEF P
  <2>4. \A j \in 0..n : j \in P
    BY <1>1, <2>1, <2>2, <2>3, UpTo
  <2> QED BY <2>3, <2>4
<1>10. g \in [0..n -> Z]
  <2>1. g = [j \in 0..n |-> g[j]]
    <3>1. g = [j \in 0..n |-> IF j = 0 THEN zero ELSE Chained(g[j - 1], frames[l][j], a)]
      BY <1>7
    <3> QED BY <3>1
  <2> QED BY <1>9, <2>1
<1> QED BY <1>3, <1>8, <1>10 DEF n, Z, zero

-----------------------------------------------------------------------------
(* Lists of entries, as images and plugins come and go.                    *)

Keeps(w, l, u, w2, l2, u2) ==
  \A e \in Entry : Recorded(e, w, l, u) =>
    Recorded(e, w2, l2, u2) /\ (Gone(e, w, l) => Gone(e, w2, l2))

LEMMA KeptList ==
  ASSUME NEW w, NEW l, NEW u, NEW w2, NEW l2, NEW u2, Keeps(w, l, u, w2, l2, u2),
         NEW es \in Seq(Entry), ListInv(es, w, l, u)
  PROVE  /\ ListInv(es, w2, l2, u2)
         /\ \A j \in DOMAIN es : Gone(es[j], w, l) => Gone(es[j], w2, l2)
<1>1. \A i \in DOMAIN es : es[i] \in Entry /\ Recorded(es[i], w, l, u)
  BY SeqEntry DEF ListInv
<1>2. \A i \in DOMAIN es : Recorded(es[i], w2, l2, u2) /\ (Gone(es[i], w, l) => Gone(es[i], w2, l2))
  BY <1>1 DEF Keeps
<1> QED BY <1>2 DEF ListInv, OnePerPiece

LEMMA KeptGone ==
  ASSUME NEW w, NEW l, NEW u, NEW w2, NEW l2, NEW u2, Keeps(w, l, u, w2, l2, u2),
         NEW es \in Seq(Entry), ListInv(es, w, l, u), NEW ps \in SUBSET DOMAIN es,
         GoneIn(es, ps, w, l)
  PROVE  GoneIn(es, ps, w2, l2)
BY KeptList DEF GoneIn

LEMMA KeepsStay ==
  ASSUME NEW w, NEW l, NEW u, NEW w2, NEW u2, NEW l2, l2[Dev] = l[Dev],
         \A p \in Plugin : w2[p] = w[p], \A p \in Plugin : u[p] \subseteq u2[p]
  PROVE  Keeps(w, l, u, w2, l2, u2)
<1> SUFFICES ASSUME NEW e \in Entry, Recorded(e, w, l, u)
             PROVE  Recorded(e, w2, l2, u2) /\ (Gone(e, w, l) => Gone(e, w2, l2))
  BY DEF Keeps
<1>1. e.by \in Plugin
  BY EntryAddress
<1>2. Dev \in Plugin
  BY HooksAssumption
<1> QED BY <1>1, <1>2 DEF Recorded, Gone

LEMMA KeepsLoad ==
  ASSUME NEW w, NEW l, NEW u, NEW w2, NEW l2, w[Dev] = Null, l[Dev] \in Nat, l2[Dev] = l[Dev] + 1,
         \A p \in Plugin \ {Dev} : w2[p] = w[p]
  PROVE  Keeps(w, l, u, w2, l2, u)
<1> SUFFICES ASSUME NEW e \in Entry, Recorded(e, w, l, u)
             PROVE  Recorded(e, w2, l2, u) /\ (Gone(e, w, l) => Gone(e, w2, l2))
  BY DEF Keeps
<1>1. e.by \in Plugin /\ e.gen \in Nat
  BY EntryAddress
<1> QED BY <1>1 DEF Recorded, Gone

LEMMA KeepsUnload ==
  ASSUME NEW w, NEW l, NEW u, NEW w2, NEW u2, w2[Dev] = Null,
         \A p \in Plugin \ {Dev} : w2[p] = w[p] /\ u2[p] = u[p]
  PROVE  Keeps(w, l, u, w2, l, u2)
<1> SUFFICES ASSUME NEW e \in Entry, Recorded(e, w, l, u)
             PROVE  Recorded(e, w2, l, u2) /\ (Gone(e, w, l) => Gone(e, w2, l))
  BY DEF Keeps
<1>1. e.by \in Plugin
  BY EntryAddress
<1> QED BY <1>1 DEF Recorded, Gone

\* A plugin registers a piece: it is recorded from then on.
Fresh(e, w, l, u) ==
  /\ w[e.by] # Null /\ e.at = w[e.by] /\ e.gen = l[e.by] /\ e.piece \notin u[e.by]
LEMMA AddedList ==
  ASSUME NEW w, NEW l, NEW u \in [Plugin -> SUBSET Piece], NEW e \in Entry, Apart(w),
         l[e.by] \in Nat, Fresh(e, w, l, u), NEW es \in Seq(Entry), ListInv(es, w, l, u)
  PROVE  LET u2 == [u EXCEPT ![e.by] = @ \cup {e.piece}]
         IN ListInv(Append(es, e), w, l, u2) /\ ListInv(es, w, l, u2) /\ ~Gone(e, w, l)
            /\ Keeps(w, l, u, w, l, u2)
<1> DEFINE u2 == [u EXCEPT ![e.by] = @ \cup {e.piece}]
           es2 == Append(es, e)
<1>1. e.by \in Plugin /\ e.piece \in Piece
  BY EntryAddress
<1>2. /\ \A p \in Plugin : u[p] \subseteq u2[p]
      /\ e.piece \in u2[e.by]
  BY <1>1
<1>3. Keeps(w, l, u, w, l, u2)
  BY <1>2, KeepsStay
<1>4. ListInv(es, w, l, u2)
  BY <1>3, KeptList
<1>5. ~Gone(e, w, l) /\ Recorded(e, w, l, u2)
  <2>1. ~Gone(e, w, l)
    BY DEF Gone, Fresh
  <2>2. e.by = Dev => e.gen <= l[Dev]
    BY DEF Fresh
  <2> QED BY <1>2, <2>1, <2>2 DEF Recorded, Fresh
<1>6. /\ Len(es) \in Nat /\ DOMAIN es = 1..Len(es) /\ DOMAIN es2 = 1..Len(es) + 1
      /\ \A i \in 1..Len(es) : es2[i] = es[i] /\ es[i] \in Entry
      /\ es2[Len(es) + 1] = e
  BY SeqEntry
<1>7. \A i \in DOMAIN es2 : (i \in 1..Len(es) /\ es2[i] = es[i] /\ es[i] \in Entry)
                              \/ (i = Len(es) + 1 /\ es2[i] = e)
  BY <1>6
<1> HIDE DEF es2, u2
<1>8. \A i \in DOMAIN es2 : Recorded(es2[i], w, l, u2)
  BY <1>4, <1>5, <1>6, <1>7 DEF ListInv
<1>9. ASSUME NEW i \in 1..Len(es), ~Gone(es[i], w, l), es[i].piece = e.piece, es[i].at = e.at
      PROVE  FALSE
  <2>1. Recorded(es[i], w, l, u) /\ es[i].by \in Plugin
    BY <1>6, EntryAddress DEF ListInv
  <2>2. w[es[i].by] = w[e.by] /\ e.piece \in u[es[i].by]
    BY <1>9, <2>1 DEF Recorded, Fresh
  <2>3. es[i].by = e.by
    BY <1>1, <2>1, <2>2 DEF Apart, Fresh, Image
  <2> QED BY <2>2, <2>3 DEF Fresh
<1>10. OnePerPiece(es2, w, l)
  <2> SUFFICES ASSUME NEW i \in DOMAIN es2, NEW j \in DOMAIN es2,
                      ~Gone(es2[i], w, l), ~Gone(es2[j], w, l),
                      es2[i].piece = es2[j].piece, es2[i].at = es2[j].at
               PROVE  i = j
    BY DEF OnePerPiece
  <2>1. CASE i \in 1..Len(es) /\ j \in 1..Len(es)
    <3>1. es2[i] = es[i] /\ es2[j] = es[j]
      BY <1>6, <2>1
    <3> QED BY <1>6, <2>1, <3>1 DEF ListInv, OnePerPiece
  <2>2. CASE i = Len(es) + 1 /\ j \in 1..Len(es)
    BY <1>6, <1>9, <2>2
  <2>3. CASE j = Len(es) + 1 /\ i \in 1..Len(es)
    BY <1>6, <1>9, <2>3
  <2> QED BY <1>7, <2>1, <2>2, <2>3
<1> QED BY <1>3, <1>4, <1>5, <1>8, <1>10 DEF ListInv, es2, u2

-----------------------------------------------------------------------------
(* The base invariant: types, memory, entries.                             *)

LEMMA NewEntryIs ==
  ASSUME TypeInv, NEW p \in Plugin, NEW x \in Piece, where[p] # Null
  PROVE  /\ NewEntry(p, x) \in Entry
         /\ NewEntry(p, x).piece = x /\ NewEntry(p, x).at = where[p]
         /\ NewEntry(p, x).by = p /\ NewEntry(p, x).gen = loads[p]
<1>1. where[p] \in Slot /\ loads[p] \in Nat
  BY DEF TypeInv, Image
<1> QED BY <1>1 DEF NewEntry, Entry

LEMMA RegisteredEntries ==
  ASSUME BaseInv, NEW p \in Plugin, NEW x \in Piece, MayUse(p, x), Register(p, x)
  PROVE  /\ used' \in [Plugin -> SUBSET Piece] /\ NewEntry(p, x) \in Entry
         /\ where[p] \in Slot /\ state = "running"
         /\ ~Gone(NewEntry(p, x), where, loads)
         /\ Keeps(where, loads, used, where, loads, used')
         /\ \A es \in Seq(Entry) : ListInv(es, where, loads, used) =>
              /\ ListInv(es, where, loads, used')
              /\ ListInv(Append(es, NewEntry(p, x)), where, loads, used')
<1> DEFINE e == NewEntry(p, x)
<1>1. /\ where[p] # Null /\ x \in Uses[p] \ used[p] /\ used \in [Plugin -> SUBSET Piece]
      /\ state = "running" /\ loads[p] \in Nat /\ Apart(where)
  BY DEF MayUse, BaseInv, TypeInv, MemoryInv, Image
<1>2. e \in Entry /\ e.piece = x /\ e.at = where[p] /\ e.by = p /\ e.gen = loads[p]
  BY <1>1, NewEntryIs DEF BaseInv
<1>3. where[p] \in Slot
  BY <1>1 DEF BaseInv, TypeInv, Image
<1> HIDE DEF e
<1>4. Fresh(e, where, loads, used)
  BY <1>1, <1>2 DEF Fresh
<1>5. used' = [used EXCEPT ![e.by] = @ \cup {e.piece}]
  BY <1>2 DEF Register
<1>6. \A es \in Seq(Entry) : ListInv(es, where, loads, used) =>
        /\ ListInv(es, where, loads, used') /\ ListInv(Append(es, e), where, loads, used')
  BY <1>1, <1>2, <1>4, <1>5, AddedList
<1>7. ~Gone(e, where, loads)
  BY <1>1, <1>2 DEF Gone
<1>8. Keeps(where, loads, used, where, loads, used')
  <2>1. \A q \in Plugin : used[q] \subseteq used'[q]
    BY <1>1, <1>5
  <2> QED BY <2>1, KeepsStay
<1>9. used' \in [Plugin -> SUBSET Piece]
  BY <1>1, <1>2, <1>5
<1> QED BY <1>1, <1>2, <1>3, <1>6, <1>7, <1>8, <1>9 DEF e

\* The lists after a step that changes none of them.
SameLists == UNCHANGED <<hooks, patched, frames>>
LEMMA EntriesKept ==
  ASSUME TypeInv, EntriesInv, SameLists, Keeps(where, loads, used, where', loads', used')
  PROVE  EntriesInv'
<1>1. \A es \in Seq(Entry) : ListInv(es, where, loads, used) => ListInv(es, where', loads', used')
  BY KeptList
<1>2. \A m \in Module : hooks[m] \in Seq(Entry) /\ patched[m] \in Seq(Entry)
  BY DEF TypeInv
<1>3. \A l \in FrameList : frames[l] \in Seq(Entry)
  BY DEF TypeInv
<1> QED BY <1>1, <1>2, <1>3 DEF EntriesInv, SameLists

LEMMA ReplaceSymbolBase ==
  ASSUME BaseInv, NEW p \in Plugin, NEW x \in Piece, ReplaceSymbol(p, x), UNCHANGED frameVars
  PROVE  BaseInv'
<1> DEFINE e == NewEntry(p, x)
           t == Target[x].module
<1>1. /\ MayUse(p, x) /\ Register(p, x) /\ x \in SymbolPiece /\ t \notin StaticModule
      /\ hooks' = [hooks EXCEPT ![t] = Append(@, e)]
      /\ UNCHANGED <<where, loads, value, orig, patched, state, frames, control, seen>>
  BY DEF ReplaceSymbol, frameVars
<1>2. t \in Module
  BY <1>1, HooksAssumption
<1>3. /\ used' \in [Plugin -> SUBSET Piece] /\ e \in Entry
      /\ \A es \in Seq(Entry) : ListInv(es, where, loads, used) =>
           ListInv(es, where, loads, used') /\ ListInv(Append(es, e), where, loads, used')
  BY <1>1, RegisteredEntries
<1>4. /\ hooks \in [Module -> Seq(Entry)] /\ patched \in [Module -> Seq(Entry)]
      /\ frames \in [FrameList -> Seq(Entry)]
  BY DEF BaseInv, TypeInv
<1>5. e.piece = x
  BY DEF NewEntry
<1> HIDE DEF e, t
<1>6. hooks' \in [Module -> Seq(Entry)]
  BY <1>1, <1>2, <1>3, <1>4
<1>7. TypeInv'
  BY <1>1, <1>3, <1>6 DEF BaseInv, TypeInv
<1>8. MemoryInv'
  BY <1>1 DEF BaseInv, MemoryInv
<1>9. ASSUME NEW m \in Module
      PROVE  /\ ListInv(hooks'[m], where, loads, used') /\ HooksOf(m, hooks'[m])
             /\ m \in StaticModule => hooks'[m] = <<>>
  <2>1. hooks[m] \in Seq(Entry) /\ ListInv(hooks[m], where, loads, used) /\ HooksOf(m, hooks[m])
        /\ (m \in StaticModule => hooks[m] = <<>>)
    BY <1>4 DEF BaseInv, EntriesInv
  <2>2. CASE m # t
    BY <1>1, <1>3, <1>4, <2>1, <2>2
  <2>3. CASE m = t
    <3>1. hooks'[m] = Append(hooks[m], e)
      BY <1>1, <1>2, <1>4, <2>3
    <3>2. HooksOf(m, Append(hooks[m], e))
      <4>1. \A es \in Seq(Entry) : \A i \in DOMAIN Append(es, e) :
              (i \in DOMAIN es /\ Append(es, e)[i] = es[i]) \/ Append(es, e)[i] = e
        BY <1>3
      <4> QED BY <1>1, <1>5, <2>1, <2>3, <4>1 DEF HooksOf, t
    <3> QED BY <1>1, <1>3, <2>1, <2>3, <3>1, <3>2
  <2> QED BY <2>2, <2>3
<1>10. EntriesInv'
  <2>1. \A m \in Module : ListInv(patched[m], where, loads, used') /\ HooksOf(m, patched[m])
    BY <1>3, <1>4 DEF BaseInv, EntriesInv
  <2>2. \A l \in FrameList : ListInv(frames[l], where, loads, used') /\ FramesOf(l, frames[l])
    BY <1>3, <1>4 DEF BaseInv, EntriesInv
  <2> QED BY <1>1, <1>9, <2>1, <2>2 DEF EntriesInv
<1> QED BY <1>7, <1>8, <1>10 DEF BaseInv

LEMMA ReplaceFrameBase ==
  ASSUME BaseInv, NEW p \in Plugin, NEW x \in Piece, ReplaceFrame(p, x)
  PROVE  BaseInv'
<1> DEFINE e == NewEntry(p, x)
           t == Frame[x].list
<1>1. /\ MayUse(p, x) /\ Register(p, x) /\ x \in FramePiece
      /\ frames' = [frames EXCEPT ![t] = Append(@, e)]
      /\ UNCHANGED <<where, loads, value, orig, hooks, patched, state, control, seen>>
  BY DEF ReplaceFrame
<1>2. t \in FrameList
  BY <1>1, FramesAssumption
<1>3. /\ used' \in [Plugin -> SUBSET Piece] /\ e \in Entry
      /\ \A es \in Seq(Entry) : ListInv(es, where, loads, used) =>
           ListInv(es, where, loads, used') /\ ListInv(Append(es, e), where, loads, used')
  BY <1>1, RegisteredEntries
<1>4. /\ hooks \in [Module -> Seq(Entry)] /\ patched \in [Module -> Seq(Entry)]
      /\ frames \in [FrameList -> Seq(Entry)]
  BY DEF BaseInv, TypeInv
<1>5. e.piece = x
  BY DEF NewEntry
<1> HIDE DEF e, t
<1>6. frames' \in [FrameList -> Seq(Entry)]
  BY <1>1, <1>2, <1>3, <1>4
<1>7. TypeInv'
  BY <1>1, <1>3, <1>6 DEF BaseInv, TypeInv
<1>8. MemoryInv'
  BY <1>1 DEF BaseInv, MemoryInv
<1>9. ASSUME NEW l \in FrameList
      PROVE  ListInv(frames'[l], where, loads, used') /\ FramesOf(l, frames'[l])
  <2>1. frames[l] \in Seq(Entry) /\ ListInv(frames[l], where, loads, used) /\ FramesOf(l, frames[l])
    BY <1>4 DEF BaseInv, EntriesInv
  <2>2. CASE l # t
    BY <1>1, <1>3, <1>4, <2>1, <2>2
  <2>3. CASE l = t
    <3>1. frames'[l] = Append(frames[l], e)
      BY <1>1, <1>2, <1>4, <2>3
    <3>2. FramesOf(l, Append(frames[l], e))
      <4>1. \A es \in Seq(Entry) : \A i \in DOMAIN Append(es, e) :
              (i \in DOMAIN es /\ Append(es, e)[i] = es[i]) \/ Append(es, e)[i] = e
        BY <1>3
      <4> QED BY <1>1, <1>5, <2>1, <2>3, <4>1 DEF FramesOf, t
    <3> QED BY <1>3, <2>1, <3>1, <3>2
  <2> QED BY <2>2, <2>3
<1>10. EntriesInv'
  <2>1. \A m \in Module : /\ ListInv(hooks[m], where, loads, used') /\ HooksOf(m, hooks[m])
                          /\ ListInv(patched[m], where, loads, used') /\ HooksOf(m, patched[m])
                          /\ m \in StaticModule => hooks[m] = <<>>
    BY <1>3, <1>4 DEF BaseInv, EntriesInv
  <2> QED BY <1>1, <1>9, <2>1 DEF EntriesInv
<1> QED BY <1>7, <1>8, <1>10 DEF BaseInv

LEMMA Membership == /\ Dev \in Plugin /\ Dev \in Image /\ Dev \notin Staying /\ Dev \notin Module
                    /\ \A m \in Module : m \in Image /\ m \notin Plugin
                    /\ \A m \in Module : m \in Staying <=> m \in StaticModule
                    /\ StaticModule \subseteq Module
                    /\ \A p \in Plugin : p \in Image /\ (p = Dev \/ p \in Staying)
                    /\ \A i \in Staying : i \in Image /\ Home[i] \in Slot
BY HooksAssumption DEF Image, Staying

LEMMA FreeIs ==
  ASSUME TypeInv, NEW k \in Slot, Free(k)
  PROVE  \A i \in Image : where[i] # k
BY DEF Free, ImageAt

\* One image comes or goes.
LEMMA MovedMemory ==
  ASSUME TypeInv, MemoryInv, NEW i \in Image, i \notin Staying, NEW k \in Slot \cup {Null},
         k = Null \/ Free(k), where' = [where EXCEPT ![i] = k]
  PROVE  where' \in [Image -> Slot \cup {Null}] /\ MemoryInv'
<1>1. where \in [Image -> Slot \cup {Null}] /\ Apart(where)
  BY DEF TypeInv, MemoryInv
<1>2. k = Null \/ \A j \in Image : where[j] # k
  BY FreeIs
<1>3. /\ where'[i] = k /\ \A j \in Image : j # i => where'[j] = where[j]
      /\ where' \in [Image -> Slot \cup {Null}]
  BY <1>1
<1>4. Apart(where')
  BY <1>1, <1>2, <1>3 DEF Apart
<1>5. \A j \in Staying : where'[j] = Home[j]
  BY <1>3, Membership DEF MemoryInv
<1> QED BY <1>3, <1>4, <1>5 DEF MemoryInv

LEMMA LoadDevBase ==
  ASSUME BaseInv, NEW k \in Slot, LoadDev(k), UNCHANGED frameVars
  PROVE  BaseInv' /\ Keeps(where, loads, used, where', loads', used')
<1>1. /\ where[Dev] = Null /\ Free(k) /\ loads[Dev] < MaxLoads[Dev]
      /\ where' = [where EXCEPT ![Dev] = k] /\ loads' = [loads EXCEPT ![Dev] = @ + 1]
      /\ orig' = [orig EXCEPT ![k] = [x \in Piece |-> 0]]
      /\ UNCHANGED <<value, hooks, used, patched, state, frames, control, seen>>
  BY DEF LoadDev, frameVars
<1>2. TypeInv /\ MemoryInv /\ EntriesInv
  BY DEF BaseInv
<1>3. where' \in [Image -> Slot \cup {Null}] /\ MemoryInv'
  BY <1>1, <1>2, Membership, MovedMemory
<1>4. loads' \in [Image -> Nat] /\ \A i \in Image : loads'[i] <= MaxLoads[i]
  <2>1. MaxLoads[Dev] \in Nat /\ loads \in [Image -> Nat] /\ \A i \in Image : loads[i] <= MaxLoads[i]
    BY <1>2, Membership, HooksAssumption DEF TypeInv
  <2> QED BY <1>1, <2>1, Membership
<1>5. orig' \in [Slot -> [Piece -> Address0]]
  <2>1. [x \in Piece |-> 0] \in [Piece -> Address0]
    BY Sizes DEF Address0
  <2> QED BY <1>1, <1>2, <2>1 DEF TypeInv
<1>6. TypeInv'
  BY <1>1, <1>2, <1>3, <1>4, <1>5 DEF TypeInv
<1>7. Keeps(where, loads, used, where', loads', used')
  <2>1. \A p \in Plugin \ {Dev} : where'[p] = where[p]
    BY <1>1, <1>2, Membership DEF TypeInv
  <2>2. loads[Dev] \in Nat /\ loads'[Dev] = loads[Dev] + 1
    BY <1>1, <1>2, Membership DEF TypeInv
  <2> QED BY <1>1, <2>1, <2>2, KeepsLoad
<1>8. EntriesInv'
  BY <1>1, <1>2, <1>7, EntriesKept DEF SameLists
<1> QED BY <1>3, <1>6, <1>7, <1>8 DEF BaseInv

LEMMA UnloadDevBase ==
  ASSUME BaseInv, UnloadDev, UNCHANGED frameVars
  PROVE  BaseInv' /\ Keeps(where, loads, used, where', loads', used')
<1>1. /\ where' = [where EXCEPT ![Dev] = Null] /\ used' = [used EXCEPT ![Dev] = {}]
      /\ UNCHANGED <<loads, value, orig, hooks, patched, state, frames, control, seen>>
  BY DEF UnloadDev, frameVars
<1>2. TypeInv /\ MemoryInv /\ EntriesInv
  BY DEF BaseInv
<1>3. where' \in [Image -> Slot \cup {Null}] /\ MemoryInv'
  BY <1>1, <1>2, Membership, MovedMemory
<1>4. used' \in [Plugin -> SUBSET Piece]
  BY <1>1, <1>2 DEF TypeInv
<1>5. TypeInv'
  BY <1>1, <1>2, <1>3, <1>4 DEF TypeInv
<1>6. Keeps(where, loads, used, where', loads', used')
  <2>1. \A p \in Plugin \ {Dev} : where'[p] = where[p] /\ used'[p] = used[p]
    BY <1>1, <1>2, Membership DEF TypeInv
  <2>2. where'[Dev] = Null
    BY <1>1, <1>2, Membership DEF TypeInv
  <2> QED BY <1>1, <2>1, <2>2, KeepsUnload
<1>7. EntriesInv'
  BY <1>1, <1>2, <1>6, EntriesKept DEF SameLists
<1> QED BY <1>3, <1>5, <1>6, <1>7 DEF BaseInv

\* The image of a module after all its hooks are applied, or nulled.
LEMMA LoadResult ==
  ASSUME BaseInv, NEW m \in Module, NEW k \in Slot, LoadModule(m, k)
  PROVE  LET n  == Len(hooks[m])
             f  == Patching(m, k)
         IN /\ n \in Nat /\ hooks[m] \in Seq(Entry) /\ f \in [0..n -> PatchIm(m)]
            /\ f[0] = [value |-> LinkedValue(m), orig |-> orig, state |-> "running"]
            /\ \A j \in 1..n : f[j] = LazySymbolReplace(f[j - 1], m, k * SlotSize, hooks[m][j])
            /\ value' = [value EXCEPT ![m] = f[n].value] /\ orig' = f[n].orig
            /\ state' = f[n].state /\ k * SlotSize \in Address0
            /\ m \notin StaticModule /\ state = "running"
<1>1. TypeInv /\ HooksOf(m, hooks[m]) /\ hooks[m] \in Seq(Entry)
  BY DEF BaseInv, EntriesInv, TypeInv
<1>2. Len(hooks[m]) \in Nat
  BY <1>1, SeqEntry
<1>3. k * SlotSize \in Address0
  <2>1. 0 \in 0..SlotSize - 1
    BY Sizes
  <2> QED BY <2>1, AddressOf
<1>4. m \notin StaticModule
  <2>1. where[m] = Null
    BY DEF LoadModule
  <2>2. Null \notin Slot
    BY Sizes
  <2> QED BY <2>1, <2>2, Membership DEF BaseInv, MemoryInv
<1> QED BY <1>1, <1>2, <1>3, <1>4, PatchingIs DEF LoadModule

LEMMA LoadModuleBase ==
  ASSUME BaseInv, NEW m \in Module, NEW k \in Slot, LoadModule(m, k), UNCHANGED frameVars
  PROVE  BaseInv' /\ Keeps(where, loads, used, where', loads', used')
<1> DEFINE n == Len(hooks[m])
           im == Patching(m, k)[n]
<1>1. /\ where[m] = Null /\ Free(k) /\ loads[m] < MaxLoads[m]
      /\ where' = [where EXCEPT ![m] = k] /\ loads' = [loads EXCEPT ![m] = @ + 1]
      /\ patched' = [patched EXCEPT ![m] = hooks[m]]
      /\ UNCHANGED <<hooks, used, frames, control, seen>>
  BY DEF LoadModule, frameVars
<1>2. TypeInv /\ MemoryInv /\ EntriesInv
  BY DEF BaseInv
<1>3. m \in Image /\ m \notin Staying
  BY LoadResult, Membership
<1>4. where' \in [Image -> Slot \cup {Null}] /\ MemoryInv'
  BY <1>1, <1>2, <1>3, MovedMemory
<1>5. loads' \in [Image -> Nat] /\ \A i \in Image : loads'[i] <= MaxLoads[i]
  <2>1. MaxLoads[m] \in Nat /\ loads \in [Image -> Nat] /\ \A i \in Image : loads[i] <= MaxLoads[i]
    BY <1>2, <1>3, HooksAssumption DEF TypeInv
  <2> QED BY <1>1, <1>3, <2>1
<1>6. im \in PatchIm(m) /\ value' = [value EXCEPT ![m] = im.value] /\ orig' = im.orig /\ state' = im.state
  <2>1. n \in Nat /\ Patching(m, k) \in [0..n -> PatchIm(m)]
    BY LoadResult
  <2>2. n \in 0..n
    BY <2>1
  <2>3. im \in PatchIm(m)
    BY <2>1, <2>2
  <2> QED BY <2>3, LoadResult
<1> HIDE DEF im
<1>7. value' = [j \in Module |-> value'[j]] /\ \A j \in Module : value'[j] \in [Symbols(j) -> Address0]
  <2>1. im.value \in [Symbols(m) -> Address0]
    BY <1>6 DEF PatchIm
  <2>2. value = [j \in Module |-> value[j]] /\ \A j \in Module : value[j] \in [Symbols(j) -> Address0]
    BY <1>2 DEF TypeInv
  <2>3. \A j \in Module : value'[j] = IF j = m THEN im.value ELSE value[j]
    BY <1>6, <2>2
  <2>4. value' = [j \in Module |-> value'[j]]
    BY <1>6, <2>2
  <2> QED BY <2>1, <2>2, <2>3, <2>4
<1>8. orig' \in [Slot -> [Piece -> Address0]] /\ state' \in {"running", "panicked", "faulted"}
  BY <1>6 DEF PatchIm, Originals, States
<1>9. patched' \in [Module -> Seq(Entry)]
  BY <1>1, <1>2 DEF TypeInv
<1>10. TypeInv'
  BY <1>1, <1>2, <1>4, <1>5, <1>7, <1>8, <1>9 DEF TypeInv
<1>11. Keeps(where, loads, used, where', loads', used')
  <2>1. \A p \in Plugin : where'[p] = where[p]
    BY <1>1, <1>2, Membership DEF TypeInv
  <2>2. loads'[Dev] = loads[Dev]
    BY <1>1, <1>2, Membership DEF TypeInv
  <2> QED BY <1>1, <2>1, <2>2, KeepsStay
<1>12. \A es \in Seq(Entry) : ListInv(es, where, loads, used) => ListInv(es, where', loads', used')
  BY <1>11, KeptList
<1>13. EntriesInv'
  <2>1. \A j \in Module : hooks[j] \in Seq(Entry) /\ patched[j] \in Seq(Entry)
    BY <1>2 DEF TypeInv
  <2>2. \A l \in FrameList : frames[l] \in Seq(Entry)
    BY <1>2 DEF TypeInv
  <2>3. \A j \in Module : patched'[j] = IF j = m THEN hooks[m] ELSE patched[j]
    BY <1>1, <1>2 DEF TypeInv
  <2>4. \A j \in Module : ListInv(patched'[j], where', loads', used') /\ HooksOf(j, patched'[j])
    BY <1>2, <1>12, <2>1, <2>3 DEF EntriesInv
  <2>5. \A j \in Module : /\ ListInv(hooks'[j], where', loads', used') /\ HooksOf(j, hooks'[j])
                          /\ j \in StaticModule => hooks'[j] = <<>>
    BY <1>1, <1>2, <1>12, <2>1 DEF EntriesInv
  <2>6. \A l \in FrameList : ListInv(frames'[l], where', loads', used') /\ FramesOf(l, frames'[l])
    BY <1>1, <1>2, <1>12, <2>2 DEF EntriesInv
  <2> QED BY <2>4, <2>5, <2>6 DEF EntriesInv
<1> QED BY <1>4, <1>10, <1>11, <1>13 DEF BaseInv

LEMMA UnloadModuleBase ==
  ASSUME BaseInv, NEW m \in Module, UnloadModule(m), UNCHANGED frameVars
  PROVE  BaseInv' /\ Keeps(where, loads, used, where', loads', used')
<1> DEFINE im == Nulling(m)[Len(hooks[m])]
<1>1. /\ m \notin StaticModule /\ where' = [where EXCEPT ![m] = Null]
      /\ value' = [value EXCEPT ![m] = LinkedValue(m)] /\ patched' = [patched EXCEPT ![m] = <<>>]
      /\ orig' = im.orig /\ state' = im.state
      /\ UNCHANGED <<loads, hooks, used, frames, control, seen>>
  BY DEF UnloadModule, frameVars
<1>2. TypeInv /\ MemoryInv /\ EntriesInv
  BY DEF BaseInv
<1>3. m \in Image /\ m \notin Staying
  BY <1>1, Membership
<1>4. where' \in [Image -> Slot \cup {Null}] /\ MemoryInv'
  BY <1>1, <1>2, <1>3, MovedMemory
<1>5. im \in NullIm
  <2>1. hooks[m] \in Seq(Entry)
    BY <1>2 DEF TypeInv
  <2>2. Len(hooks[m]) \in 0..Len(hooks[m])
    BY <2>1, SeqEntry
  <2> QED BY <1>2, <2>2, NullingIs
<1> HIDE DEF im
<1>6. value' = [j \in Module |-> value'[j]] /\ \A j \in Module : value'[j] \in [Symbols(j) -> Address0]
  <2>1. LinkedValue(m) \in [Symbols(m) -> Address0]
    BY LinkedIs
  <2>2. value = [j \in Module |-> value[j]] /\ \A j \in Module : value[j] \in [Symbols(j) -> Address0]
    BY <1>2 DEF TypeInv
  <2>3. \A j \in Module : value'[j] = IF j = m THEN LinkedValue(m) ELSE value[j]
    BY <1>1, <2>2
  <2>4. value' = [j \in Module |-> value'[j]]
    BY <1>1, <2>2
  <2> QED BY <2>1, <2>2, <2>3, <2>4
<1>7. orig' \in [Slot -> [Piece -> Address0]] /\ state' \in {"running", "panicked", "faulted"}
  BY <1>1, <1>5 DEF NullIm, Originals, States
<1>8. patched' \in [Module -> Seq(Entry)]
  BY <1>1, <1>2 DEF TypeInv
<1>9. TypeInv'
  BY <1>1, <1>2, <1>4, <1>6, <1>7, <1>8 DEF TypeInv
<1>10. Keeps(where, loads, used, where', loads', used')
  <2>1. \A p \in Plugin : where'[p] = where[p]
    BY <1>1, <1>2, Membership DEF TypeInv
  <2> QED BY <1>1, <2>1, KeepsStay
<1>11. \A es \in Seq(Entry) : ListInv(es, where, loads, used) => ListInv(es, where', loads', used')
  BY <1>10, KeptList
<1>12. EntriesInv'
  <2>1. \A j \in Module : hooks[j] \in Seq(Entry) /\ patched[j] \in Seq(Entry)
    BY <1>2 DEF TypeInv
  <2>2. \A l \in FrameList : frames[l] \in Seq(Entry)
    BY <1>2 DEF TypeInv
  <2>3. \A j \in Module : patched'[j] = IF j = m THEN <<>> ELSE patched[j]
    BY <1>1, <1>2 DEF TypeInv
  <2>4. ListInv(<<>>, where', loads', used') /\ HooksOf(m, <<>>)
    BY DEF ListInv, OnePerPiece, HooksOf
  <2>5. \A j \in Module : ListInv(patched'[j], where', loads', used') /\ HooksOf(j, patched'[j])
    BY <1>2, <1>11, <2>1, <2>3, <2>4 DEF EntriesInv
  <2>6. \A j \in Module : /\ ListInv(hooks'[j], where', loads', used') /\ HooksOf(j, hooks'[j])
                          /\ j \in StaticModule => hooks'[j] = <<>>
    BY <1>1, <1>2, <1>11, <2>1 DEF EntriesInv
  <2>7. \A l \in FrameList : ListInv(frames'[l], where', loads', used') /\ FramesOf(l, frames'[l])
    BY <1>1, <1>2, <1>11, <2>2 DEF EntriesInv
  <2> QED BY <2>5, <2>6, <2>7 DEF EntriesInv
<1> QED BY <1>4, <1>9, <1>10, <1>12 DEF BaseInv

LEMMA FrameSymbolIs ==
  ASSUME NEW l \in FrameList
  PROVE  /\ CommonModule \in Module /\ CommonModule \notin StaticModule
         /\ FrameSymbol(l) \in Defined(CommonModule) /\ FrameSymbol(l) \in Symbols(CommonModule)
<1>1. CommonModule \in Module \ StaticModule /\ IndexOf(CommonModule, Control[l]) # {}
  BY FramesAssumption
<1>2. FrameSymbol(l) \in IndexOf(CommonModule, Control[l])
  BY <1>1 DEF FrameSymbol
<1> QED BY <1>1, <1>2 DEF IndexOf, Providers, Provides, Defined, Symbols

LEMMA NativeType ==
  ASSUME TypeInv, where[CommonModule] # Null, NEW l \in FrameList
  PROVE  Native(l, value, where) \in Address0
<1>1. where[CommonModule] \in Slot
  BY FrameSymbolIs, Membership DEF TypeInv
<1>2. value[CommonModule][FrameSymbol(l)] \in Address0
  BY FrameSymbolIs DEF TypeInv
<1>3. where[CommonModule] * SlotSize \in Address0
  <2>1. 0 \in 0..SlotSize - 1
    BY Sizes
  <2> QED BY <1>1, <2>1, AddressOf
<1> QED BY <1>2, <1>3, Wrapping DEF Native

LEMMA InitResult ==
  ASSUME BaseInv, NEW a \in Agent, NEW l \in FrameList, SysLineInit(a, l)
  PROVE  LET n == Len(frames[l])
             f == Chaining(a, l)
         IN /\ n \in Nat /\ frames[l] \in Seq(Entry) /\ f \in [0..n -> ControlIm]
            /\ f[n] \in ControlIm
            /\ f[0] = [control |-> Native(l, value, where), orig |-> orig, state |-> "running"]
            /\ \A j \in 1..n : f[j] = Chained(f[j - 1], frames[l][j], a)
            /\ control' = [control EXCEPT ![a][l] = f[n].control] /\ orig' = f[n].orig
            /\ state' = IF f[n].state = "running" /\ ~IsCode(f[n].control)
                        THEN "faulted" ELSE f[n].state
            /\ seen' = [seen EXCEPT ![a][l] = n] /\ state = "running"
            /\ where[CommonModule] # Null /\ l \in ListsOf(a) /\ control[a][l] = Null
            /\ UNCHANGED <<where, loads, value, hooks, used, patched, frames>>
<1>1. TypeInv /\ frames[l] \in Seq(Entry)
  BY DEF BaseInv, TypeInv
<1>2. Len(frames[l]) \in Nat
  BY <1>1, SeqEntry
<1>3. Native(l, value, where) \in Address0
  BY <1>1, NativeType DEF SysLineInit
<1>4. /\ Chaining(a, l) \in [0..Len(frames[l]) -> ControlIm]
      /\ Chaining(a, l)[0] = [control |-> Native(l, value, where), orig |-> orig, state |-> "running"]
      /\ \A j \in 1..Len(frames[l]) :
           Chaining(a, l)[j] = Chained(Chaining(a, l)[j - 1], frames[l][j], a)
  BY <1>1, <1>3, ChainingIs
<1>5. Len(frames[l]) \in 0..Len(frames[l])
  BY <1>2
<1>6. Chaining(a, l)[Len(frames[l])] \in ControlIm
  BY <1>4, <1>5
<1> QED BY <1>1, <1>2, <1>4, <1>6 DEF SysLineInit

LEMMA SysLineInitBase ==
  ASSUME BaseInv, NEW a \in Agent, NEW l \in FrameList, SysLineInit(a, l)
  PROVE  BaseInv' /\ Keeps(where, loads, used, where', loads', used')
<1> DEFINE im == Chaining(a, l)[Len(frames[l])]
<1>1. /\ im \in ControlIm /\ orig' = im.orig /\ control' = [control EXCEPT ![a][l] = im.control]
      /\ state' = IF im.state = "running" /\ ~IsCode(im.control) THEN "faulted" ELSE im.state
      /\ seen' = [seen EXCEPT ![a][l] = Len(frames[l])] /\ Len(frames[l]) \in Nat
      /\ UNCHANGED <<where, loads, value, hooks, used, patched, frames>>
  BY InitResult
<1> HIDE DEF im
<1>2. TypeInv /\ MemoryInv /\ EntriesInv
  BY DEF BaseInv
<1>3. orig' \in [Slot -> [Piece -> Address0]] /\ state' \in {"running", "panicked", "faulted"}
      /\ im.control \in Address0 \cup {Null}
  BY <1>1 DEF ControlIm, Originals, States
<1>4. control' \in [Agent -> [FrameList -> Address0 \cup {Null}]]
  BY <1>1, <1>2, <1>3 DEF TypeInv
<1>5. seen' \in [Agent -> [FrameList -> Nat]]
  BY <1>1, <1>2 DEF TypeInv
<1>6. TypeInv'
  BY <1>1, <1>2, <1>3, <1>4, <1>5 DEF TypeInv
<1>7. MemoryInv'
  BY <1>1, <1>2 DEF MemoryInv
<1>8. Keeps(where, loads, used, where', loads', used')
  BY <1>1, KeepsStay
<1>9. EntriesInv'
  BY <1>1, <1>2, <1>8, EntriesKept DEF SameLists
<1> QED BY <1>6, <1>7, <1>8, <1>9 DEF BaseInv

LEMMA AgentGoneBase ==
  ASSUME BaseInv, NEW a \in Agent, AgentGone(a)
  PROVE  BaseInv' /\ Keeps(where, loads, used, where', loads', used')
<1>1. /\ control' = [control EXCEPT ![a] = [l \in FrameList |-> Null]]
      /\ seen' = [seen EXCEPT ![a] = [l \in FrameList |-> 0]]
      /\ UNCHANGED <<where, loads, value, orig, hooks, used, patched, state, frames>>
  BY DEF AgentGone, NoAgents, hookVars
<1>2. TypeInv /\ MemoryInv /\ EntriesInv
  BY DEF BaseInv
<1>3. control' \in [Agent -> [FrameList -> Address0 \cup {Null}]] /\ seen' \in [Agent -> [FrameList -> Nat]]
  <2>1. [l \in FrameList |-> Null] \in [FrameList -> Address0 \cup {Null}]
        /\ [l \in FrameList |-> 0] \in [FrameList -> Nat]
    OBVIOUS
  <2> QED BY <1>1, <1>2, <2>1 DEF TypeInv
<1>4. TypeInv'
  BY <1>1, <1>2, <1>3 DEF TypeInv
<1>5. MemoryInv'
  BY <1>1, <1>2 DEF MemoryInv
<1>6. Keeps(where, loads, used, where', loads', used')
  BY <1>1, KeepsStay
<1>7. EntriesInv'
  BY <1>1, <1>2, <1>6, EntriesKept DEF SameLists
<1> QED BY <1>4, <1>5, <1>6, <1>7 DEF BaseInv

-----------------------------------------------------------------------------
(* replace_static_symbol.                                                  *)

\* The symbol that is replaced, if one is.
Sought(o, p, x, address, byName) ==
  IF byName THEN Providers(Table[o], Target[x].name)
  ELSE Valued(o, value[o], Difference(address, Base(o)))
Lookup(o, p, x, address, byName) ==
  IF byName THEN GetSymbolByName(Table[o], Target[x].name)
  ELSE GetSymbolByValue(Table[o], value[o], Difference(address, Base(o)))

StaticImage(o) == [value |-> value[o], orig |-> orig, state |-> "running"]
StaticPatch(o, im, p, x, address, byName) ==
  LET i == Lookup(o, p, x, address, byName)
  IN /\ where[o] = address \div SlotSize /\ where[o] # Null /\ Base(o) \in Address0
     /\ StaticImage(o) \in PatchIm(o)
     /\ state' = im.state /\ orig' = im.orig /\ value' = [value EXCEPT ![o] = im.value]
     /\ \/ im.state = "panicked" /\ im.value = value[o] /\ im.orig = orig
        \/ i = 0 /\ im = StaticImage(o)
        \/ /\ i \in Sought(o, p, x, address, byName) /\ i \in Symbols(o)
           /\ Replaces(o, Base(o), i, NewEntry(p, x), StaticImage(o), im)

LEMMA StaticResult ==
  ASSUME BaseInv, NEW p \in Plugin, NEW x \in SymbolPiece, NEW address \in Address0,
         NEW byName \in BOOLEAN, MayUse(p, x), ReplaceStaticSymbol(p, x, address, byName)
  PROVE  /\ patched' = [patched EXCEPT ![Target[x].module]
                          = FirstPatch(Target[x].module, NewEntry(p, x))]
         /\ Register(p, x) /\ UNCHANGED <<where, loads, hooks>>
         /\ \/ /\ \A o \in Image : where[o] # address \div SlotSize
               /\ state' = "faulted" /\ UNCHANGED <<value, orig>>
            \/ /\ \E o \in Plugin : where[o] = address \div SlotSize
               /\ UNCHANGED <<state, value, orig>>
            \/ \E o \in Module : \E im \in PatchIm(o) : StaticPatch(o, im, p, x, address, byName)
<1> DEFINE m == Target[x].module
           e == NewEntry(p, x)
           objects == ObjectFromAddress(address, m)
           o == CHOOSE o \in objects : TRUE
           image == StaticImage(o)
           i == GetSymbolByValue(Table[o], value[o], Difference(address, Base(o)))
           im == IF byName THEN LazySymbolReplace(image, o, Base(o), e)
                 ELSE IF i = 0 THEN image ELSE SymbolReplace(image, Base(o), i, e)
<1>1. /\ patched' = [patched EXCEPT ![m] = FirstPatch(m, e)]
      /\ Register(p, x) /\ UNCHANGED <<where, loads, hooks>>
  BY DEF ReplaceStaticSymbol
<1>2. IF objects = {} THEN state' = "faulted" /\ UNCHANGED <<value, orig>>
      ELSE IF o \in Plugin THEN UNCHANGED <<state, value, orig>>
      ELSE state' = im.state /\ orig' = im.orig /\ value' = [value EXCEPT ![o] = im.value]
  BY DEF ReplaceStaticSymbol, StaticImage
<1>3. objects = {j \in Image : where[j] = address \div SlotSize}
  BY DEF ObjectFromAddress, ImageAt
<1>4. CASE objects = {}
  BY <1>1, <1>2, <1>3, <1>4
<1>5. objects # {} => o \in Image /\ where[o] = address \div SlotSize
  BY <1>3
<1>6. CASE objects # {} /\ o \in Plugin
  BY <1>1, <1>2, <1>5, <1>6
<1>7. CASE objects # {} /\ o \notin Plugin
  <2>1. o \in Module /\ where[o] = address \div SlotSize
    BY <1>5, <1>7 DEF Image
  <2>2. /\ where[o] \in Slot /\ where[o] # Null
    <3>1. \A b \in Nat \ {0} : \A c \in Nat : c \div b \in Nat
      OBVIOUS
    <3>2. address \div SlotSize \in Nat
      BY <3>1, Sizes
    <3>3. where[o] \in Slot \cup {Null} /\ Null \notin Int
      BY <1>5, <1>7, HooksAssumption DEF BaseInv, TypeInv
    <3> HIDE DEF o
    <3> QED BY <2>1, <3>2, <3>3
  <2>3. /\ state' = im.state /\ orig' = im.orig /\ value' = [value EXCEPT ![o] = im.value]
    BY <1>2, <1>7
  <2>4. image \in PatchIm(o) /\ image.value = value[o] /\ image.orig = orig /\ image.state = "running"
    <3> HIDE DEF o
    <3>1. value[o] \in [Symbols(o) -> Address0] /\ orig \in Originals
      BY <2>1 DEF BaseInv, TypeInv, Originals
    <3> QED BY <3>1 DEF PatchIm, States, StaticImage
  <2>5. Base(o) \in Address0
    <3> HIDE DEF o
    <3>1. 0 \in 0..SlotSize - 1
      BY Sizes
    <3> QED BY <2>2, <3>1, AddressOf DEF Base
  <2>6. e \in Entry /\ NameOf(e) = Target[x].name /\ NameOf(e) \in Name
    <3>1. where[p] # Null /\ x \in Piece
      BY HooksAssumption DEF MayUse
    <3>2. e \in Entry /\ e.piece = x
      BY <3>1, NewEntryIs DEF BaseInv
    <3> HIDE DEF e
    <3> QED BY <3>2, HooksAssumption DEF NameOf
  <2> HIDE DEF o, image, e
  <2>7. CASE byName
    <3>1. im = LazySymbolReplace(image, o, Base(o), e)
      BY <2>7
    <3> HIDE DEF im
    <3>2. /\ im \in PatchIm(o)
          /\ \/ im.state # "running" /\ im.value = image.value /\ im.orig = image.orig
                /\ (im.state = "faulted" => image.state = "faulted")
             \/ GetSymbolByName(Table[o], NameOf(e)) = 0 /\ im = image
             \/ /\ GetSymbolByName(Table[o], NameOf(e)) \in Providers(Table[o], NameOf(e))
                /\ Replaces(o, Base(o), GetSymbolByName(Table[o], NameOf(e)), e, image, im)
      BY <2>1, <2>4, <2>5, <2>6, <3>1, LazyReplaceIs
    <3>3. im.state # "running" /\ (im.state = "faulted" => image.state = "faulted") => im.state = "panicked"
      BY <2>4, <3>2 DEF PatchIm, States
    <3>4. Providers(Table[o], NameOf(e)) \subseteq Symbols(o)
      BY <2>1, <2>6, NameSound
    <3>5. /\ Lookup(o, p, x, address, byName) = GetSymbolByName(Table[o], NameOf(e))
          /\ Sought(o, p, x, address, byName) = Providers(Table[o], NameOf(e))
      BY <2>6, <2>7 DEF Lookup, Sought
    <3> QED BY <1>1, <2>1, <2>2, <2>3, <2>4, <2>5, <3>2, <3>3, <3>4, <3>5 DEF image, e, StaticPatch, StaticImage
  <2>8. CASE ~byName
    <3>1. im = IF i = 0 THEN image ELSE SymbolReplace(image, Base(o), i, e)
      BY <2>8
    <3>2. i \in Valued(o, value[o], Difference(address, Base(o))) \cup {0}
      BY <2>1, ValueSound
    <3>3. Valued(o, value[o], Difference(address, Base(o))) \subseteq Symbols(o)
      BY DEF Valued
    <3>4. /\ Lookup(o, p, x, address, byName) = i
          /\ Sought(o, p, x, address, byName) = Valued(o, value[o], Difference(address, Base(o)))
      BY <2>8 DEF Lookup, Sought
    <3> HIDE DEF im, i
    <3>5. CASE i = 0
      BY <1>1, <2>1, <2>2, <2>3, <2>4, <2>5, <3>1, <3>4, <3>5 DEF image, e, StaticPatch, StaticImage
    <3>6. CASE i # 0
      <4>1. im = SymbolReplace(image, Base(o), i, e) /\ i \in Symbols(o)
            /\ i \in Sought(o, p, x, address, byName)
        BY <3>1, <3>2, <3>3, <3>4, <3>6
      <4>2. /\ im \in PatchIm(o)
            /\ (im.state = "panicked" /\ im.value = image.value /\ im.orig = image.orig)
               \/ Replaces(o, Base(o), i, e, image, im)
        BY <2>1, <2>4, <2>5, <2>6, <4>1, SymbolReplaceIs
      <4> QED BY <1>1, <2>1, <2>2, <2>3, <2>4, <2>5, <3>4, <4>1, <4>2 DEF image, e, StaticPatch, StaticImage
    <3> QED BY <3>5, <3>6
  <2> QED BY <2>7, <2>8
<1> QED BY <1>4, <1>6, <1>7

LEMMA FirstPatchIs ==
  ASSUME NEW m \in Module, patched[m] \in Seq(Entry), NEW e \in Entry
  PROVE  \/ FirstPatch(m, e) = patched[m] /\ \E j \in DOMAIN patched[m] : NameOf(patched[m][j]) = NameOf(e)
         \/ FirstPatch(m, e) = Append(patched[m], e) /\ Named(patched[m], NameOf(e)) = {}
BY DEF FirstPatch, Named

\* Which symbol it is about, and the address it is given.
LEMMA StaticCases ==
  ASSUME BaseInv, NEW p \in Plugin, NEW x \in Piece, StaticSymbol(p, x)
  PROVE  /\ MayUse(p, x) /\ x \in SymbolPiece /\ Target[x].module \in StaticModule
         /\ Target[x].module \in Module /\ where[Target[x].module] \in Slot
         /\ \E i \in Defined(Target[x].module), address \in Address0, byName \in BOOLEAN :
              /\ Table[Target[x].module].dynsym[i].name = Target[x].name
              /\ ReplaceStaticSymbol(p, x, address, byName)
              /\ \/ address = Resolved(Target[x].module, i)
                 \/ address = Base(Target[x].module) + i /\ ~byName
<1> DEFINE m == Target[x].module
<1>1. MayUse(p, x) /\ x \in SymbolPiece /\ m \in StaticModule
  BY DEF StaticSymbol
<1>2. m \in Module /\ where[m] \in Slot
  BY <1>1, Membership DEF BaseInv, MemoryInv
<1>3. PICK i \in IndexOf(m, Target[x].name) :
        \/ ReplaceStaticSymbol(p, x, Resolved(m, i), TRUE)
        \/ \E address \in {Resolved(m, i), Base(m) + LinkedValue(m)[i]} :
             ReplaceStaticSymbol(p, x, address, FALSE)
  BY DEF StaticSymbol
<1>4. i \in Defined(m) /\ Table[m].dynsym[i].name = Target[x].name /\ i \in Symbols(m)
  BY DEF IndexOf, Providers, Provides, Defined, Symbols
<1>5. LinkedValue(m)[i] = i
  BY <1>4 DEF LinkedValue
<1>6. Base(m) \in Address0 /\ Base(m) + i \in Address0
  BY <1>2, <1>4, SymbolAddress
<1>7. Resolved(m, i) \in Address0
  <2>1. value[m][i] \in Address0
    BY <1>2, <1>4 DEF BaseInv, TypeInv
  <2> QED BY <1>6, <2>1, Wrapping DEF Resolved
<1> HIDE DEF m
<1>8. CASE ReplaceStaticSymbol(p, x, Resolved(m, i), TRUE)
  BY <1>1, <1>2, <1>4, <1>7, <1>8 DEF m
<1>9. CASE ReplaceStaticSymbol(p, x, Resolved(m, i), FALSE)
  BY <1>1, <1>2, <1>4, <1>7, <1>9 DEF m
<1>10. CASE ReplaceStaticSymbol(p, x, Base(m) + i, FALSE)
  BY <1>1, <1>2, <1>4, <1>6, <1>10 DEF m
<1> QED BY <1>3, <1>5, <1>8, <1>9, <1>10

LEMMA StaticSymbolBase ==
  ASSUME BaseInv, NEW p \in Plugin, NEW x \in Piece, StaticSymbol(p, x), UNCHANGED frameVars
  PROVE  BaseInv' /\ Keeps(where, loads, used, where', loads', used')
<1> DEFINE m == Target[x].module
           e == NewEntry(p, x)
<1>1. /\ MayUse(p, x) /\ x \in SymbolPiece /\ m \in StaticModule /\ m \in Module
  BY StaticCases
<1>2. PICK address \in Address0, byName \in BOOLEAN : ReplaceStaticSymbol(p, x, address, byName)
  BY StaticCases
<1>3. TypeInv /\ MemoryInv /\ EntriesInv
  BY DEF BaseInv
<1>4. /\ patched' = [patched EXCEPT ![m] = FirstPatch(m, e)]
      /\ Register(p, x) /\ UNCHANGED <<where, loads, hooks, frames, control, seen>>
  BY <1>1, <1>2, StaticResult DEF frameVars
<1>5. \/ value' = value /\ orig' = orig /\ state' \in {state, "faulted"}
      \/ \E o \in Module : \E im \in PatchIm(o) :
           state' = im.state /\ orig' = im.orig /\ value' = [value EXCEPT ![o] = im.value]
  <2>1. \/ value' = value /\ orig' = orig /\ state' \in {state, "faulted"}
        \/ \E o \in Module : \E im \in PatchIm(o) : StaticPatch(o, im, p, x, address, byName)
    BY <1>1, <1>2, StaticResult
  <2>2. CASE \E o \in Module : \E im \in PatchIm(o) : StaticPatch(o, im, p, x, address, byName)
    <3>1. PICK o \in Module : \E im \in PatchIm(o) : StaticPatch(o, im, p, x, address, byName)
      BY <2>2
    <3>2. PICK im \in PatchIm(o) : StaticPatch(o, im, p, x, address, byName)
      BY <3>1
    <3>3. state' = im.state /\ orig' = im.orig /\ value' = [value EXCEPT ![o] = im.value]
      BY <3>2 DEF StaticPatch
    <3> QED BY <3>3
  <2> QED BY <2>1, <2>2
<1>6. /\ used' \in [Plugin -> SUBSET Piece] /\ e \in Entry
      /\ Keeps(where, loads, used, where, loads, used')
      /\ \A es \in Seq(Entry) : ListInv(es, where, loads, used) =>
           ListInv(es, where, loads, used') /\ ListInv(Append(es, e), where, loads, used')
  BY <1>1, <1>4, RegisteredEntries
<1>7. e.piece = x
  BY DEF NewEntry
<1>8. patched[m] \in Seq(Entry)
  BY <1>1, <1>3 DEF TypeInv
<1> HIDE DEF e, m
<1>9. FirstPatch(m, e) \in {patched[m], Append(patched[m], e)}
  BY <1>1, <1>6, <1>8, FirstPatchIs
<1>10. /\ orig' \in [Slot -> [Piece -> Address0]] /\ state' \in {"running", "panicked", "faulted"}
       /\ value' = [j \in Module |-> value'[j]] /\ \A j \in Module : value'[j] \in [Symbols(j) -> Address0]
  <2>1. CASE value' = value /\ orig' = orig /\ state' \in {state, "faulted"}
    BY <1>3, <2>1 DEF TypeInv
  <2>2. CASE \E o \in Module : \E im \in PatchIm(o) :
               state' = im.state /\ orig' = im.orig /\ value' = [value EXCEPT ![o] = im.value]
    <3>0. PICK o \in Module : \E im \in PatchIm(o) :
            state' = im.state /\ orig' = im.orig /\ value' = [value EXCEPT ![o] = im.value]
      BY <2>2
    <3>1. PICK im \in PatchIm(o) :
            state' = im.state /\ orig' = im.orig /\ value' = [value EXCEPT ![o] = im.value]
      BY <3>0
    <3>2. im.value \in [Symbols(o) -> Address0] /\ im.orig \in Originals /\ im.state \in States
      BY DEF PatchIm
    <3>3. value = [j \in Module |-> value[j]] /\ \A j \in Module : value[j] \in [Symbols(j) -> Address0]
      BY <1>3 DEF TypeInv
    <3>4. \A j \in Module : value'[j] = IF j = o THEN im.value ELSE value[j]
      BY <3>1, <3>3
    <3>5. value' = [j \in Module |-> value'[j]]
      BY <3>1, <3>3
    <3> QED BY <3>1, <3>2, <3>3, <3>4, <3>5 DEF Originals, States
  <2> QED BY <1>5, <2>1, <2>2
<1>11. patched' \in [Module -> Seq(Entry)]
  <2>1. FirstPatch(m, e) \in Seq(Entry)
    BY <1>6, <1>8, <1>9
  <2> QED BY <1>3, <1>4, <2>1 DEF TypeInv
<1>12. TypeInv'
  BY <1>3, <1>4, <1>6, <1>10, <1>11 DEF TypeInv
<1>13. MemoryInv'
  BY <1>3, <1>4 DEF MemoryInv
<1>14. EntriesInv'
  <2>1. \A j \in Module : hooks[j] \in Seq(Entry) /\ patched[j] \in Seq(Entry)
    BY <1>3 DEF TypeInv
  <2>2. \A l \in FrameList : frames[l] \in Seq(Entry)
    BY <1>3 DEF TypeInv
  <2>3. \A j \in Module : patched'[j] = IF j = m THEN FirstPatch(m, e) ELSE patched[j]
    BY <1>3, <1>4 DEF TypeInv
  <2>4. HooksOf(m, Append(patched[m], e))
    <3>1. \A es \in Seq(Entry) : \A i \in DOMAIN Append(es, e) :
            (i \in DOMAIN es /\ Append(es, e)[i] = es[i]) \/ Append(es, e)[i] = e
      BY <1>6
    <3>2. HooksOf(m, patched[m])
      BY <1>1, <1>3 DEF EntriesInv
    <3> QED BY <1>1, <1>7, <1>8, <3>1, <3>2 DEF HooksOf, m
  <2>5. \A j \in Module : ListInv(patched'[j], where, loads, used') /\ HooksOf(j, patched'[j])
    BY <1>3, <1>6, <1>9, <2>1, <2>3, <2>4 DEF EntriesInv
  <2>6. \A j \in Module : /\ ListInv(hooks[j], where, loads, used') /\ HooksOf(j, hooks[j])
                          /\ j \in StaticModule => hooks[j] = <<>>
    BY <1>3, <1>6, <2>1 DEF EntriesInv
  <2>7. \A l \in FrameList : ListInv(frames[l], where, loads, used') /\ FramesOf(l, frames[l])
    BY <1>3, <1>6, <2>2 DEF EntriesInv
  <2> QED BY <1>4, <2>5, <2>6, <2>7 DEF EntriesInv
<1> QED BY <1>4, <1>6, <1>12, <1>13, <1>14 DEF BaseInv

\* The sequence of a finite set.
LEMMA SetToSeqIs ==
  ASSUME NEW S, IsFiniteSet(S)
  PROVE  /\ SetToSeq(S) \in Seq(S)
         /\ \A i, j \in DOMAIN SetToSeq(S) : SetToSeq(S)[i] = SetToSeq(S)[j] => i = j
         /\ S = {} => SetToSeq(S) = <<>>
<1> DEFINE n == Cardinality(S)
           f == SetToSeq(S)
<1>1. n \in Nat /\ ExistsBijection(1..n, S)
  BY FS_CardinalityType
<1>2. PICK g \in [1..n -> S] : IsInjective(g)
  BY <1>1 DEF ExistsBijection, Bijection, Injection
<1>3. f \in [1..n -> S] /\ IsInjective(f)
  <2>1. f = CHOOSE h \in [1..n -> S] : IsInjective(h)
    BY DEF SetToSeq
  <2> HIDE DEF f
  <2> QED BY <1>2, <2>1
<1>4. S = {} => n = 0
  BY FS_EmptySet
<1> HIDE DEF n, f
<1>5. f \in Seq(S)
  BY <1>1, <1>3
<1>6. S = {} => f = <<>>
  <2>1. \A q \in Seq(S) : S = {} => q = <<>>
    OBVIOUS
  <2> QED BY <1>5, <2>1
<1> QED BY <1>3, <1>5, <1>6 DEF IsInjective, f

LEMMA BaseInit == Init => BaseInv
<1> SUFFICES ASSUME Init PROVE BaseInv
  OBVIOUS
<1> USE DEF Init, HooksInit
<1>1. /\ where = [i \in Image |-> IF i \in Staying THEN Home[i] ELSE Null]
      /\ loads = [i \in Image |-> IF where[i] = Null THEN 0 ELSE 1]
  BY DEF Staying
<1>2. where \in [Image -> Slot \cup {Null}] /\ MemoryInv
  <2>1. \A i \in Staying : Home[i] # Null /\ \A j \in Staying : Home[i] = Home[j] => i = j
    BY Membership, Sizes, HooksAssumption
  <2> QED BY <1>1, <2>1, Membership DEF MemoryInv, Apart
<1>3. loads \in [Image -> Nat] /\ \A i \in Image : loads[i] <= MaxLoads[i]
  <2>1. \A i \in Image : MaxLoads[i] \in Nat \ {0}
    BY HooksAssumption
  <2>2. \A i \in Image : loads[i] \in {0, 1}
    BY <1>1
  <2> QED BY <1>1, <2>1, <2>2
<1>4. value = [m \in Module |-> value[m]] /\ \A m \in Module : value[m] \in [Symbols(m) -> Address0]
  BY LinkedIs
<1>5. orig \in [Slot -> [Piece -> Address0]]
  BY Sizes DEF Address0
<1>6. \A p \in Plugin \ {Dev} : AtStart \subseteq SymbolPiece /\ AtStart \subseteq Piece
  BY HooksAssumption
<1>7. used \in [Plugin -> SUBSET Piece]
  BY <1>6
<1> DEFINE of(m) == {y \in AtStart : Target[y].module = m}
           T(m) == {NewEntry(p, x) : p \in Plugin \ {Dev}, x \in of(m)}
<1>8. \A m \in Module : hooks[m] = SetToSeq(T(m))
  OBVIOUS
<1>9. \A p \in Plugin \ {Dev} : p \in Plugin /\ where[p] = Home[p] /\ where[p] \in Slot /\ where[p] # Null
  <2>1. \A p \in Plugin \ {Dev} : p \in Staying /\ p \in Image
    BY Membership
  <2>2. Null \notin Slot
    BY Sizes
  <2> QED BY <1>1, <2>1, <2>2, Membership
<1>10. ASSUME NEW m \in Module, NEW e \in T(m)
       PROVE  /\ e \in Entry /\ e.by \in Plugin \ {Dev} /\ e.piece \in AtStart
              /\ e.at = where[e.by] /\ e.gen = loads[e.by] /\ Target[e.piece].module = m
  <2>1. PICK p \in Plugin \ {Dev}, x \in of(m) : e = NewEntry(p, x)
    OBVIOUS
  <2>2. loads[p] \in Nat /\ where[p] \in Slot /\ x \in AtStart /\ x \in Piece
    BY <1>3, <1>6, <1>9, Membership
  <2>3. e = [piece |-> x, at |-> where[p], by |-> p, gen |-> loads[p]]
    BY <2>1 DEF NewEntry
  <2> QED BY <2>2, <2>3 DEF Entry
<1>11. ASSUME NEW m \in Module PROVE IsFiniteSet(T(m))
  <2> DEFINE P == Plugin \ {Dev}
             X == of(m)
             f == [q \in P \X X |-> NewEntry(q[1], q[2])]
  <2>1. IsFiniteSet(P) /\ IsFiniteSet(X)
    <3>1. IsFiniteSet(Plugin) /\ IsFiniteSet(AtStart) /\ P \in SUBSET Plugin /\ X \in SUBSET AtStart
      BY HooksAssumption
    <3> HIDE DEF P, X
    <3> QED BY <3>1, FS_Subset
  <2>2. IsFiniteSet(P \X X)
    <3> HIDE DEF P, X
    <3> QED BY <2>1, FS_Product
  <2>3. f \in Surjection(P \X X, T(m))
    <3>1. f \in [P \X X -> T(m)]
      OBVIOUS
    <3>2. ASSUME NEW e \in T(m) PROVE \E q \in P \X X : f[q] = e
      <4>1. PICK p \in P, x \in X : e = NewEntry(p, x)
        OBVIOUS
      <4>2. <<p, x>> \in P \X X /\ f[<<p, x>>] = e
        BY <4>1
      <4> QED BY <4>2
    <3> HIDE DEF f, P, X, T
    <3> QED BY <3>1, <3>2 DEF Surjection
  <2> HIDE DEF f, P, X, T
  <2> QED BY <2>2, <2>3, FS_Surjection
<1> HIDE DEF T
<1>12. ASSUME NEW m \in Module
       PROVE  /\ hooks[m] \in Seq(Entry) /\ hooks[m] \in Seq(T(m))
              /\ \A i, j \in DOMAIN hooks[m] : hooks[m][i] = hooks[m][j] => i = j
              /\ T(m) = {} => hooks[m] = <<>>
  <2>1. \A e \in T(m) : e \in Entry
    BY <1>10
  <2>2. /\ hooks[m] \in Seq(T(m))
        /\ \A i, j \in DOMAIN hooks[m] : hooks[m][i] = hooks[m][j] => i = j
        /\ T(m) = {} => hooks[m] = <<>>
    BY <1>8, <1>11, SetToSeqIs
  <2>3. \A S1, S2 : S1 \subseteq S2 => \A q \in Seq(S1) : q \in Seq(S2)
    OBVIOUS
  <2> QED BY <2>1, <2>2, <2>3
<1>13. hooks = [m \in Module |-> hooks[m]]
  OBVIOUS
<1>14. patched = [m \in Module |-> <<>>] /\ frames = [l \in FrameList |-> <<>>]
  OBVIOUS
<1>15. TypeInv
  <2>1. hooks \in [Module -> Seq(Entry)]
    BY <1>12, <1>13
  <2>2. control \in [Agent -> [FrameList -> Address0 \cup {Null}]] /\ seen \in [Agent -> [FrameList -> Nat]]
    BY DEF NoAgents
  <2>3. <<>> \in Seq(Entry)
    OBVIOUS
  <2>4. patched \in [Module -> Seq(Entry)] /\ frames \in [FrameList -> Seq(Entry)]
    BY <1>14, <2>3
  <2>5. state \in {"running", "panicked", "faulted"}
    OBVIOUS
  <2> QED BY <1>2, <1>3, <1>4, <1>5, <1>7, <2>1, <2>2, <2>4, <2>5 DEF TypeInv
<1>16. ASSUME NEW m \in Module
       PROVE  /\ ListInv(hooks[m], where, loads, used) /\ HooksOf(m, hooks[m])
              /\ m \in StaticModule => hooks[m] = <<>>
  <2>1. \A i \in DOMAIN hooks[m] : hooks[m][i] \in T(m)
    <3>1. \A S : \A q \in Seq(S) : \A i \in DOMAIN q : q[i] \in S
      OBVIOUS
    <3> QED BY <1>12, <3>1
  <2>2. \A i \in DOMAIN hooks[m] :
          /\ hooks[m][i].by \in Plugin \ {Dev} /\ hooks[m][i].piece \in AtStart /\ hooks[m][i] \in Entry
          /\ hooks[m][i].at = where[hooks[m][i].by] /\ hooks[m][i].gen = loads[hooks[m][i].by]
          /\ Target[hooks[m][i].piece].module = m
    BY <1>10, <2>1
  <2>3. \A i \in DOMAIN hooks[m] :
          ~Gone(hooks[m][i], where, loads) /\ Recorded(hooks[m][i], where, loads, used)
    <3>1. \A p \in Plugin \ {Dev} : used[p] = AtStart
      OBVIOUS
    <3> QED BY <2>2, <3>1 DEF Gone, Recorded
  <2>4. ASSUME NEW i \in DOMAIN hooks[m], NEW j \in DOMAIN hooks[m],
               hooks[m][i].piece = hooks[m][j].piece, hooks[m][i].at = hooks[m][j].at
        PROVE  i = j
    <3>1. hooks[m][i].by = hooks[m][j].by
      <4>1. Apart(where)
        BY <1>2 DEF MemoryInv
      <4>2. \A q \in Plugin \ {Dev} : q \in Image
        BY Membership
      <4>3. /\ hooks[m][i].by \in Plugin \ {Dev} /\ hooks[m][j].by \in Plugin \ {Dev}
            /\ where[hooks[m][i].by] = where[hooks[m][j].by]
        BY <2>2, <2>4
      <4>4. where[hooks[m][i].by] # Null
        BY <1>9, <4>3
      <4> QED BY <4>1, <4>2, <4>3, <4>4 DEF Apart
    <3>2. \A e1, e2 \in Entry : e1.by = e2.by /\ e1.at = e2.at /\ e1.gen = e2.gen /\ e1.piece = e2.piece
            => e1 = e2
      BY DEF Entry
    <3>3. hooks[m][i] = hooks[m][j]
      BY <2>2, <2>4, <3>1, <3>2
    <3> QED BY <1>12, <3>3
  <2>5. HooksOf(m, hooks[m])
    BY <1>6, <2>2 DEF HooksOf
  <2>6. ASSUME m \in StaticModule PROVE hooks[m] = <<>>
    <3>1. \A e : e \in T(m) => FALSE
      <4> SUFFICES ASSUME NEW e, e \in T(m) PROVE FALSE
        OBVIOUS
      <4>1. e.piece \in AtStart /\ Target[e.piece].module = m
        BY <1>10
      <4> QED BY <2>6, <4>1, HooksAssumption
    <3>2. T(m) = {}
      BY <3>1
    <3> QED BY <1>12, <3>2
  <2> QED BY <2>3, <2>4, <2>5, <2>6 DEF ListInv, OnePerPiece
<1>17. EntriesInv
  <2>1. \A m \in Module : ListInv(patched[m], where, loads, used) /\ HooksOf(m, patched[m])
    BY <1>14 DEF ListInv, OnePerPiece, HooksOf
  <2>2. \A l \in FrameList : ListInv(frames[l], where, loads, used) /\ FramesOf(l, frames[l])
    BY <1>14 DEF ListInv, OnePerPiece, FramesOf
  <2> QED BY <1>16, <2>1, <2>2 DEF EntriesInv
<1> QED BY <1>2, <1>15, <1>17 DEF BaseInv

\* Every step, by its action.
LEMMA StepCases ==
  ASSUME [Next]_vars
  PROVE  \/ UNCHANGED vars
         \/ \E m \in Module, k \in Slot : LoadModule(m, k) /\ UNCHANGED frameVars
         \/ \E m \in Module : UnloadModule(m) /\ control = NoAgents /\ UNCHANGED frameVars
         \/ \E p \in Plugin, x \in Piece : ReplaceSymbol(p, x) /\ UNCHANGED frameVars
         \/ \E p \in Plugin, x \in Piece : StaticSymbol(p, x) /\ UNCHANGED frameVars
         \/ \E p \in Plugin, x \in Piece : ReplaceFrame(p, x)
         \/ \E k \in Slot : LoadDev(k) /\ UNCHANGED frameVars
         \/ UnloadDev /\ UNCHANGED frameVars
         \/ \E a \in Agent : AgentGone(a)
         \/ \E a \in Agent, l \in FrameList : SysLineInit(a, l)
<1>1. CASE Modules
  BY <1>1 DEF Modules
<1>2. CASE Plugins
  BY <1>2 DEF Plugins
<1>3. CASE Loader
  BY <1>3 DEF Loader
<1>4. CASE Agents
  BY <1>4 DEF Agents
<1> QED BY <1>1, <1>2, <1>3, <1>4 DEF Next

LEMMA BaseStep ==
  ASSUME BaseInv, [Next]_vars
  PROVE  BaseInv' /\ Keeps(where, loads, used, where', loads', used')
<1>1. CASE UNCHANGED vars
  <2>1. UNCHANGED <<where, loads, value, orig, hooks, used, patched, state, frames, control, seen>>
    BY <1>1 DEF vars, hookVars
  <2>2. Keeps(where, loads, used, where', loads', used')
    BY <2>1 DEF Keeps
  <2> QED BY <2>1, <2>2 DEF BaseInv, TypeInv, MemoryInv, EntriesInv
<1>2. ASSUME NEW m \in Module, NEW k \in Slot, LoadModule(m, k) /\ UNCHANGED frameVars
      PROVE  BaseInv' /\ Keeps(where, loads, used, where', loads', used')
  BY <1>2, LoadModuleBase
<1>3. ASSUME NEW m \in Module, UnloadModule(m) /\ UNCHANGED frameVars
      PROVE  BaseInv' /\ Keeps(where, loads, used, where', loads', used')
  BY <1>3, UnloadModuleBase
<1>4. ASSUME NEW p \in Plugin, NEW x \in Piece, ReplaceSymbol(p, x) /\ UNCHANGED frameVars
      PROVE  BaseInv' /\ Keeps(where, loads, used, where', loads', used')
  <2>1. MayUse(p, x) /\ Register(p, x) /\ UNCHANGED <<where, loads>>
    BY <1>4 DEF ReplaceSymbol
  <2> QED BY <1>4, <2>1, RegisteredEntries, ReplaceSymbolBase
<1>5. ASSUME NEW p \in Plugin, NEW x \in Piece, StaticSymbol(p, x) /\ UNCHANGED frameVars
      PROVE  BaseInv' /\ Keeps(where, loads, used, where', loads', used')
  BY <1>5, StaticSymbolBase
<1>6. ASSUME NEW p \in Plugin, NEW x \in Piece, ReplaceFrame(p, x)
      PROVE  BaseInv' /\ Keeps(where, loads, used, where', loads', used')
  <2>1. MayUse(p, x) /\ Register(p, x) /\ UNCHANGED <<where, loads>>
    BY <1>6 DEF ReplaceFrame
  <2> QED BY <1>6, <2>1, RegisteredEntries, ReplaceFrameBase
<1>7. ASSUME NEW k \in Slot, LoadDev(k) /\ UNCHANGED frameVars
      PROVE  BaseInv' /\ Keeps(where, loads, used, where', loads', used')
  BY <1>7, LoadDevBase
<1>8. CASE UnloadDev /\ UNCHANGED frameVars
  BY <1>8, UnloadDevBase
<1>9. ASSUME NEW a \in Agent, AgentGone(a)
      PROVE  BaseInv' /\ Keeps(where, loads, used, where', loads', used')
  BY <1>9, AgentGoneBase
<1>10. ASSUME NEW a \in Agent, NEW l \in FrameList, SysLineInit(a, l)
       PROVE  BaseInv' /\ Keeps(where, loads, used, where', loads', used')
  BY <1>10, SysLineInitBase
<1> QED BY <1>1, <1>2, <1>3, <1>4, <1>5, <1>6, <1>7, <1>8, <1>9, <1>10, StepCases

LEMMA BaseIsType == BaseInv => TypeOK
<1> SUFFICES ASSUME BaseInv PROVE TypeOK
  OBVIOUS
<1>1. TypeInv
  BY DEF BaseInv
<1>2. \A i \in Image : loads[i] \in 0..MaxLoads[i]
  <2>1. \A i \in Image : loads[i] \in Nat /\ MaxLoads[i] \in Nat /\ loads[i] <= MaxLoads[i]
    BY <1>1, HooksAssumption DEF TypeInv
  <2> QED BY <2>1
<1>3. \A es \in Seq(Entry) : Range(es) \subseteq Entry
  BY DEF Range
<1>4. /\ \A m \in Module : Range(hooks[m]) \subseteq Entry /\ Range(patched[m]) \subseteq Entry
      /\ \A l \in FrameList : Range(frames[l]) \subseteq Entry
  BY <1>1, <1>3 DEF TypeInv
<1> QED BY <1>1, <1>2, <1>4 DEF TypeInv, TypeOK, HooksTypeOK, Address0

LEMMA BaseHolds == Spec => []BaseInv
<1>1. BaseInv /\ [Next]_vars => BaseInv'
  BY BaseStep
<1> QED BY <1>1, BaseInit, PTL DEF Spec

\* Every variable keeps its type: an image is in a slot or nowhere, st_values,
\* originals and installed addresses are addresses, and the lists hold entries
\* (hooks.rs, rtld.rs, callbacks.rs).
THEOREM TypeCorrect == Spec => []TypeOK
<1> QED BY BaseHolds, BaseIsType, PTL

-----------------------------------------------------------------------------
(* Originals that are null.                                                *)

LEMMA PluginAtIs ==
  ASSUME NEW k
  PROVE  PluginAt(k) <=> PluginIn(k, where)
BY DEF PluginAt, PluginIn, ImageAt, Image

\* Loading a module writes the originals of its hooks only.
LEMMA PatchWrites ==
  ASSUME BaseInv, NEW m \in Module, NEW s \in Slot, LoadModule(m, s), NEW k \in Slot, NEW x \in Piece
  PROVE  \/ orig'[k][x] = orig[k][x]
         \/ \E i \in DOMAIN hooks[m] : /\ hooks[m][i].at = k /\ hooks[m][i].piece = x
                                       /\ x \notin NoOriginal
<1> DEFINE n == Len(hooks[m])
           f == Patching(m, s)
           P == {j \in 0..n : \/ f[j].orig[k][x] = orig[k][x]
                              \/ \E i \in 1..n : /\ hooks[m][i].at = k /\ hooks[m][i].piece = x
                                                 /\ x \notin NoOriginal}
<1>1. /\ n \in Nat /\ hooks[m] \in Seq(Entry) /\ f \in [0..n -> PatchIm(m)]
      /\ f[0] = [value |-> LinkedValue(m), orig |-> orig, state |-> "running"]
      /\ \A j \in 1..n : f[j] = LazySymbolReplace(f[j - 1], m, s * SlotSize, hooks[m][j])
      /\ orig' = f[n].orig /\ s * SlotSize \in Address0
  BY LoadResult
<1> HIDE DEF f
<1>2. DOMAIN hooks[m] = 1..n
  BY <1>1, SeqEntry
<1>3. \A j \in 1..n : hooks[m][j] \in Entry /\ NameOf(hooks[m][j]) \in Name
  <2>1. \A j \in 1..n : hooks[m][j] \in Entry /\ hooks[m][j].piece \in SymbolPiece
    BY <1>1, <1>2, SeqEntry DEF BaseInv, EntriesInv, HooksOf
  <2> QED BY <2>1, HooksAssumption DEF NameOf
<1>4. 0 \in P
  BY <1>1
<1>5. ASSUME NEW j \in 1..n, j - 1 \in P PROVE j \in P
  <2> DEFINE e == hooks[m][j]
             im == f[j - 1]
             i == GetSymbolByName(Table[m], NameOf(e))
             base == s * SlotSize
  <2>1. im \in PatchIm(m) /\ f[j] \in PatchIm(m) /\ e \in Entry /\ NameOf(e) \in Name /\ j \in 0..n
        /\ f[j] = LazySymbolReplace(im, m, base, e) /\ base \in Address0
    BY <1>1, <1>3
  <2> HIDE DEF n, e, im, i, base
  <2>2. f[j].orig = im.orig \/ (i \in Providers(Table[m], NameOf(e)) /\ Replaces(m, base, i, e, im, f[j]))
    BY <2>1, LazyReplaceIs DEF i
  <2>3. CASE f[j].orig = im.orig
    BY <1>5, <2>1, <2>3 DEF im
  <2>4. CASE i \in Providers(Table[m], NameOf(e)) /\ Replaces(m, base, i, e, im, f[j])
    <3>1. im.value[i] \in Address0 /\ im.orig \in Originals
      <4>1. i \in Symbols(m)
        BY <2>1, <2>4, NameSound
      <4> QED BY <2>1, <4>1 DEF PatchIm
    <3>2. (im.value[i] + base) % W \in Address0
      BY <2>1, <3>1, Wrapping
    <3>3. f[j].orig[k][x] = im.orig[k][x] \/ (k = e.at /\ x = e.piece /\ x \notin NoOriginal)
      BY <2>1, <2>4, <3>1, <3>2, WrittenIs DEF Replaces
    <3> QED BY <1>5, <2>1, <3>3 DEF im, e
  <2> QED BY <2>2, <2>3, <2>4
<1>6. n \in P
  <2>1. P \in SUBSET (0..n) /\ n \in 0..n
    BY <1>1
  <2> HIDE DEF P
  <2> QED BY <1>1, <1>4, <1>5, <2>1, UpTo
<1> QED BY <1>1, <1>2, <1>6

\* An agent's init writes the originals of the replacements that match it.
LEMMA ChainWrites ==
  ASSUME BaseInv, NEW a \in Agent, NEW l \in FrameList, SysLineInit(a, l), NEW k \in Slot, NEW x \in Piece
  PROVE  \/ orig'[k][x] = orig[k][x]
         \/ \E i \in DOMAIN frames[l] : /\ frames[l][i].at = k /\ frames[l][i].piece = x
                                        /\ Matches(frames[l][i], a)
<1> DEFINE n == Len(frames[l])
           f == Chaining(a, l)
           P == {j \in 0..n : \/ f[j].orig[k][x] = orig[k][x]
                              \/ \E i \in 1..n : /\ frames[l][i].at = k /\ frames[l][i].piece = x
                                                 /\ Matches(frames[l][i], a)}
<1>1. /\ n \in Nat /\ frames[l] \in Seq(Entry) /\ f \in [0..n -> ControlIm]
      /\ f[0] = [control |-> Native(l, value, where), orig |-> orig, state |-> "running"]
      /\ \A j \in 1..n : f[j] = Chained(f[j - 1], frames[l][j], a)
      /\ orig' = f[n].orig
  BY InitResult
<1> HIDE DEF f
<1>2. DOMAIN frames[l] = 1..n /\ \A j \in 1..n : frames[l][j] \in Entry
  BY <1>1, SeqEntry
<1>3. 0 \in P
  BY <1>1
<1>4. ASSUME NEW j \in 1..n, j - 1 \in P PROVE j \in P
  <2> DEFINE e == frames[l][j]
             im == f[j - 1]
  <2>1. im \in ControlIm /\ e \in Entry /\ j \in 0..n /\ f[j] = Chained(im, e, a)
    BY <1>1, <1>2
  <2> HIDE DEF n, e, im
  <2>2. f[j].orig = im.orig \/ (Matches(e, a) /\ f[j].orig = Written(im.orig, e, im.control))
    BY <2>1, ChainedIs
  <2>3. CASE f[j].orig = im.orig
    BY <1>4, <2>1, <2>3 DEF im
  <2>4. CASE Matches(e, a) /\ f[j].orig = Written(im.orig, e, im.control)
    <3>1. im.orig \in Originals /\ im.control \in Address0
      BY <2>1 DEF ControlIm
    <3>2. f[j].orig[k][x] = im.orig[k][x] \/ (k = e.at /\ x = e.piece)
      BY <2>1, <2>4, <3>1, WrittenIs
    <3> QED BY <1>4, <2>1, <2>4, <3>2 DEF im, e
  <2> QED BY <2>2, <2>3, <2>4
<1>5. n \in P
  <2>1. P \in SUBSET (0..n) /\ n \in 0..n
    BY <1>1
  <2> HIDE DEF P
  <2> QED BY <1>1, <1>3, <1>4, <2>1, UpTo
<1> QED BY <1>1, <1>2, <1>5

\* Unloading a module nulls the originals of its hooks, and no other.
LEMMA NullWrites ==
  ASSUME BaseInv, NEW m \in Module, UnloadModule(m), NEW k \in Slot, NEW x \in Piece
  PROVE  /\ orig'[k][x] \in {orig[k][x], 0}
         /\ orig'[k][x] # orig[k][x] =>
              \E i \in DOMAIN hooks[m] : hooks[m][i].at = k /\ hooks[m][i].piece = x
         /\ (\E i \in DOMAIN hooks[m] : hooks[m][i].at = k /\ hooks[m][i].piece = x)
              /\ PluginAt(k) /\ x \notin NoOriginal => orig'[k][x] = 0
         /\ state' = "faulted" => \E i \in DOMAIN hooks[m] : ~PluginAt(hooks[m][i].at)
<1> DEFINE n == Len(hooks[m])
           f == Nulling(m)
           Is(i) == hooks[m][i].at = k /\ hooks[m][i].piece = x
           P == {j \in 0..n :
                   /\ f[j].orig[k][x] \in {orig[k][x], 0}
                   /\ f[j].orig[k][x] # orig[k][x] => \E i \in 1..n : Is(i)
                   /\ (\E i \in 1..n : i <= j /\ Is(i)) /\ PluginAt(k) /\ x \notin NoOriginal
                        => f[j].orig[k][x] = 0
                   /\ f[j].state = "faulted" => \E i \in 1..n : ~PluginAt(hooks[m][i].at)}
<1>1. hooks[m] \in Seq(Entry) /\ TypeInv
  BY DEF BaseInv, TypeInv
<1>2. /\ n \in Nat /\ f \in [0..n -> NullIm]
      /\ f[0] = [orig |-> orig, state |-> "running"]
      /\ \A j \in 1..n : f[j] = Nulled(f[j - 1], hooks[m][j])
      /\ orig' = f[n].orig /\ state' = f[n].state
  BY <1>1, SeqEntry, NullingIs DEF UnloadModule
<1> HIDE DEF f
<1>3. DOMAIN hooks[m] = 1..n /\ \A j \in 1..n : hooks[m][j] \in Entry
  BY <1>1, SeqEntry
<1>4. 0 \in P
  <2>1. f[0].orig = orig /\ f[0].state = "running" /\ 0 \in 0..n /\ \A i \in 1..n : ~ (i <= 0)
    BY <1>2
  <2> HIDE DEF n, Is
  <2> QED BY <2>1
<1>5. ASSUME NEW j \in 1..n, j - 1 \in P PROVE j \in P
  <2> DEFINE e == hooks[m][j]
             im == f[j - 1]
  <2>1. im \in NullIm /\ e \in Entry /\ j \in 0..n /\ f[j] = Nulled(im, e)
    BY <1>2, <1>3
  <2>2. 0 \in Address0
    BY Sizes DEF Address0
  <2>i. \A i \in 1..n : i <= j => i = j \/ i <= j - 1
    BY <1>2
  <2>j. /\ im.orig[k][x] \in {orig[k][x], 0}
        /\ im.orig[k][x] # orig[k][x] => \E i \in 1..n : Is(i)
        /\ (\E i \in 1..n : i <= j - 1 /\ Is(i)) /\ PluginAt(k) /\ x \notin NoOriginal
             => im.orig[k][x] = 0
        /\ im.state = "faulted" => \E i \in 1..n : ~PluginAt(hooks[m][i].at)
    BY <1>5
  <2>e. Is(j) <=> k = e.at /\ x = e.piece
    OBVIOUS
  <2>p. (~PluginAt(e.at)) => \E i \in 1..n : ~PluginAt(hooks[m][i].at)
    OBVIOUS
  <2> HIDE DEF n, e, im, Is
  <2>3. f[j].orig = Written(im.orig, e, 0) /\ f[j].state = WrittenState(im.state, e)
    BY <2>1, <2>2, WriteNull DEF Nulled
  <2>4. im.orig \in Originals
    BY <2>1 DEF NullIm
  <2>5. f[j].orig[k][x] =
          IF k = e.at /\ x = e.piece /\ x \notin NoOriginal /\ PluginAt(k) THEN 0 ELSE im.orig[k][x]
    BY <2>1, <2>2, <2>3, <2>4, WrittenIs
  <2>6. f[j].state = "faulted" => \E i \in 1..n : ~PluginAt(hooks[m][i].at)
    BY <2>3, <2>j, <2>p DEF WrittenState
  <2>7. f[j].orig[k][x] \in {orig[k][x], 0}
        /\ (f[j].orig[k][x] # orig[k][x] => \E i \in 1..n : Is(i))
    BY <2>5, <2>e, <2>j
  <2>8. (\E i \in 1..n : i <= j /\ Is(i)) /\ PluginAt(k) /\ x \notin NoOriginal => f[j].orig[k][x] = 0
    BY <2>5, <2>e, <2>i, <2>j
  <2> QED BY <2>1, <2>6, <2>7, <2>8
<1>6. n \in P
  <2>1. P \in SUBSET (0..n) /\ n \in 0..n
    BY <1>2
  <2> HIDE DEF P
  <2> QED BY <1>2, <1>4, <1>5, <2>1, UpTo
<1>7. \A i \in 1..n : i <= n
  BY <1>2
<1> QED BY <1>2, <1>3, <1>6, <1>7

\* Replacing a static symbol writes one original, of the piece registered.
LEMMA StaticWrites ==
  ASSUME BaseInv, NEW p \in Plugin, NEW x \in Piece, StaticSymbol(p, x), NEW k \in Slot, NEW y \in Piece
  PROVE  orig'[k][y] = orig[k][y] \/ (k = where[p] /\ y = x)
<1>1. /\ MayUse(p, x) /\ x \in SymbolPiece
  BY StaticCases
<1>2. PICK address \in Address0, byName \in BOOLEAN : ReplaceStaticSymbol(p, x, address, byName)
  BY StaticCases
<1>3. \/ orig' = orig
      \/ \E o \in Module : \E im \in PatchIm(o) : StaticPatch(o, im, p, x, address, byName)
  BY <1>1, <1>2, StaticResult
<1>4. CASE \E o \in Module : \E im \in PatchIm(o) : StaticPatch(o, im, p, x, address, byName)
  <2>1. PICK o \in Module : \E im \in PatchIm(o) : StaticPatch(o, im, p, x, address, byName)
    BY <1>4
  <2>2. PICK im \in PatchIm(o) : StaticPatch(o, im, p, x, address, byName)
    BY <2>1
  <2> DEFINE i == Lookup(o, p, x, address, byName)
             e == NewEntry(p, x)
  <2>3. /\ orig' = im.orig /\ Base(o) \in Address0 /\ StaticImage(o) \in PatchIm(o)
        /\ \/ im.orig = orig
           \/ im = StaticImage(o)
           \/ i \in Symbols(o) /\ Replaces(o, Base(o), i, e, StaticImage(o), im)
    BY <2>2 DEF StaticPatch
  <2>4. StaticImage(o).orig = orig /\ StaticImage(o).value = value[o]
    BY DEF StaticImage
  <2>5. e \in Entry /\ e.at = where[p] /\ e.piece = x
    BY <1>1, NewEntryIs DEF MayUse, BaseInv
  <2> HIDE DEF i, e
  <2>6. CASE i \in Symbols(o) /\ Replaces(o, Base(o), i, e, StaticImage(o), im)
    <3>1. value[o][i] \in Address0 /\ orig \in Originals
      BY <2>6 DEF BaseInv, TypeInv, Originals
    <3>2. (value[o][i] + Base(o)) % W \in Address0
      BY <2>3, <3>1, Wrapping
    <3>3. orig' = Written(orig, e, (value[o][i] + Base(o)) % W)
      BY <2>3, <2>4, <2>6 DEF Replaces
    <3> QED BY <2>5, <3>1, <3>2, <3>3, WrittenIs
  <2> QED BY <2>3, <2>4, <2>6
<1> QED BY <1>3, <1>4

LEMMA NullInit == Init => NullInv
<1> SUFFICES ASSUME Init PROVE NullInv
  OBVIOUS
<1>1. \A k \in Slot, x \in Piece : orig[k][x] = 0
  BY DEF Init, HooksInit
<1> QED BY <1>1, HooksAssumption DEF NullInv

LEMMA NullStep ==
  ASSUME BaseInv, NullInv, [Next]_vars
  PROVE  NullInv'
<1> SUFFICES ASSUME state' = "running", NEW k \in Slot, NEW x \in SymbolPiece,
                    PluginIn(k, where'), Target[x].module \notin StaticModule, orig'[k][x] # 0
             PROVE  /\ where'[Target[x].module] # Null /\ x \notin NoOriginal
                    /\ \E i \in DOMAIN hooks'[Target[x].module] :
                         /\ hooks'[Target[x].module][i].at = k
                         /\ hooks'[Target[x].module][i].piece = x
  BY DEF NullInv
<1> DEFINE t == Target[x].module
           Kept == /\ where[t] # Null /\ x \notin NoOriginal
                   /\ \E i \in DOMAIN hooks[t] : hooks[t][i].at = k /\ hooks[t][i].piece = x
<1>t. t \in Module /\ x \in Piece
  BY HooksAssumption
<1>o. state = "running" /\ PluginIn(k, where) /\ orig[k][x] # 0 => Kept
  BY DEF NullInv
<1>w. where \in [Image -> Slot \cup {Null}] /\ Null \notin Slot
  BY Sizes DEF BaseInv, TypeInv
<1>1. CASE UNCHANGED vars
  BY <1>o, <1>1 DEF vars, hookVars
<1>2. ASSUME NEW m \in Module, NEW s \in Slot, LoadModule(m, s), UNCHANGED frameVars
      PROVE  /\ where'[t] # Null /\ x \notin NoOriginal
             /\ \E i \in DOMAIN hooks'[t] : hooks'[t][i].at = k /\ hooks'[t][i].piece = x
  <2>1. /\ state = "running" /\ where' = [where EXCEPT ![m] = s] /\ hooks' = hooks
    BY <1>2 DEF LoadModule
  <2>2. PluginIn(k, where)
    BY <1>2, <1>w, <2>1, Membership DEF PluginIn
  <2>3. \A j \in Module : where[j] # Null => where'[j] # Null
    BY <1>w, <2>1, Membership
  <2>4. where'[m] # Null
    BY <1>w, <2>1, Membership
  <2>5. CASE orig'[k][x] = orig[k][x]
    BY <1>o, <1>t, <2>1, <2>2, <2>3, <2>5
  <2>6. CASE \E i \in DOMAIN hooks[m] : /\ hooks[m][i].at = k /\ hooks[m][i].piece = x
                                        /\ x \notin NoOriginal
    <3>1. m = t
      BY <2>6 DEF BaseInv, EntriesInv, HooksOf
    <3> QED BY <2>1, <2>4, <2>6, <3>1
  <2> QED BY <1>2, <1>t, <2>5, <2>6, PatchWrites
<1>3. ASSUME NEW m \in Module, UnloadModule(m), UNCHANGED frameVars
      PROVE  /\ where'[t] # Null /\ x \notin NoOriginal
             /\ \E i \in DOMAIN hooks'[t] : hooks'[t][i].at = k /\ hooks'[t][i].piece = x
  <2>1. /\ state = "running" /\ where' = [where EXCEPT ![m] = Null] /\ hooks' = hooks
    BY <1>3 DEF UnloadModule
  <2>2. PluginIn(k, where)
    BY <1>3, <1>w, <2>1, Membership DEF PluginIn
  <2>3. Kept
    BY <1>3, <1>o, <1>t, <2>1, <2>2, NullWrites
  <2>4. m # t
    BY <1>3, <1>t, <2>2, <2>3, NullWrites, PluginAtIs
  <2> QED BY <1>t, <1>w, <2>1, <2>3, <2>4, Membership
<1>4. ASSUME NEW p \in Plugin, NEW y \in Piece, ReplaceSymbol(p, y), UNCHANGED frameVars
      PROVE  /\ where'[t] # Null /\ x \notin NoOriginal
             /\ \E i \in DOMAIN hooks'[t] : hooks'[t][i].at = k /\ hooks'[t][i].piece = x
  <2>1. /\ where' = where /\ orig' = orig /\ state' = state
        /\ hooks' = [hooks EXCEPT ![Target[y].module] = Append(@, NewEntry(p, y))]
    BY <1>4 DEF ReplaceSymbol
  <2>2. Kept
    BY <1>o, <2>1
  <2>3. hooks \in [Module -> Seq(Entry)]
    BY DEF BaseInv, TypeInv
  <2>4. hooks'[t] = hooks[t] \/ hooks'[t] = Append(hooks[t], NewEntry(p, y))
    BY <1>t, <2>1, <2>3
  <2>5. NewEntry(p, y) \in Entry
    BY <1>4, NewEntryIs DEF ReplaceSymbol, MayUse, BaseInv
  <2>6. \A es \in Seq(Entry) : \A e \in Entry : \A i \in DOMAIN es :
          i \in DOMAIN Append(es, e) /\ Append(es, e)[i] = es[i]
    OBVIOUS
  <2>7. hooks[t] \in Seq(Entry)
    BY <1>t, <2>3
  <2> QED BY <2>1, <2>2, <2>4, <2>5, <2>6, <2>7
<1>5. ASSUME NEW p \in Plugin, NEW y \in Piece, StaticSymbol(p, y), UNCHANGED frameVars
      PROVE  /\ where'[t] # Null /\ x \notin NoOriginal
             /\ \E i \in DOMAIN hooks'[t] : hooks'[t][i].at = k /\ hooks'[t][i].piece = x
  <2>1. Target[y].module \in StaticModule /\ MayUse(p, y)
    BY <1>5, StaticCases
  <2>2. orig'[k][x] = orig[k][x]
    BY <1>5, <1>t, <2>1, StaticWrites
  <2>3. where' = where /\ hooks' = hooks
    BY <1>5 DEF StaticSymbol, ReplaceStaticSymbol
  <2> QED BY <1>o, <2>1, <2>2, <2>3 DEF MayUse
<1>6. ASSUME NEW p \in Plugin, NEW y \in Piece, ReplaceFrame(p, y)
      PROVE  /\ where'[t] # Null /\ x \notin NoOriginal
             /\ \E i \in DOMAIN hooks'[t] : hooks'[t][i].at = k /\ hooks'[t][i].piece = x
  BY <1>6, <1>o DEF ReplaceFrame
<1>7. ASSUME NEW s \in Slot, LoadDev(s), UNCHANGED frameVars
      PROVE  /\ where'[t] # Null /\ x \notin NoOriginal
             /\ \E i \in DOMAIN hooks'[t] : hooks'[t][i].at = k /\ hooks'[t][i].piece = x
  <2>1. /\ state = "running" /\ where' = [where EXCEPT ![Dev] = s] /\ hooks' = hooks
        /\ orig' = [orig EXCEPT ![s] = [y \in Piece |-> 0]]
    BY <1>7 DEF LoadDev
  <2>2. orig \in [Slot -> [Piece -> Address0]]
    BY DEF BaseInv, TypeInv
  <2>3. k # s /\ orig'[k][x] = orig[k][x]
    BY <1>t, <2>1, <2>2
  <2>4. PluginIn(k, where)
    BY <1>w, <2>1, <2>3, Membership DEF PluginIn
  <2>5. where'[t] = where[t]
    BY <1>t, <1>w, <2>1, Membership
  <2> QED BY <1>o, <2>1, <2>3, <2>4, <2>5
<1>8. CASE UnloadDev /\ UNCHANGED frameVars
  <2>1. /\ state = "running" /\ where' = [where EXCEPT ![Dev] = Null] /\ hooks' = hooks /\ orig' = orig
    BY <1>8 DEF UnloadDev
  <2>2. PluginIn(k, where)
    BY <1>w, <2>1, Membership DEF PluginIn
  <2>3. where'[t] = where[t]
    BY <1>t, <1>w, <2>1, Membership
  <2> QED BY <1>o, <2>1, <2>2, <2>3
<1>9. ASSUME NEW a \in Agent, AgentGone(a)
      PROVE  /\ where'[t] # Null /\ x \notin NoOriginal
             /\ \E i \in DOMAIN hooks'[t] : hooks'[t][i].at = k /\ hooks'[t][i].piece = x
  BY <1>9, <1>o DEF AgentGone, hookVars
<1>10. ASSUME NEW a \in Agent, NEW l \in FrameList, SysLineInit(a, l)
       PROVE  /\ where'[t] # Null /\ x \notin NoOriginal
              /\ \E i \in DOMAIN hooks'[t] : hooks'[t][i].at = k /\ hooks'[t][i].piece = x
  <2>1. state = "running" /\ where' = where /\ hooks' = hooks
    BY <1>10 DEF SysLineInit
  <2>2. x \notin FramePiece
    BY FramesAssumption
  <2>3. \A i \in DOMAIN frames[l] : frames[l][i].piece \in FramePiece
    BY DEF BaseInv, EntriesInv, FramesOf
  <2>4. orig'[k][x] = orig[k][x]
    BY <1>10, <1>t, <2>2, <2>3, ChainWrites
  <2> QED BY <1>o, <2>1, <2>4
<1> QED BY <1>1, <1>2, <1>3, <1>4, <1>5, <1>6, <1>7, <1>8, <1>9, <1>10, StepCases

\* While a module is not loaded, the originals of its hooks are null: unloading
\* it nulls them, and nothing but loading it writes them (hooks.rs nro_load,
\* nro_unload).
THEOREM OriginalsStayNulled == Spec => []OriginalsNulled
<1>1. BaseInv /\ NullInv /\ [Next]_vars => NullInv'
  BY NullStep
<1>2. BaseInv /\ NullInv => OriginalsNulled
  <2> SUFFICES ASSUME BaseInv, NullInv, state = "running", NEW m \in Module, where[m] = Null,
                      NEW e \in Range(hooks[m]), PluginAt(e.at)
               PROVE  orig[e.at][e.piece] = 0
    BY DEF OriginalsNulled
  <2>1. PICK i \in DOMAIN hooks[m] : e = hooks[m][i]
    BY DEF Range
  <2>2. hooks[m] \in Seq(Entry)
    BY DEF BaseInv, TypeInv
  <2>3. e \in Entry /\ e.piece \in SymbolPiece /\ Target[e.piece].module = m
    BY <2>1, <2>2, SeqEntry DEF BaseInv, EntriesInv, HooksOf
  <2>4. m \notin StaticModule
    BY <2>1 DEF BaseInv, EntriesInv
  <2> QED BY <2>3, <2>4, EntryAddress, PluginAtIs DEF NullInv
<1> QED BY <1>1, <1>2, NullInit, BaseHolds, PTL DEF Spec

-----------------------------------------------------------------------------
(* Chains: an address that leads through the entries at the positions ps.  *)

\* As Chain, up to position j.
Upto(es, ps, j, org, native, address) ==
  /\ \A h \in ps : h <= j /\ es[h].piece \notin NoOriginal =>
       Leads(es, ps, h, native, org[es[h].at][es[h].piece])
  /\ Leads(es, ps, j + 1, native, address)

LEMMA UptoStart ==
  ASSUME NEW es \in Seq(Entry), NEW ps \in SUBSET DOMAIN es, NEW org, NEW native
  PROVE  Upto(es, ps, 0, org, native, native)
<1>1. \A h \in ps : h \in 1..Len(es) /\ Len(es) \in Nat
  BY SeqEntry
<1>2. \A h \in ps : ~ (h <= 0) /\ h >= 0 + 1
  BY <1>1
<1> QED BY <1>2 DEF Upto, Leads

LEMMA UptoEnd ==
  ASSUME NEW es \in Seq(Entry), NEW ps \in SUBSET DOMAIN es, NEW org, NEW native, NEW address,
         Upto(es, ps, Len(es), org, native, address)
  PROVE  Chain(es, ps, org, native, address)
<1>1. \A h \in ps : h <= Len(es)
  BY SeqEntry
<1> QED BY <1>1 DEF Upto, Chain, Chained0

\* An entry that is not at one of the positions.
LEMMA UptoPast ==
  ASSUME NEW es \in Seq(Entry), NEW ps \in SUBSET DOMAIN es, NEW org, NEW native, NEW address,
         NEW j \in 1..Len(es), j \notin ps, Upto(es, ps, j - 1, org, native, address), NEW org2,
         \A h \in ps : org2[es[h].at][es[h].piece] = org[es[h].at][es[h].piece]
  PROVE  Upto(es, ps, j, org2, native, address)
<1>1. Len(es) \in Nat /\ \A h \in ps : h \in 1..Len(es)
  BY SeqEntry
<1>2. j \in Nat /\ j - 1 + 1 = j
  BY <1>1
<1>3. Leads(es, ps, j, native, address)
  BY <1>2 DEF Upto
<1>4. \A h \in ps : (h >= j => h >= j + 1) /\ (h < j + 1 => h < j) /\ (h < j => h < j + 1)
                    /\ (h <= j => h <= j - 1)
  BY <1>1, <1>2
<1>5. Leads(es, ps, j + 1, native, address)
  BY <1>3, <1>4 DEF Leads
<1>6. \A h \in ps : h <= j /\ es[h].piece \notin NoOriginal =>
        Leads(es, ps, h, native, org2[es[h].at][es[h].piece])
  BY <1>4 DEF Upto
<1> QED BY <1>5, <1>6 DEF Upto

\* An entry that is: it takes the address so far as its original.
LEMMA UptoOn ==
  ASSUME NEW es \in Seq(Entry), NEW ps \in SUBSET DOMAIN es, NEW org \in Originals, NEW native,
         NEW address \in Address0, NEW j \in ps, NEW w, NEW l, OnePerPiece(es, w, l),
         ~GoneIn(es, ps, w, l), PluginAt(es[j].at), Upto(es, ps, j - 1, org, native, address)
  PROVE  Upto(es, ps, j, Written(org, es[j], address), native, Address(es[j]))
<1> DEFINE org2 == Written(org, es[j], address)
<1>1. Len(es) \in Nat /\ \A h \in ps : h \in 1..Len(es) /\ es[h] \in Entry /\ h \in DOMAIN es
  BY SeqEntry
<1>2. j \in Nat /\ j - 1 + 1 = j
  BY <1>1
<1>3. Leads(es, ps, j, native, address)
  BY <1>2 DEF Upto
<1>4. \A h \in ps : (h < j + 1 => h <= j) /\ (h <= j => h <= j - 1 \/ h = j)
  BY <1>1, <1>2
<1>5. Leads(es, ps, j + 1, native, Address(es[j]))
  <2>1. j < j + 1
    BY <1>2
  <2> QED BY <1>4, <2>1 DEF Leads
<1>6. ASSUME NEW h \in ps, h # j
      PROVE  org2[es[h].at][es[h].piece] = org[es[h].at][es[h].piece]
  <2>1. ~ (es[h].at = es[j].at /\ es[h].piece = es[j].piece)
    BY <1>1, <1>6 DEF OnePerPiece, GoneIn
  <2>2. es[h].at \in Slot /\ es[h].piece \in Piece /\ es[j] \in Entry
    BY <1>1, EntryAddress
  <2> QED BY <2>1, <2>2, WrittenIs
<1>7. es[j].piece \notin NoOriginal => org2[es[j].at][es[j].piece] = address
  <2>1. es[j].at \in Slot /\ es[j].piece \in Piece /\ es[j] \in Entry
    BY <1>1, EntryAddress
  <2> QED BY <2>1, WrittenIs
<1> HIDE DEF org2
<1>8. ASSUME NEW h \in ps, h <= j, es[h].piece \notin NoOriginal
      PROVE  Leads(es, ps, h, native, org2[es[h].at][es[h].piece])
  <2>1. CASE h = j
    BY <1>3, <1>7, <1>8, <2>1
  <2>2. CASE h # j
    BY <1>4, <1>6, <1>8, <2>2 DEF Upto
  <2> QED BY <2>1, <2>2
<1> QED BY <1>5, <1>8 DEF Upto, org2

\* Where the originals it goes through are not written, a chain stays.
LEMMA ChainKept ==
  ASSUME NEW es, NEW ps, NEW org, NEW org2, NEW native, NEW address, Chain(es, ps, org, native, address),
         \A j \in ps : org2[es[j].at][es[j].piece] = org[es[j].at][es[j].piece]
  PROVE  Chain(es, ps, org2, native, address)
BY DEF Chain, Chained0

\* Entries added later do not change it.
LEMMA AppendIs ==
  ASSUME NEW es \in Seq(Entry), NEW e \in Entry
  PROVE  /\ Append(es, e) \in Seq(Entry) /\ Len(Append(es, e)) = Len(es) + 1 /\ Len(es) \in Nat
         /\ DOMAIN Append(es, e) = 1..Len(es) + 1 /\ DOMAIN es = 1..Len(es)
         /\ \A i \in 1..Len(es) : Append(es, e)[i] = es[i]
         /\ Append(es, e)[Len(es) + 1] = e
OBVIOUS

LEMMA ChainAppend ==
  ASSUME NEW es \in Seq(Entry), NEW e \in Entry, NEW ps \in SUBSET DOMAIN es, NEW org,
         NEW native, NEW address, Chain(es, ps, org, native, address)
  PROVE  Chain(Append(es, e), ps, org, native, address)
<1> DEFINE es2 == Append(es, e)
<1>1. /\ Len(es) \in Nat /\ \A i \in ps : i \in 1..Len(es) /\ es2[i] = es[i]
      /\ Len(es2) = Len(es) + 1
  BY AppendIs
<1> HIDE DEF es2
<1>2. \A j \in ps : \A b : Leads(es, ps, j, native, b) => Leads(es2, ps, j, native, b)
  BY <1>1 DEF Leads
<1>3. Leads(es2, ps, Len(es2) + 1, native, address)
  <2>1. Leads(es, ps, Len(es) + 1, native, address)
    BY DEF Chain
  <2>2. \A i \in ps : i < Len(es) + 1 /\ i < Len(es2) + 1 /\ ~ (i >= Len(es) + 1)
                      /\ ~ (i >= Len(es2) + 1)
    BY <1>1
  <2> QED BY <1>1, <2>1, <2>2 DEF Leads
<1> QED BY <1>1, <1>2, <1>3 DEF Chain, Chained0, es2

\* An entry that is not stale is in the image of its plugin, and no module is.
LEMMA LiveEntry ==
  ASSUME BaseInv, NEW es \in Seq(Entry), ListInv(es, where, loads, used), NEW j \in DOMAIN es,
         ~Gone(es[j], where, loads)
  PROVE  /\ es[j] \in Entry /\ es[j].by \in Plugin /\ es[j].at = where[es[j].by]
         /\ es[j].at \in Slot /\ PluginAt(es[j].at) /\ es[j].piece \in used[es[j].by]
         /\ \A m \in Module : where[m] # es[j].at
<1>1. es[j] \in Entry /\ Recorded(es[j], where, loads, used)
  BY SeqEntry DEF ListInv
<1>2. es[j].by \in Plugin /\ es[j].at \in Slot /\ es[j].at = where[es[j].by]
      /\ es[j].piece \in used[es[j].by]
  BY <1>1, EntryAddress DEF Recorded
<1>3. PluginAt(es[j].at)
  BY <1>2, PluginAtIs DEF PluginIn
<1>4. \A m \in Module : where[m] # es[j].at
  <2>1. Null \notin Slot
    BY Sizes
  <2> QED BY <1>2, <2>1, Membership DEF BaseInv, MemoryInv, Apart
<1> QED BY <1>1, <1>2, <1>3, <1>4

-----------------------------------------------------------------------------
(* Where symbols lead.                                                     *)

\* A module that is loaded without a panic or a fault: the hooks of a symbol
\* are one chain, in the order they were registered.
LEMMA LoadChains ==
  ASSUME LinkedByHash, BaseInv, NEW m \in Module, NEW s \in Slot, LoadModule(m, s),
         state' = "running"
  PROVE  /\ where'[m] = s /\ patched'[m] = hooks[m]
         /\ SymbolsLeadTo(m, hooks[m], value'[m], orig', where', loads)
<1> DEFINE es == hooks[m]
           n == Len(es)
           f == Patching(m, s)
           base == s * SlotSize
           ps(i) == Named(es, Table[m].dynsym[i].name)
           Leading(j, i) ==
             IF i \notin Defined(m) THEN f[j].value[i] = 0
             ELSE \/ GoneIn(es, ps(i), where, loads)
                  \/ Upto(es, ps(i), j, f[j].orig, base + i, (f[j].value[i] + base) % W)
           P == {j \in 0..n : \A i \in Symbols(m) : Leading(j, i)}
<1>1. /\ n \in Nat /\ es \in Seq(Entry) /\ f \in [0..n -> PatchIm(m)]
      /\ f[0] = [value |-> LinkedValue(m), orig |-> orig, state |-> "running"]
      /\ \A j \in 1..n : f[j] = LazySymbolReplace(f[j - 1], m, base, es[j])
      /\ orig' = f[n].orig /\ state' = f[n].state /\ base \in Address0
      /\ value' = [value EXCEPT ![m] = f[n].value]
  BY LoadResult
<1> HIDE DEF f
<1>2. DOMAIN es = 1..n /\ ListInv(es, where, loads, used)
  BY <1>1, SeqEntry DEF BaseInv, EntriesInv
<1>3. \A j \in 1..n : es[j] \in Entry /\ NameOf(es[j]) \in Name
  <2>1. \A j \in 1..n : es[j] \in Entry /\ es[j].piece \in SymbolPiece
    BY <1>1, <1>2, SeqEntry DEF BaseInv, EntriesInv, HooksOf
  <2> QED BY <2>1, HooksAssumption DEF NameOf
<1>4. \A j \in 0..n : f[j].state = "running"
  <2> DEFINE R == {j \in 0..n : f[j].state = "running"}
  <2>1. R \in SUBSET (0..n) /\ n \in R
    BY <1>1
  <2>2. ASSUME NEW j \in 0..n - 1, j + 1 \in R PROVE j \in R
    <3>1. j + 1 \in 1..n /\ j + 1 - 1 = j /\ j \in 0..n
      BY <1>1
    <3>2. f[j] \in PatchIm(m) /\ f[j + 1] = LazySymbolReplace(f[j], m, base, es[j + 1])
      BY <1>1, <3>1
    <3>3. f[j].state # "running" => f[j + 1] = f[j]
      BY <1>1, <1>3, <3>1, <3>2, LazyReplaceIs
    <3> QED BY <2>2, <3>1, <3>3
  <2>3. \A j \in R : f[j].state = "running"
    OBVIOUS
  <2> HIDE DEF R, n
  <2> QED BY <1>1, <2>1, <2>2, <2>3, DownFrom
<1>5. \A i \in Symbols(m) : ps(i) \in SUBSET DOMAIN es
  BY DEF Named
<1>6. 0 \in P
  <2>1. 0 \in 0..n
    BY <1>1
  <2>2. ASSUME NEW i \in Symbols(m) PROVE Leading(0, i)
    <3>1. f[0].value[i] = IF i \in Defined(m) THEN i ELSE 0
      BY <1>1 DEF LinkedValue
    <3>2. CASE i \notin Defined(m)
      BY <3>1, <3>2
    <3>3. CASE i \in Defined(m)
      <4>1. (f[0].value[i] + base) % W = base + i
        <5>1. i \in 0..SlotSize - 1
          BY Tables, Sizes
        <5>2. base + i \in Address0 /\ base + i = i + base
          BY <1>1, <5>1, AddressOf, Sizes DEF Address0
        <5> QED BY <3>1, <3>3, <5>2, Wrapping
      <4> HIDE DEF es, ps
      <4>2. Upto(es, ps(i), 0, f[0].orig, base + i, base + i)
        BY <1>1, <1>5, UptoStart
      <4> QED BY <3>3, <4>1, <4>2
    <3> QED BY <3>2, <3>3
  <2> HIDE DEF Leading
  <2> QED BY <2>1, <2>2
<1>7. ASSUME NEW j \in 1..n, j - 1 \in P PROVE j \in P
  <2> SUFFICES ASSUME NEW i \in Symbols(m) PROVE Leading(j, i)
    BY <1>1
  <2> DEFINE e == es[j]
             im == f[j - 1]
             q == GetSymbolByName(Table[m], NameOf(e))
             name == Table[m].dynsym[i].name
  <2>1. im \in PatchIm(m) /\ e \in Entry /\ NameOf(e) \in Name /\ j \in 0..n
        /\ f[j] = LazySymbolReplace(im, m, base, e)
    BY <1>1, <1>3
  <2>2. im.state = "running" /\ f[j].state = "running"
    BY <1>4, <2>1
  <2>3. Leading(j - 1, i)
    BY <1>7
  <2>4. \/ q = 0 /\ f[j] = im
        \/ q \in Providers(Table[m], NameOf(e)) /\ Replaces(m, base, q, e, im, f[j])
    BY <1>1, <2>1, <2>2, LazyReplaceIs
  <2>5. \A h \in Providers(Table[m], NameOf(e)) :
          h \in Symbols(m) /\ h \in Defined(m) /\ Table[m].dynsym[h].name = NameOf(e)
    BY DEF Providers, Provides, Defined, Symbols
  <2>6. im.value \in [Symbols(m) -> Address0] /\ im.orig \in Originals
    BY <2>1 DEF PatchIm
  <2>v. \A h \in Symbols(m) : (im.value[h] + base) % W \in Address0
    BY <1>1, <2>6, Wrapping
  <2>7. CASE i \notin Defined(m)
    <3>1. f[j].value[i] = im.value[i]
      BY <2>4, <2>5, <2>6, <2>7 DEF Replaces
    <3> QED BY <2>3, <2>7, <3>1
  <2>8. CASE i \in Defined(m) /\ ~GoneIn(es, ps(i), where, loads) /\ NameOf(e) = name
    <3>1. j \in ps(i)
      BY <1>2, <2>8 DEF Named
    <3>2. q = i /\ i # 0
      <4>1. 0 \notin Symbols(m)
        BY Tables
      <4> QED BY <2>8, <4>1, NameFound
    <3>3. Replaces(m, base, i, e, im, f[j])
      BY <2>4, <3>2
    <3>4. f[j].value[i] = Difference(Address(e), base) /\ Address(e) \in Address0
      BY <2>1, <2>6, <3>3, EntryAddress DEF Replaces
    <3>5. (f[j].value[i] + base) % W = Address(e)
      BY <1>1, <3>4, Wrapping
    <3>6. f[j].orig = Written(im.orig, e, (im.value[i] + base) % W)
      BY <3>3 DEF Replaces
    <3>7. PluginAt(e.at)
      <4>1. ~Gone(e, where, loads)
        BY <2>8, <3>1 DEF GoneIn
      <4> QED BY <1>1, <1>2, <4>1, LiveEntry
    <3>8. Upto(es, ps(i), j - 1, im.orig, base + i, (im.value[i] + base) % W)
      BY <2>3, <2>8
    <3>9. OnePerPiece(es, where, loads)
      BY <1>2 DEF ListInv
    <3>10. Upto(es, ps(i), j, f[j].orig, base + i, Address(e))
      <4>1. (im.value[i] + base) % W \in Address0
        BY <2>v
      <4>2. ps(i) \in SUBSET DOMAIN es /\ es \in Seq(Entry)
        BY <1>1, <1>5
      <4> HIDE DEF es, ps, im
      <4> QED BY <2>6, <2>8, <3>1, <3>6, <3>7, <3>8, <3>9, <4>1, <4>2, UptoOn
    <3> QED BY <2>8, <3>5, <3>10
  <2>9. CASE i \in Defined(m) /\ ~GoneIn(es, ps(i), where, loads) /\ NameOf(e) # name
    <3>1. j \notin ps(i)
      BY <2>9 DEF Named
    <3>2. f[j].value[i] = im.value[i]
      BY <2>4, <2>5, <2>6, <2>9 DEF Replaces
    <3>3. ASSUME NEW h \in ps(i)
          PROVE  f[j].orig[es[h].at][es[h].piece] = im.orig[es[h].at][es[h].piece]
      <4>1. es[h] \in Entry /\ NameOf(es[h]) = name
        BY <1>2, <1>3 DEF Named
      <4>2. es[h].piece # e.piece /\ es[h].at \in Slot /\ es[h].piece \in Piece
        BY <2>9, <4>1, EntryAddress DEF NameOf
      <4>3. CASE Replaces(m, base, q, e, im, f[j]) /\ q \in Symbols(m)
        <5>1. f[j].orig = Written(im.orig, e, (im.value[q] + base) % W)
          BY <4>3 DEF Replaces
        <5>2. (im.value[q] + base) % W \in Address0
          BY <2>v, <4>3
        <5> HIDE DEF e, im, q, es
        <5> QED BY <2>1, <2>6, <4>2, <5>1, <5>2, WrittenIs
      <4> QED BY <2>4, <2>5, <4>3
    <3>4. Upto(es, ps(i), j - 1, im.orig, base + i, (im.value[i] + base) % W)
      BY <2>3, <2>9
    <3>5. Upto(es, ps(i), j, f[j].orig, base + i, (im.value[i] + base) % W)
      <4>1. ps(i) \in SUBSET DOMAIN es /\ es \in Seq(Entry)
        BY <1>1, <1>5
      <4> HIDE DEF es, ps, im
      <4> QED BY <3>1, <3>3, <3>4, <4>1, UptoPast
    <3> QED BY <2>9, <3>2, <3>5
  <2> QED BY <2>7, <2>8, <2>9
<1>8. n \in P
  <2>1. P \in SUBSET (0..n) /\ n \in 0..n
    BY <1>1
  <2> HIDE DEF P, n
  <2> QED BY <1>1, <1>6, <1>7, <2>1, UpTo
<1>9. where'[m] = s /\ patched'[m] = hooks[m] /\ value'[m] = f[n].value
      /\ where'[Dev] = where[Dev]
  <2>1. where' = [where EXCEPT ![m] = s] /\ patched' = [patched EXCEPT ![m] = hooks[m]]
    BY DEF LoadModule
  <2>2. where \in [Image -> Slot \cup {Null}] /\ patched \in [Module -> Seq(Entry)]
        /\ value = [k \in Module |-> value[k]]
    BY DEF BaseInv, TypeInv
  <2> QED BY <1>1, <2>1, <2>2, Membership
<1>10. \A i \in Symbols(m) : GoneIn(es, ps(i), where, loads) => GoneIn(es, ps(i), where', loads)
  BY <1>9 DEF GoneIn, Gone
<1>11. ASSUME NEW i \in Symbols(m)
       PROVE  IF i \notin Defined(m) THEN value'[m][i] = 0
              ELSE \/ GoneIn(es, ps(i), where', loads)
                   \/ Chain(es, ps(i), orig', base + i, (value'[m][i] + base) % W)
  <2>1. Leading(n, i)
    BY <1>8
  <2>2. ps(i) \in SUBSET DOMAIN es
    BY <1>5
  <2>3. Upto(es, ps(i), n, f[n].orig, base + i, (f[n].value[i] + base) % W)
          => Chain(es, ps(i), f[n].orig, base + i, (f[n].value[i] + base) % W)
    <3> HIDE DEF es, ps
    <3> QED BY <1>1, <2>2, UptoEnd
  <2> QED BY <1>1, <1>9, <1>10, <2>1, <2>3
<1> QED BY <1>9, <1>11 DEF SymbolsLeadTo

\* Where the originals of the live patches of a module are not written, its
\* symbols lead where they did.
LEMMA SymbolsKept ==
  ASSUME NEW m \in Module, NEW es \in Seq(Entry), NEW val, NEW org, NEW org2,
         NEW w, NEW l, NEW u, NEW w2, NEW l2, NEW u2, Keeps(w, l, u, w2, l2, u2),
         ListInv(es, w, l, u), SymbolsLeadTo(m, es, val, org, w, l), w2[m] = w[m],
         \A j \in DOMAIN es :
           ~Gone(es[j], w2, l2) => org2[es[j].at][es[j].piece] = org[es[j].at][es[j].piece]
  PROVE  SymbolsLeadTo(m, es, val, org2, w2, l2)
<1> SUFFICES ASSUME NEW i \in Symbols(m)
             PROVE  LET ps == Named(es, Table[m].dynsym[i].name)
                        base == w2[m] * SlotSize
                    IN IF i \notin Defined(m) THEN val[i] = 0
                       ELSE \/ GoneIn(es, ps, w2, l2)
                            \/ Chain(es, ps, org2, base + i, (val[i] + base) % W)
  BY DEF SymbolsLeadTo
<1> DEFINE ps == Named(es, Table[m].dynsym[i].name)
           base == w[m] * SlotSize
<1>1. IF i \notin Defined(m) THEN val[i] = 0
      ELSE GoneIn(es, ps, w, l) \/ Chain(es, ps, org, base + i, (val[i] + base) % W)
  BY DEF SymbolsLeadTo
<1>2. ps \in SUBSET DOMAIN es
  BY DEF Named
<1> HIDE DEF ps
<1>3. GoneIn(es, ps, w, l) => GoneIn(es, ps, w2, l2)
  BY <1>2, KeptGone
<1>4. ASSUME ~GoneIn(es, ps, w2, l2), Chain(es, ps, org, base + i, (val[i] + base) % W)
      PROVE  Chain(es, ps, org2, base + i, (val[i] + base) % W)
  <2>1. \A j \in ps : org2[es[j].at][es[j].piece] = org[es[j].at][es[j].piece]
    BY <1>2, <1>4 DEF GoneIn
  <2> HIDE DEF base
  <2> QED BY <1>4, <2>1, ChainKept
<1> QED BY <1>1, <1>3, <1>4 DEF ps

\* The loader resolves a symbol to the game's function, or to a replacement.
LEMMA WhereTo ==
  ASSUME BaseInv, NEW m \in Module, where[m] \in Slot,
         SymbolsLeadTo(m, patched[m], value[m], orig, where, loads),
         NEW i \in Defined(m), ~AnyGone(patched[m], where, loads)
  PROVE  LET ps == Named(patched[m], Table[m].dynsym[i].name)
         IN \/ ps = {} /\ Resolved(m, i) = Base(m) + i /\ Resolved(m, i) \div SlotSize = where[m]
            \/ /\ ps # {} /\ \E p \in Plugin : where[p] = Resolved(m, i) \div SlotSize
               /\ \A k \in Module : where[k] # Resolved(m, i) \div SlotSize
               /\ \E j \in ps : /\ Resolved(m, i) = Address(patched[m][j])
                               /\ PluginAt(patched[m][j].at) /\ patched[m][j] \in Entry
<1> DEFINE es == patched[m]
           ps == Named(es, Table[m].dynsym[i].name)
           a == Resolved(m, i)
<1>1. i \in Symbols(m) /\ es \in Seq(Entry) /\ ListInv(es, where, loads, used)
  BY DEF Defined, BaseInv, TypeInv, EntriesInv
<1>2. ps \in SUBSET DOMAIN es /\ ~GoneIn(es, ps, where, loads)
  BY DEF Named, AnyGone, GoneIn
<1>3. Chain(es, ps, orig, Base(m) + i, a)
  BY <1>1, <1>2 DEF SymbolsLeadTo, Resolved, Base
<1>4. \A j \in DOMAIN es : j \in 1..Len(es) /\ Len(es) \in Nat
  BY <1>1, SeqEntry
<1>5. (Base(m) + i) \div SlotSize = where[m]
  BY <1>1, SymbolAddress
<1> HIDE DEF a, ps, es
<1>6. CASE a = Base(m) + i /\ \A j \in ps : j >= Len(es) + 1
  <2>1. ps = {}
    BY <1>2, <1>4, <1>6
  <2> QED BY <1>5, <1>6, <2>1 DEF a, ps, es
<1>7. CASE \E j \in ps : a = Address(es[j])
  <2>1. PICK j \in ps : a = Address(es[j])
    BY <1>7
  <2>2. j \in DOMAIN es /\ ~Gone(es[j], where, loads)
    BY <1>2 DEF GoneIn
  <2>3. /\ es[j] \in Entry /\ es[j].by \in Plugin /\ es[j].at = where[es[j].by]
        /\ \A k \in Module : where[k] # es[j].at
    BY <1>1, <2>2, LiveEntry
  <2>4. a \div SlotSize = es[j].at
    BY <2>1, <2>3, EntryAddress
  <2>5. PluginAt(es[j].at)
    BY <1>1, <2>2, LiveEntry
  <2> QED BY <2>1, <2>3, <2>4, <2>5 DEF a, ps, es
<1> QED BY <1>3, <1>6, <1>7 DEF Chain, Leads

\* Where two numbers differ by as much.
LEMMA Cancel ==
  ASSUME NEW v \in Address0, NEW b \in Address0
  PROVE  Difference((v + b) % W, b) = v
<1>1. W \in Nat \ {0} /\ v \in Nat /\ b \in Nat /\ v < W /\ b < W
  BY Sizes DEF Address0
<1>2. CASE v + b < W
  <2>1. (v + b) % W = v + b
    <3>1. \A n \in 0..W - 1 : n % W = n
      BY <1>1
    <3> QED BY <1>1, <1>2, <3>1
  <2>2. ((v + b) % W) - b = v /\ v % W = v
    BY <1>1, <2>1, Wrapping
  <2> QED BY <2>2, Zenon DEF Difference
<1>3. CASE v + b >= W
  <2>1. (v + b) % W = v + b - W
    BY <1>1, <1>3
  <2>2. ((v + b) % W) - b = v - W /\ (v - W) % W = v
    BY <1>1, <2>1
  <2> QED BY <2>2, Zenon DEF Difference
<1> QED BY <1>1, <1>2, <1>3

\* Replacing a static symbol changes nothing if it has been replaced before,
\* and else puts the piece in place of the game's function.
StaticPuts(p, x, i) ==
  LET m == Target[x].module
      e == NewEntry(p, x)
  IN /\ Table[m].dynsym[i].name = NameOf(e) /\ Named(patched[m], NameOf(e)) = {}
     /\ patched' = [patched EXCEPT ![m] = Append(patched[m], e)]
     /\ value' = [value EXCEPT ![m] = [value[m] EXCEPT ![i] = Difference(Address(e), Base(m))]]
     /\ orig' = Written(orig, e, Base(m) + i)
LEMMA StaticEffect ==
  ASSUME LinkedByHash, BaseInv, ChainInv, NEW p \in Plugin, NEW x \in Piece, StaticSymbol(p, x),
         ~StaticGone(patched, where, loads)
  PROVE  /\ state' # "faulted"
         /\ \/ state' = "panicked"
            \/ UNCHANGED <<value, orig, patched>>
            \/ \E i \in Defined(Target[x].module) : StaticPuts(p, x, i)
<1> DEFINE m == Target[x].module
           e == NewEntry(p, x)
           es == patched[m]
<1>1. /\ MayUse(p, x) /\ x \in SymbolPiece /\ m \in StaticModule /\ m \in Module
      /\ where[m] \in Slot /\ state = "running"
  BY StaticCases DEF MayUse
<1>2. PICK i \in Defined(m), address \in Address0, byName \in BOOLEAN :
        /\ Table[m].dynsym[i].name = Target[x].name
        /\ ReplaceStaticSymbol(p, x, address, byName)
        /\ address = Resolved(m, i) \/ (address = Base(m) + i /\ ~byName)
  BY StaticCases
<1>3. /\ patched' = [patched EXCEPT ![m] = FirstPatch(m, e)]
      /\ \/ /\ \A o \in Image : where[o] # address \div SlotSize
            /\ state' = "faulted" /\ UNCHANGED <<value, orig>>
         \/ /\ \E o \in Plugin : where[o] = address \div SlotSize
            /\ UNCHANGED <<state, value, orig>>
         \/ \E o \in Module : \E im \in PatchIm(o) : StaticPatch(o, im, p, x, address, byName)
  BY <1>1, <1>2, StaticResult
<1>4. /\ e \in Entry /\ e.at = where[p] /\ NameOf(e) = Target[x].name /\ e.piece = x
  <2>1. where[p] # Null
    BY <1>1 DEF MayUse
  <2> QED BY <2>1, NewEntryIs DEF NameOf, BaseInv
<1>5. PluginAt(e.at)
  BY <1>4, PluginAtIs DEF PluginIn
<1>6. i \in Symbols(m) /\ es \in Seq(Entry)
  BY <1>1 DEF Defined, BaseInv, TypeInv
<1>7. /\ Base(m) \in Address0 /\ Base(m) + i \in Address0
      /\ (Base(m) + i) \div SlotSize = where[m]
  BY <1>1, <1>6, SymbolAddress
<1>8. ~AnyGone(es, where, loads)
  BY <1>1 DEF StaticGone
<1>9. SymbolsLeadTo(m, es, value[m], orig, where, loads)
  <2>1. where[m] # Null
    BY <1>1, Sizes
  <2> QED BY <1>1, <2>1 DEF ChainInv
<1>to. ASSUME NEW h \in Defined(m)
       PROVE  LET ps == Named(es, Table[m].dynsym[h].name)
              IN \/ ps = {} /\ Resolved(m, h) = Base(m) + h /\ Resolved(m, h) \div SlotSize = where[m]
                 \/ /\ ps # {} /\ \E q \in Plugin : where[q] = Resolved(m, h) \div SlotSize
                    /\ \A k \in Module : where[k] # Resolved(m, h) \div SlotSize
  BY <1>1, <1>8, <1>9, WhereTo
<1>apart. \A o \in Image : where[o] = where[m] => o = m
  <2>1. where[m] # Null /\ m \in Image
    BY <1>1, Sizes, Membership
  <2> QED BY <2>1 DEF BaseInv, MemoryInv, Apart
<1>mp. m \in Image /\ m \notin Plugin /\ Plugin \subseteq Image /\ Module \subseteq Image
  BY <1>1, Membership
<1>val. /\ value = [k \in Module |-> value[k]] /\ value[m] \in [Symbols(m) -> Address0]
        /\ patched \in [Module -> Seq(Entry)] /\ orig \in Originals
  BY <1>1 DEF BaseInv, TypeInv, Originals
<1>first. \/ FirstPatch(m, e) = es /\ Named(es, NameOf(e)) # {}
          \/ FirstPatch(m, e) = Append(es, e) /\ Named(es, NameOf(e)) = {}
  BY <1>1, <1>4, <1>6, FirstPatchIs DEF Named
<1> HIDE DEF m, e, es
\* What is done to the module, if the address lies in it.
<1>10. ASSUME address = Base(m) + i
       PROVE  \E im \in PatchIm(m) : StaticPatch(m, im, p, x, address, byName)
  <2>1. address \div SlotSize = where[m]
    BY <1>7, <1>10
  <2>2. \E o \in Module : \E im \in PatchIm(o) : StaticPatch(o, im, p, x, address, byName)
    BY <1>3, <1>apart, <1>mp, <2>1
  <2>3. PICK o \in Module : \E im \in PatchIm(o) : StaticPatch(o, im, p, x, address, byName)
    BY <2>2
  <2>4. where[o] = where[m]
    BY <2>1, <2>3 DEF StaticPatch
  <2> QED BY <1>apart, <1>mp, <2>3, <2>4
<1>11. ASSUME NEW h \in Symbols(m), ~byName, address = Base(m) + i,
              h \in Sought(m, p, x, address, byName)
       PROVE  h = i /\ Resolved(m, i) = Base(m) + i
  <2>1. h \in Defined(m) /\ value[m][h] = Difference(address, Base(m))
    BY <1>11 DEF Sought, Valued, Defined
  <2>2. Resolved(m, h) = address
    BY <1>2, <1>7, <2>1, Wrapping DEF Resolved
  <2>3. Resolved(m, h) = Base(m) + h
    BY <1>1, <1>7, <1>11, <1>to, <2>1, <2>2
  <2>4. Base(m) \in Nat /\ h \in Nat /\ i \in Nat
    <3>1. Symbols(m) = 1..Len(Table[m].dynsym) /\ Len(Table[m].dynsym) \in Nat
      BY <1>1, Tables
    <3>2. Symbols(m) \subseteq Nat
      BY <3>1
    <3> QED BY <1>6, <1>7, <3>2, Sizes
  <2>5. h = i
    BY <1>11, <2>2, <2>3, <2>4
  <2> QED BY <2>3, <2>5
<1>12. CASE Named(es, NameOf(e)) # {} /\ address = Resolved(m, i)
  <2>1. /\ \E q \in Plugin : where[q] = address \div SlotSize
        /\ \A k \in Module : where[k] # address \div SlotSize
    BY <1>2, <1>4, <1>12, <1>to
  <2>2. UNCHANGED <<state, value, orig>>
    BY <1>3, <1>mp, <2>1 DEF StaticPatch
  <2>3. patched' = patched
    BY <1>3, <1>12, <1>first, <1>val DEF es
  <2> QED BY <1>1, <2>2, <2>3
<1>13. CASE Named(es, NameOf(e)) # {} /\ address # Resolved(m, i)
  <2>1. address = Base(m) + i /\ ~byName
    BY <1>2, <1>13
  <2>2. PICK im \in PatchIm(m) : StaticPatch(m, im, p, x, address, byName)
    BY <1>10, <2>1
  <2>3. state' = im.state /\ orig' = im.orig /\ value' = [value EXCEPT ![m] = im.value]
    BY <2>2 DEF StaticPatch
  <2>4. \/ im.state = "panicked"
        \/ im = StaticImage(m)
        \/ \E h \in Symbols(m) : h \in Sought(m, p, x, address, byName)
    BY <2>2 DEF StaticPatch
  <2>5. im.state = "panicked" \/ im = StaticImage(m)
    BY <1>11, <1>13, <2>1, <2>4
  <2>6. CASE im = StaticImage(m)
    <3>1. im.state = "running" /\ im.orig = orig /\ im.value = value[m]
      BY <2>6 DEF StaticImage
    <3>2. value' = value
      BY <1>val, <2>3, <3>1
    <3>3. patched' = patched
      BY <1>3, <1>13, <1>first, <1>val DEF es
    <3> QED BY <2>3, <3>1, <3>2, <3>3
  <2> QED BY <2>3, <2>5, <2>6
<1>14. CASE Named(es, NameOf(e)) = {}
  <2>1. Resolved(m, i) = Base(m) + i /\ address = Base(m) + i
    BY <1>2, <1>4, <1>14, <1>to
  <2>2. PICK im \in PatchIm(m) : StaticPatch(m, im, p, x, address, byName)
    BY <1>10, <2>1
  <2> DEFINE h == Lookup(m, p, x, address, byName)
  <2>3. /\ state' = im.state /\ orig' = im.orig /\ value' = [value EXCEPT ![m] = im.value]
        /\ \/ im.state = "panicked"
           \/ h = 0
           \/ /\ h \in Sought(m, p, x, address, byName) /\ h \in Symbols(m)
              /\ Replaces(m, Base(m), h, e, StaticImage(m), im)
    BY <2>2 DEF StaticPatch, e
  <2>4. h # 0
    <3>1. CASE byName
      <4>1. GetSymbolByName(Table[m], Target[x].name) = i
        BY <1>1, <1>2, NameFound
      <4>2. 0 \notin Symbols(m)
        BY <1>1, Tables
      <4> QED BY <1>6, <3>1, <4>1, <4>2 DEF Lookup
    <3>2. CASE ~byName
      <4>1. value[m][i] \in Address0
        BY <1>6, <1>val
      <4>2. value[m][i] = Difference(address, Base(m))
        BY <1>7, <2>1, <4>1, Cancel DEF Resolved
      <4>3. i \in Valued(m, value[m], Difference(address, Base(m)))
        BY <1>6, <4>2 DEF Valued, Defined
      <4> QED BY <1>1, <3>2, <4>3, ValueFound DEF Lookup
    <3> QED BY <3>1, <3>2
  <2>5. h \in Sought(m, p, x, address, byName) /\ h \in Symbols(m) => h = i
    <3>1. CASE byName
      <4>1. Providers(Table[m], Target[x].name) = {i}
        BY <1>1, <1>2, NameFound
      <4> QED BY <3>1, <4>1 DEF Sought
    <3>2. CASE ~byName
      <4> HIDE DEF h
      <4> QED BY <1>11, <2>1, <3>2
    <3> QED BY <3>1, <3>2
  <2> HIDE DEF h
  <2>6. CASE Replaces(m, Base(m), i, e, StaticImage(m), im)
    <3>1. StaticImage(m).state = "running" /\ StaticImage(m).orig = orig /\ StaticImage(m).value = value[m]
      BY DEF StaticImage
    <3>2. /\ im.value = [value[m] EXCEPT ![i] = Difference(Address(e), Base(m))]
          /\ im.orig = Written(orig, e, Base(m) + i)
          /\ im.state = "running"
      BY <1>5, <2>1, <2>6, <3>1 DEF Replaces, Resolved, WrittenState
    <3>3. patched' = [patched EXCEPT ![m] = Append(patched[m], e)]
      BY <1>3, <1>14, <1>first DEF es
    <3>4. Table[m].dynsym[i].name = NameOf(e)
      BY <1>2, <1>4
    <3> QED BY <1>14, <2>3, <3>2, <3>3, <3>4 DEF StaticPuts, m, e, es
  <2> QED BY <2>3, <2>4, <2>5, <2>6
<1> QED BY <1>12, <1>13, <1>14 DEF m

\* The chains of a static module with one more patch, the first of its symbol.
LEMMA PutChains ==
  ASSUME BaseInv, NEW m \in Module, where[m] \in Slot,
         SymbolsLeadTo(m, patched[m], value[m], orig, where, loads),
         NEW e \in Entry, PluginAt(e.at), NEW i \in Defined(m),
         Table[m].dynsym[i].name = NameOf(e), Named(patched[m], NameOf(e)) = {}
  PROVE  SymbolsLeadTo(m, Append(patched[m], e),
                       [value[m] EXCEPT ![i] = Difference(Address(e), Base(m))],
                       Written(orig, e, Base(m) + i), where, loads)
<1> DEFINE es == patched[m]
           es2 == Append(es, e)
           n == Len(es)
           v2 == [value[m] EXCEPT ![i] = Difference(Address(e), Base(m))]
           org2 == Written(orig, e, Base(m) + i)
           base == where[m] * SlotSize
<1>1. /\ es \in Seq(Entry) /\ es2 \in Seq(Entry) /\ Len(es2) = n + 1 /\ n \in Nat
      /\ DOMAIN es2 = 1..n + 1 /\ DOMAIN es = 1..n
      /\ \A j \in 1..n : es2[j] = es[j] /\ es[j] \in Entry
      /\ es2[n + 1] = e
  <2>1. es \in Seq(Entry)
    BY DEF BaseInv, TypeInv
  <2> HIDE DEF es
  <2> QED BY <2>1, AppendIs, SeqEntry
<1>2. /\ i \in Symbols(m) /\ value[m] \in [Symbols(m) -> Address0] /\ orig \in Originals
      /\ base = Base(m) /\ Base(m) \in Address0 /\ Base(m) + i \in Address0
      /\ e.piece \in Piece /\ e.at \in Slot /\ Address(e) \in Address0
  <2>1. i \in Symbols(m)
    BY DEF Defined
  <2> QED BY <2>1, SymbolAddress, EntryAddress DEF BaseInv, TypeInv, Originals, Base
<1>3. /\ \A h \in Symbols(m) \ {i} : v2[h] = value[m][h]
      /\ (v2[i] + base) % W = Address(e)
  BY <1>2, Wrapping
<1>4. \A k \in Slot, y \in Piece :
        org2[k][y] = IF k = e.at /\ y = e.piece /\ y \notin NoOriginal THEN Base(m) + i ELSE orig[k][y]
  BY <1>2, WrittenIs
<1> HIDE DEF es2, es, n, v2, org2, base
<1>5. ASSUME NEW h \in Symbols(m) \ {i}, h \in Defined(m)
      PROVE  LET ps == Named(es2, Table[m].dynsym[h].name)
             IN GoneIn(es2, ps, where, loads) \/ Chain(es2, ps, org2, base + h, (v2[h] + base) % W)
  <2> DEFINE name == Table[m].dynsym[h].name
             ps == Named(es, name)
  <2>1. name # NameOf(e)
    BY <1>5, TablesAssumption
  <2>2. ps = Named(es2, name)
    <3>1. \A j \in 1..n + 1 : j \in 1..n \/ j = n + 1
      BY <1>1
    <3>2. 1..n \subseteq 1..n + 1
      BY <1>1
    <3> QED BY <1>1, <2>1, <3>1, <3>2 DEF Named
  <2>3. ps \in SUBSET DOMAIN es
    BY DEF Named
  <2>4. GoneIn(es, ps, where, loads) \/ Chain(es, ps, orig, base + h, (value[m][h] + base) % W)
    BY <1>5 DEF SymbolsLeadTo, es, base
  <2>5. \A j \in ps : org2[es2[j].at][es2[j].piece] = orig[es2[j].at][es2[j].piece]
    <3> SUFFICES ASSUME NEW j \in ps
                 PROVE  org2[es2[j].at][es2[j].piece] = orig[es2[j].at][es2[j].piece]
      OBVIOUS
    <3>1. es2[j] \in Entry /\ NameOf(es2[j]) = name
      BY <1>1, <2>3 DEF Named
    <3> QED BY <1>4, <2>1, <3>1, EntryAddress DEF NameOf
  <2>6. GoneIn(es, ps, where, loads) => GoneIn(es2, ps, where, loads)
    BY <1>1, <2>3 DEF GoneIn
  <2> HIDE DEF ps, name
  <2>7. ASSUME Chain(es, ps, orig, base + h, (value[m][h] + base) % W)
        PROVE  Chain(es2, ps, org2, base + h, (value[m][h] + base) % W)
    <3> DEFINE a == (value[m][h] + base) % W
               native == base + h
    <3> HIDE DEF a, native
    <3>0. Chain(es, ps, orig, native, a)
      BY <2>7 DEF a, native
    <3>1. Chain(es2, ps, orig, native, a)
      BY <1>1, <2>3, <3>0, ChainAppend DEF es2
    <3>2. Chain(es2, ps, org2, native, a)
      BY <2>5, <3>1, ChainKept
    <3> QED BY <3>2 DEF a, native
  <2> QED BY <1>3, <2>2, <2>4, <2>6, <2>7 DEF name
<1>6. Chain(es2, Named(es2, Table[m].dynsym[i].name), org2, base + i, (v2[i] + base) % W)
  <2>1. Named(es2, NameOf(e)) = {n + 1}
    <3>1. \A j \in 1..n + 1 : j \in 1..n \/ j = n + 1
      BY <1>1
    <3>2. 1..n \subseteq 1..n + 1 /\ n + 1 \in 1..n + 1
      BY <1>1
    <3>3. \A j \in 1..n : NameOf(es[j]) # NameOf(e)
      BY <1>1 DEF Named, es
    <3> QED BY <1>1, <3>1, <3>2, <3>3 DEF Named
  <2>2. Leads(es2, {n + 1}, n + 1 + 1, base + i, Address(e))
    <3>1. n + 1 < n + 1 + 1 /\ n + 1 <= n + 1
      BY <1>1
    <3> QED BY <1>1, <3>1 DEF Leads
  <2>3. Leads(es2, {n + 1}, n + 1, base + i, base + i)
    <3>1. n + 1 >= n + 1
      BY <1>1
    <3> QED BY <3>1 DEF Leads
  <2>4. e.piece \notin NoOriginal => org2[e.at][e.piece] = base + i
    BY <1>2, <1>4
  <2> QED BY <1>1, <1>3, <2>1, <2>2, <2>3, <2>4 DEF Chain, Chained0
<1>7. ASSUME NEW h \in Symbols(m), h \notin Defined(m)
      PROVE  v2[h] = 0
  <2>1. h # i
    BY <1>7
  <2>2. value[m][h] = 0
    BY <1>7 DEF SymbolsLeadTo
  <2> QED BY <1>3, <2>1, <2>2
<1> QED BY <1>5, <1>6, <1>7 DEF SymbolsLeadTo, es2, es, v2, org2, base

\* What is stale in the list of patches of a static module stays there.
LEMMA StaticKept ==
  ASSUME BaseInv, [Next]_vars, StaticGone(patched, where, loads)
  PROVE  StaticGone(patched', where', loads')
<1>1. PICK s \in StaticModule : AnyGone(patched[s], where, loads)
  BY DEF StaticGone
<1>2. s \in Module /\ patched[s] \in Seq(Entry) /\ ListInv(patched[s], where, loads, used)
  <2>1. s \in Module
    BY Membership
  <2> QED BY <2>1 DEF BaseInv, TypeInv, EntriesInv
<1>3. Keeps(where, loads, used, where', loads', used')
  BY BaseStep
<1>4. PICK j \in DOMAIN patched[s] : Gone(patched[s][j], where', loads')
  BY <1>1, <1>2, <1>3, KeptList DEF AnyGone, GoneIn
<1>5. patched'[s] = patched[s] \/ \E e \in Entry : patched'[s] = Append(patched[s], e)
  <2>t. patched \in [Module -> Seq(Entry)]
    BY DEF BaseInv, TypeInv
  <2>1. CASE UNCHANGED patched
    BY <2>1
  <2>2. ASSUME NEW m \in Module, NEW k \in Slot, LoadModule(m, k) PROVE patched'[s] = patched[s]
    <3>1. m \notin StaticModule
      BY <2>2, LoadResult
    <3> QED BY <1>1, <2>2, <2>t, <3>1 DEF LoadModule
  <2>3. ASSUME NEW m \in Module, UnloadModule(m) PROVE patched'[s] = patched[s]
    BY <1>1, <2>3, <2>t DEF UnloadModule
  <2>4. ASSUME NEW p \in Plugin, NEW x \in Piece, StaticSymbol(p, x)
        PROVE  patched'[s] = patched[s] \/ \E e \in Entry : patched'[s] = Append(patched[s], e)
    <3> DEFINE m == Target[x].module
               e == NewEntry(p, x)
    <3>1. patched' = [patched EXCEPT ![m] = FirstPatch(m, e)] /\ m \in Module
      <4>1. m \in Module
        BY <2>4, HooksAssumption DEF StaticSymbol
      <4>2. PICK address, byName : ReplaceStaticSymbol(p, x, address, byName)
        BY <2>4 DEF StaticSymbol
      <4> QED BY <4>1, <4>2 DEF ReplaceStaticSymbol
    <3>2. e \in Entry
      BY <2>4, NewEntryIs DEF StaticSymbol, MayUse, BaseInv
    <3>3. patched[m] \in Seq(Entry)
      BY <2>t, <3>1
    <3> HIDE DEF m, e
    <3>4. FirstPatch(m, e) \in {patched[m], Append(patched[m], e)}
      BY <3>1, <3>2, <3>3, FirstPatchIs
    <3> QED BY <1>2, <2>t, <3>1, <3>2, <3>4
  <2>5. UNCHANGED vars => UNCHANGED patched
    BY DEF vars, hookVars
  <2>6. \A p \in Plugin, x \in Piece : ReplaceSymbol(p, x) \/ ReplaceFrame(p, x) => UNCHANGED patched
    BY DEF ReplaceSymbol, ReplaceFrame
  <2>7. (\E k \in Slot : LoadDev(k)) \/ UnloadDev => UNCHANGED patched
    BY DEF LoadDev, UnloadDev
  <2>8. \A a \in Agent : AgentGone(a) \/ (\E l \in FrameList : SysLineInit(a, l)) => UNCHANGED patched
    BY DEF AgentGone, SysLineInit, hookVars
  <2> QED BY <2>1, <2>2, <2>3, <2>4, <2>5, <2>6, <2>7, <2>8, StepCases
<1>6. \A e \in Entry : j \in DOMAIN Append(patched[s], e) /\ Append(patched[s], e)[j] = patched[s][j]
  <2> DEFINE es == patched[s]
  <2>1. es \in Seq(Entry) /\ j \in DOMAIN es
    BY <1>2
  <2> HIDE DEF es
  <2>2. Len(es) \in Nat /\ j \in 1..Len(es)
    BY <2>1, SeqEntry
  <2>3. 1..Len(es) \subseteq 1..Len(es) + 1
    BY <2>2
  <2>4. ASSUME NEW e \in Entry PROVE j \in DOMAIN Append(es, e) /\ Append(es, e)[j] = es[j]
    BY <2>1, <2>2, <2>3, AppendIs
  <2> QED BY <2>4 DEF es
<1>7. j \in DOMAIN patched'[s] /\ patched'[s][j] = patched[s][j]
  BY <1>5, <1>6
<1>8. AnyGone(patched'[s], where', loads')
  BY <1>4, <1>7 DEF AnyGone, GoneIn
<1> QED BY <1>1, <1>8 DEF StaticGone

LEMMA ChainInit == Init => ChainInv
<1> SUFFICES ASSUME Init, NEW m \in Module, where[m] # Null
             PROVE  SymbolsLeadTo(m, patched[m], value[m], orig, where, loads)
  BY DEF ChainInv
<1>1. BaseInv
  BY BaseInit
<1>2. patched[m] = <<>> /\ value[m] = LinkedValue(m)
  BY DEF Init, HooksInit
<1>3. where[m] \in Slot
  BY <1>1, Membership DEF BaseInv, TypeInv
<1> SUFFICES ASSUME NEW i \in Symbols(m), i \in Defined(m)
             PROVE  LET ps == Named(<<>>, Table[m].dynsym[i].name)
                        base == where[m] * SlotSize
                    IN Chain(<<>>, ps, orig, base + i, (value[m][i] + base) % W)
  <2>1. \A i \in Symbols(m) \ Defined(m) : value[m][i] = 0
    BY <1>2 DEF LinkedValue
  <2> QED BY <1>2, <2>1 DEF SymbolsLeadTo
<1>4. value[m][i] = i
  BY <1>2 DEF LinkedValue
<1>5. (i + Base(m)) % W = Base(m) + i
  BY <1>3, SymbolAddress
<1>6. Named(<<>>, Table[m].dynsym[i].name) = {}
  BY DEF Named
<1> QED BY <1>4, <1>5, <1>6 DEF Chain, Chained0, Leads, Base

\* Who writes the original of an entry that is not stale.
LEMMA LiveWrites ==
  ASSUME BaseInv, [Next]_vars, NEW e \in Entry, Recorded(e, where, loads, used),
         ~Gone(e, where', loads'), orig'[e.at][e.piece] # orig[e.at][e.piece]
  PROVE  \/ \E m \in Module, s \in Slot : /\ LoadModule(m, s) /\ e.piece \in SymbolPiece
                                          /\ Target[e.piece].module = m
         \/ \E m \in Module : /\ UnloadModule(m) /\ e.piece \in SymbolPiece
                              /\ Target[e.piece].module = m
         \/ \E p \in Plugin, x \in Piece : StaticSymbol(p, x) /\ e.piece = x
         \/ \E a \in Agent, l \in FrameList :
              /\ SysLineInit(a, l) /\ e.piece \in FramePiece /\ Frame[e.piece].list = l
              /\ Matches(e, a)
<1>1. e.at \in Slot /\ e.piece \in Piece /\ e.by \in Plugin /\ e.gen \in Nat
  BY EntryAddress
<1>2. ASSUME NEW m \in Module, NEW s \in Slot, LoadModule(m, s)
      PROVE  e.piece \in SymbolPiece /\ Target[e.piece].module = m
  <2>1. PICK i \in DOMAIN hooks[m] : hooks[m][i].at = e.at /\ hooks[m][i].piece = e.piece
    BY <1>1, <1>2, PatchWrites
  <2> QED BY <2>1 DEF BaseInv, EntriesInv, HooksOf
<1>3. ASSUME NEW m \in Module, UnloadModule(m)
      PROVE  e.piece \in SymbolPiece /\ Target[e.piece].module = m
  <2>1. PICK i \in DOMAIN hooks[m] : hooks[m][i].at = e.at /\ hooks[m][i].piece = e.piece
    BY <1>1, <1>3, NullWrites
  <2> QED BY <2>1 DEF BaseInv, EntriesInv, HooksOf
<1>4. ASSUME NEW p \in Plugin, NEW x \in Piece, StaticSymbol(p, x)
      PROVE  e.piece = x
  BY <1>1, <1>4, StaticWrites
<1>5. ASSUME NEW a \in Agent, NEW l \in FrameList, SysLineInit(a, l)
      PROVE  e.piece \in FramePiece /\ Frame[e.piece].list = l /\ Matches(e, a)
  <2>1. PICK i \in DOMAIN frames[l] : /\ frames[l][i].at = e.at /\ frames[l][i].piece = e.piece
                                      /\ Matches(frames[l][i], a)
    BY <1>1, <1>5, ChainWrites
  <2> QED BY <2>1 DEF BaseInv, EntriesInv, FramesOf, Matches
<1>6. ASSUME NEW k \in Slot, LoadDev(k)
      PROVE  FALSE
  <2>1. /\ where' = [where EXCEPT ![Dev] = k] /\ loads' = [loads EXCEPT ![Dev] = @ + 1]
        /\ orig' = [orig EXCEPT ![k] = [x \in Piece |-> 0]] /\ Free(k) /\ where[Dev] = Null
    BY <1>6 DEF LoadDev
  <2>2. loads \in [Image -> Nat] /\ where \in [Image -> Slot \cup {Null}]
        /\ orig \in [Slot -> [Piece -> Address0]] /\ TypeInv
    BY DEF BaseInv, TypeInv
  <2>3. loads'[Dev] = loads[Dev] + 1 /\ loads[Dev] \in Nat
    BY <2>1, <2>2, Membership
  <2>4. e.by # Dev
    BY <1>1, <2>3 DEF Recorded, Gone
  <2>5. e.at = where[e.by]
    BY <2>4 DEF Recorded, Gone
  <2>6. e.at # k
    BY <1>1, <2>1, <2>2, <2>5, FreeIs, Membership
  <2> QED BY <1>1, <2>1, <2>2, <2>6
<1>7. ~UNCHANGED vars
  BY DEF vars, hookVars
<1>8. ~UnloadDev /\ \A p \in Plugin, x \in Piece : ~ReplaceSymbol(p, x) /\ ~ReplaceFrame(p, x)
  BY DEF UnloadDev, ReplaceSymbol, ReplaceFrame
<1>9. \A a \in Agent : ~AgentGone(a)
  BY DEF AgentGone, hookVars
<1> QED BY <1>2, <1>3, <1>4, <1>5, <1>6, <1>7, <1>8, <1>9, StepCases

LEMMA ChainStep ==
  ASSUME LinkedByHash, BaseInv, ChainInv, [Next]_vars
  PROVE  ChainInv'
<1> SUFFICES ASSUME state' = "running", ~StaticGone(patched', where', loads'),
                    NEW m \in Module, where'[m] # Null
             PROVE  SymbolsLeadTo(m, patched'[m], value'[m], orig', where', loads')
  BY DEF ChainInv
<1>1. Keeps(where, loads, used, where', loads', used')
  BY BaseStep
<1>2. ~StaticGone(patched, where, loads)
  BY StaticKept
<1>t. /\ where \in [Image -> Slot \cup {Null}] /\ Null \notin Slot /\ m \in Image
      /\ patched \in [Module -> Seq(Entry)] /\ value = [k \in Module |-> value[k]]
      /\ patched[m] \in Seq(Entry) /\ ListInv(patched[m], where, loads, used)
      /\ \A j \in DOMAIN patched[m] :
           /\ patched[m][j] \in Entry /\ Recorded(patched[m][j], where, loads, used)
           /\ patched[m][j].piece \in SymbolPiece /\ Target[patched[m][j].piece].module = m
  <2>1. /\ where \in [Image -> Slot \cup {Null}] /\ Null \notin Slot /\ m \in Image
        /\ patched \in [Module -> Seq(Entry)] /\ value = [k \in Module |-> value[k]]
    BY Sizes, Membership DEF BaseInv, TypeInv
  <2>2. patched[m] \in Seq(Entry) /\ ListInv(patched[m], where, loads, used)
    BY <2>1 DEF BaseInv, EntriesInv
  <2> QED BY <2>1, <2>2, SeqEntry DEF BaseInv, EntriesInv, HooksOf, ListInv
<1>3. state = "running" /\ where[m] # Null => SymbolsLeadTo(m, patched[m], value[m], orig, where, loads)
  BY <1>2 DEF ChainInv
<1> DEFINE Unwritten == \A j \in DOMAIN patched[m] :
             ~Gone(patched[m][j], where', loads') =>
               orig'[patched[m][j].at][patched[m][j].piece] = orig[patched[m][j].at][patched[m][j].piece]
           Other == /\ where[m] # Null
                    /\ \A p \in Plugin, x \in Piece : StaticSymbol(p, x) => Target[x].module # m
<1>4. ASSUME state = "running", where'[m] = where[m], patched'[m] = patched[m], value'[m] = value[m],
             Unwritten
      PROVE  SymbolsLeadTo(m, patched'[m], value'[m], orig', where', loads')
  BY <1>1, <1>3, <1>4, <1>t, SymbolsKept
<1>5. Other => Unwritten
  <2> SUFFICES ASSUME Other, NEW j \in DOMAIN patched[m], ~Gone(patched[m][j], where', loads')
               PROVE  orig'[patched[m][j].at][patched[m][j].piece]
                        = orig[patched[m][j].at][patched[m][j].piece]
    OBVIOUS
  <2> DEFINE e == patched[m][j]
  <2>1. e \in Entry /\ Recorded(e, where, loads, used) /\ e.piece \in SymbolPiece
        /\ Target[e.piece].module = m /\ e.piece \notin FramePiece
    BY <1>t, FramesAssumption
  <2> HIDE DEF e
  <2> SUFFICES ASSUME orig'[e.at][e.piece] # orig[e.at][e.piece] PROVE FALSE
    BY DEF e
  <2>2. ~Gone(e, where', loads')
    BY DEF e
  <2>3. \A s \in Slot : ~LoadModule(m, s)
    BY DEF LoadModule
  <2>4. ~UnloadModule(m)
    BY <1>t DEF UnloadModule
  <2> QED BY <2>1, <2>2, <2>3, <2>4, LiveWrites
<1>u. used' = used /\ where[m] # Null => Unwritten
  <2>1. ASSUME NEW p \in Plugin, NEW x \in Piece, StaticSymbol(p, x) PROVE used' # used
    <3>1. used' = [used EXCEPT ![p] = @ \cup {x}] /\ x \notin used[p]
      BY <2>1 DEF StaticSymbol, ReplaceStaticSymbol, MayUse, Register
    <3> QED BY <3>1 DEF BaseInv, TypeInv
  <2> HIDE DEF Unwritten
  <2> QED BY <1>5, <2>1
<1>o. orig' = orig => Unwritten
  OBVIOUS
<1> HIDE DEF Unwritten
<1>6. ASSUME NEW s \in Slot, LoadModule(m, s), UNCHANGED frameVars
      PROVE  SymbolsLeadTo(m, patched'[m], value'[m], orig', where', loads')
  <2>1. where'[m] = s /\ patched'[m] = hooks[m]
        /\ SymbolsLeadTo(m, hooks[m], value'[m], orig', where', loads)
    BY <1>6, LoadChains
  <2>2. loads'[Dev] = loads[Dev]
    <3>1. loads \in [Image -> Nat]
      BY DEF BaseInv, TypeInv
    <3> QED BY <1>6, <3>1, Membership DEF LoadModule
  <2> QED BY <2>1, <2>2 DEF SymbolsLeadTo, GoneIn, Gone
<1>7. ASSUME NEW k \in Module, NEW s \in Slot, LoadModule(k, s), k # m
      PROVE  SymbolsLeadTo(m, patched'[m], value'[m], orig', where', loads')
  <2>1. state = "running" /\ where' = [where EXCEPT ![k] = s]
        /\ patched' = [patched EXCEPT ![k] = hooks[k]] /\ where[m] # Null
    BY <1>7, <1>t DEF LoadModule
  <2>2. value'[m] = value[m]
    <3>1. value' = [value EXCEPT ![k] = Patching(k, s)[Len(hooks[k])].value]
      BY <1>7 DEF LoadModule
    <3> QED BY <1>7, <1>t, <3>1
  <2>3. Unwritten
    BY <1>7, <1>u, <2>1 DEF LoadModule
  <2> QED BY <1>4, <1>7, <1>t, <2>1, <2>2, <2>3
<1>8. ASSUME NEW k \in Module, UnloadModule(k)
      PROVE  SymbolsLeadTo(m, patched'[m], value'[m], orig', where', loads')
  <2>1. state = "running" /\ where' = [where EXCEPT ![k] = Null] /\ used' = used
        /\ patched' = [patched EXCEPT ![k] = <<>>] /\ value' = [value EXCEPT ![k] = LinkedValue(k)]
    BY <1>8 DEF UnloadModule
  <2>2. k # m
    BY <1>t, <2>1
  <2> QED BY <1>4, <1>t, <1>u, <2>1, <2>2
<1>9. CASE \E p \in Plugin, x \in Piece : ReplaceSymbol(p, x) \/ ReplaceFrame(p, x)
  <2>1. state = "running" /\ UNCHANGED <<where, value, patched, orig>>
    BY <1>9 DEF ReplaceSymbol, ReplaceFrame, MayUse
  <2> QED BY <1>4, <1>o, <2>1
<1>10. CASE UnloadDev
  <2>1. state = "running" /\ UNCHANGED <<value, patched, orig>>
        /\ where' = [where EXCEPT ![Dev] = Null]
    BY <1>10 DEF UnloadDev
  <2>2. where'[m] = where[m]
    BY <1>t, <2>1, Membership
  <2> QED BY <1>4, <1>o, <2>1, <2>2
<1>11. ASSUME NEW k \in Slot, LoadDev(k)
       PROVE  SymbolsLeadTo(m, patched'[m], value'[m], orig', where', loads')
  <2>1. state = "running" /\ UNCHANGED <<value, patched, used>>
        /\ where' = [where EXCEPT ![Dev] = k]
    BY <1>11 DEF LoadDev
  <2>2. where'[m] = where[m]
    BY <1>t, <2>1, Membership
  <2> QED BY <1>4, <1>u, <2>1, <2>2
<1>12. CASE UNCHANGED vars \/ \E a \in Agent : AgentGone(a)
  <2>1. UNCHANGED <<state, where, value, patched, orig>>
    BY <1>12 DEF AgentGone, vars, hookVars
  <2> QED BY <1>4, <1>o, <2>1
<1>13. CASE \E a \in Agent, l \in FrameList : SysLineInit(a, l)
  <2>1. state = "running" /\ UNCHANGED <<where, value, patched, used>>
    BY <1>13 DEF SysLineInit
  <2> QED BY <1>4, <1>u, <2>1
<1>14. ASSUME NEW p \in Plugin, NEW x \in Piece, StaticSymbol(p, x)
       PROVE  SymbolsLeadTo(m, patched'[m], value'[m], orig', where', loads')
  <2> DEFINE t == Target[x].module
             e == NewEntry(p, x)
  <2>1. /\ state = "running" /\ t \in StaticModule /\ t \in Module /\ where[t] \in Slot
        /\ where' = where /\ loads' = loads /\ where[p] # Null
    BY <1>14, StaticCases DEF MayUse, StaticSymbol, ReplaceStaticSymbol
  <2>2. UNCHANGED <<value, orig, patched>> \/ \E i \in Defined(t) : StaticPuts(p, x, i)
    BY <1>2, <1>14, StaticEffect
  <2>3. CASE UNCHANGED <<value, orig, patched>>
    BY <1>4, <1>o, <2>1, <2>3
  <2>4. ASSUME NEW i \in Defined(t), StaticPuts(p, x, i)
        PROVE  SymbolsLeadTo(m, patched'[m], value'[m], orig', where', loads')
    <3>1. /\ Table[t].dynsym[i].name = NameOf(e) /\ Named(patched[t], NameOf(e)) = {}
          /\ patched' = [patched EXCEPT ![t] = Append(patched[t], e)]
          /\ value' = [value EXCEPT ![t] = [value[t] EXCEPT ![i] = Difference(Address(e), Base(t))]]
          /\ orig' = Written(orig, e, Base(t) + i)
      BY <2>4 DEF StaticPuts
    <3>2. e \in Entry /\ e.at = where[p]
      BY <2>1, NewEntryIs DEF BaseInv
    <3>3. PluginAt(e.at)
      BY <3>2, PluginAtIs DEF PluginIn
    <3>4. SymbolsLeadTo(t, patched[t], value[t], orig, where, loads)
      BY <1>2, <2>1, Sizes DEF ChainInv
    <3> HIDE DEF t, e
    <3>5. CASE m = t
      <4>1. SymbolsLeadTo(t, Append(patched[t], e),
                          [value[t] EXCEPT ![i] = Difference(Address(e), Base(t))],
                          Written(orig, e, Base(t) + i), where, loads)
        BY <2>1, <3>1, <3>2, <3>3, <3>4, PutChains
      <4>2. patched'[m] = Append(patched[t], e)
            /\ value'[m] = [value[t] EXCEPT ![i] = Difference(Address(e), Base(t))]
        BY <1>t, <3>1, <3>5
      <4> QED BY <2>1, <3>1, <3>5, <4>1, <4>2
    <3>6. CASE m # t
      <4>1. patched'[m] = patched[m] /\ value'[m] = value[m]
        BY <1>t, <3>1, <3>6
      <4>2. ASSUME NEW q \in Plugin, NEW y \in Piece, StaticSymbol(q, y)
            PROVE  Target[y].module # m
        <5>1. used' = [used EXCEPT ![p] = @ \cup {x}] /\ x \notin used[p]
          BY <1>14 DEF StaticSymbol, ReplaceStaticSymbol, MayUse, Register
        <5>2. used' = [used EXCEPT ![q] = @ \cup {y}] /\ y \notin used[q]
          BY <4>2 DEF StaticSymbol, ReplaceStaticSymbol, MayUse, Register
        <5>3. x = y
          BY <5>1, <5>2 DEF BaseInv, TypeInv
        <5> QED BY <3>6, <5>3 DEF t
      <4> QED BY <1>4, <1>5, <2>1, <4>1, <4>2
    <3> QED BY <3>5, <3>6
  <2> QED BY <2>2, <2>3, <2>4
<1> QED BY <1>6, <1>7, <1>8, <1>9, <1>10, <1>11, <1>12, <1>13, <1>14, StepCases

-----------------------------------------------------------------------------
(* Calls.                                                                  *)

\* The function of an entry, in the image of a plugin, calls its original.
LEMMA OnwardIs ==
  ASSUME NEW e \in Entry, PluginAt(e.at)
  PROVE  Onward(Address(e)) = orig[e.at][e.piece]
<1>1. /\ e.piece \in Piece /\ Address(e) \div SlotSize = e.at
      /\ Address(e) % SlotSize = Offset[e.piece]
  BY EntryAddress
<1>2. PieceAt(Address(e)) = {e.piece}
  BY <1>1, HooksAssumption DEF PieceAt
<1>3. (CHOOSE x \in {e.piece} : TRUE) = e.piece
  OBVIOUS
<1> QED BY <1>1, <1>2, <1>3 DEF Onward

LEMMA OnwardType ==
  ASSUME TypeInv, NEW address \in Address0
  PROVE  Onward(address) \in Address0
<1> SUFFICES ASSUME PieceAt(address) # {} PROVE Onward(address) \in Address0
  BY DEF Onward
<1> DEFINE k == address \div SlotSize
           x == CHOOSE x \in PieceAt(address) : TRUE
<1>1. x \in PieceAt(address)
  OBVIOUS
<1>2. x \in Piece /\ PluginAt(k)
  BY <1>1 DEF PieceAt
<1>3. k \in Slot
  <2>1. PluginIn(k, where)
    BY <1>2, PluginAtIs
  <2>2. k \in Int /\ Null \notin Int
    <3>1. address \in Int /\ SlotSize \in Nat \ {0}
      BY Sizes
    <3> QED BY <3>1, HooksAssumption
  <2> HIDE DEF k
  <2> QED BY <2>1, <2>2, Membership DEF PluginIn, TypeInv
<1>4. Onward(address) = orig[k][x]
  BY DEF Onward
<1> HIDE DEF k, x
<1> QED BY <1>2, <1>3, <1>4 DEF TypeInv

LEMMA ReachedIs ==
  ASSUME TypeInv, NEW es \in Seq(Entry), NEW ps, NEW address \in Address0
  PROVE  /\ Reached(address, es, ps)[Len(es)] = address
         /\ \A j \in 0..Len(es) - 1 :
              Reached(address, es, ps)[j] =
                IF j + 1 \in ps THEN Onward(Reached(address, es, ps)[j + 1])
                ELSE Reached(address, es, ps)[j + 1]
<1> DEFINE n == Len(es)
           Is(f) == f = [j \in 0..n |-> IF j = n THEN address
                                        ELSE IF j + 1 \in ps THEN Onward(f[j + 1]) ELSE f[j + 1]]
           step == [j \in 1..n |-> [a \in Address0 |-> IF n - j + 1 \in ps THEN Onward(a) ELSE a]]
<1>1. n \in Nat
  BY SeqEntry
<1> HIDE DEF n
<1>2. step \in [1..n -> [Address0 -> Address0]]
  BY OnwardType
<1>3. \A j \in 1..n : \A a \in Address0 : step[j][a] = IF n - j + 1 \in ps THEN Onward(a) ELSE a
  OBVIOUS
<1> HIDE DEF step
<1>4. PICK g \in [0..n -> Address0] : Steps(g, n, address, step)
  BY <1>1, <1>2, Iteration
<1> DEFINE f == [j \in 0..n |-> g[n - j]]
<1>5. \A j \in 0..n : f[j] = IF j = n THEN address
                             ELSE IF j + 1 \in ps THEN Onward(f[j + 1]) ELSE f[j + 1]
  <2> SUFFICES ASSUME NEW j \in 0..n
               PROVE  f[j] = IF j = n THEN address
                             ELSE IF j + 1 \in ps THEN Onward(f[j + 1]) ELSE f[j + 1]
    OBVIOUS
  <2>1. f[j] = g[n - j]
    OBVIOUS
  <2>2. CASE j = n
    <3>1. n - j = 0
      BY <1>1, <2>2
    <3> QED BY <1>4, <2>1, <2>2, <3>1 DEF Steps
  <2>3. CASE j # n
    <3>1. /\ n - j \in 1..n /\ n - j - 1 \in 0..n /\ n - (n - j) + 1 = j + 1
          /\ j + 1 \in 0..n /\ n - (j + 1) = n - j - 1
      BY <1>1, <2>3
    <3>2. f[j + 1] = g[n - j - 1] /\ g[n - j - 1] \in Address0
      BY <1>4, <3>1
    <3>3. g[n - j] = step[n - j][g[n - j - 1]]
      BY <1>4, <3>1 DEF Steps
    <3> HIDE DEF f
    <3> QED BY <1>3, <2>1, <2>3, <3>1, <3>2, <3>3
  <2> QED BY <2>2, <2>3
<1>6. Is(f)
  <2>1. f = [j \in 0..n |-> f[j]]
    OBVIOUS
  <2> HIDE DEF f
  <2> QED BY <1>5, <2>1
<1> HIDE DEF f
<1> DEFINE r == CHOOSE h : Is(h)
<1>7. Is(r)
  <2> HIDE DEF Is
  <2> QED BY <1>6
<1>8. Reached(address, es, ps) = r
  BY DEF Reached, n
<1> HIDE DEF r
<1>9. \A j \in 0..n : r[j] = IF j = n THEN address
                             ELSE IF j + 1 \in ps THEN Onward(r[j + 1]) ELSE r[j + 1]
  <2>1. r = [j \in 0..n |-> IF j = n THEN address
                            ELSE IF j + 1 \in ps THEN Onward(r[j + 1]) ELSE r[j + 1]]
    BY <1>7
  <2> QED BY <2>1, Zenon
<1>10. n \in 0..n /\ \A j \in 0..n - 1 : j \in 0..n /\ j # n
  BY <1>1
<1> QED BY <1>8, <1>9, <1>10 DEF n

\* A call of an address that leads through the entries at the positions ps, all
\* of which are in an image of a plugin, runs them.
LEMMA ChainCalls ==
  ASSUME TypeInv, NEW es \in Seq(Entry), NEW ps \in SUBSET DOMAIN es, NEW native,
         NEW address \in Address0, Chain(es, ps, orig, native, address),
         \A j \in ps : PluginAt(es[j].at)
  PROVE  Calls(address, es, ps, native)
<1> DEFINE n == Len(es)
           r == Reached(address, es, ps)
           Original(j) == \A i \in ps : i > j => es[i].piece \notin NoOriginal
           P == {j \in 0..n : Original(j) => Leads(es, ps, j + 1, native, r[j])}
<1>1. n \in Nat /\ \A i \in ps : i \in 1..n /\ es[i] \in Entry
  BY SeqEntry
<1>2. r[n] = address /\ \A j \in 0..n - 1 : r[j] = IF j + 1 \in ps THEN Onward(r[j + 1]) ELSE r[j + 1]
  BY ReachedIs
<1> HIDE DEF n, r
<1>3. \A i, j \in 0..n : (i < j + 1 <=> i <= j) /\ (i > j => i >= j + 1) /\ (i < j => i < j + 1)
  BY <1>1
<1>4. 1..n \subseteq 0..n
  OBVIOUS
<1>5. ASSUME NEW j \in ps, NEW a, Leads(es, ps, j + 1, native, a)
      PROVE  a = Address(es[j])
  <2>1. j \in Nat /\ ~ (j >= j + 1) /\ j < j + 1
    BY <1>1
  <2>2. PICK i \in ps : i < j + 1 /\ a = Address(es[i]) /\ \A h \in ps : h < j + 1 => h <= i
    BY <1>5, <2>1 DEF Leads
  <2>3. i \in Nat /\ j <= i
    BY <1>1, <2>1, <2>2
  <2>4. i = j
    BY <2>1, <2>2, <2>3
  <2> QED BY <2>2, <2>4
<1>6. n \in P
  <2>1. Leads(es, ps, n + 1, native, address) /\ n \in 0..n
    BY <1>1 DEF Chain, n
  <2> QED BY <1>2, <2>1
<1>7. ASSUME NEW j \in 0..n - 1, j + 1 \in P PROVE j \in P
  <2>1. j \in 0..n /\ j + 1 \in 0..n /\ j \in Nat
    BY <1>1
  <2> SUFFICES ASSUME Original(j) PROVE Leads(es, ps, j + 1, native, r[j])
    BY <2>1
  <2>2. \A i \in ps : i > j + 1 => i > j
    BY <1>1, <2>1
  <2>3. Leads(es, ps, j + 1 + 1, native, r[j + 1])
    BY <1>7, <2>2
  <2>4. CASE j + 1 \in ps
    <3>1. r[j + 1] = Address(es[j + 1])
      BY <1>5, <2>3, <2>4
    <3>2. es[j + 1] \in Entry /\ es[j + 1].piece \notin NoOriginal
      <4>1. j + 1 > j
        BY <2>1
      <4> QED BY <1>1, <2>4, <4>1
    <3>3. r[j] = orig[es[j + 1].at][es[j + 1].piece]
      BY <1>2, <2>4, <3>1, <3>2, OnwardIs
    <3> QED BY <2>4, <3>2, <3>3 DEF Chain, Chained0
  <2>5. CASE j + 1 \notin ps
    <3>1. r[j] = r[j + 1]
      BY <1>2, <2>5
    <3>2. \A i \in ps : (i >= j + 1 + 1 => i >= j + 1) /\ (i < j + 1 + 1 => i < j + 1)
                        /\ (i < j + 1 => i < j + 1 + 1)
      <4> SUFFICES ASSUME NEW i \in ps
                   PROVE  (i >= j + 1 + 1 => i >= j + 1) /\ (i < j + 1 + 1 => i < j + 1)
                          /\ (i < j + 1 => i < j + 1 + 1)
        OBVIOUS
      <4>1. i \in Nat /\ i # j + 1
        BY <1>1, <2>5
      <4> QED BY <2>1, <4>1
    <3> QED BY <2>3, <3>1, <3>2 DEF Leads
  <2> QED BY <2>4, <2>5
<1>8. \A j \in 0..n : j \in P
  <2>1. P \in SUBSET (0..n)
    OBVIOUS
  <2> HIDE DEF P
  <2> QED BY <1>1, <1>6, <1>7, <2>1, DownFrom
<1>9. ASSUME NEW j \in 0..n, Original(j)
      PROVE  (j \in ps => r[j] = Address(es[j])) /\ (j = 0 => r[j] = native)
  <2>1. Leads(es, ps, j + 1, native, r[j])
    BY <1>8, <1>9
  <2>2. j \in ps => r[j] = Address(es[j])
    BY <1>5, <2>1
  <2>3. \A i \in ps : ~ (i < 0 + 1)
    BY <1>1
  <2> QED BY <2>1, <2>2, <2>3 DEF Leads
<1> QED BY <1>9 DEF Calls, n, r

LEMMA StaleIs ==
  /\ \A es, ps : StaleIn(es, ps) <=> GoneIn(es, ps, where, loads)
  /\ \A es : AnyStale(es) <=> AnyGone(es, where, loads)
  /\ StaticStale <=> StaticGone(patched, where, loads)
BY DEF StaleIn, AnyStale, StaticStale, Stale, Gone, GoneIn, AnyGone, StaticGone

LEMMA ChainsCalled ==
  ASSUME BaseInv, ChainInv
  PROVE  SymbolChains
<1> SUFFICES ASSUME state = "running", ~StaticStale, NEW m \in Module, where[m] # Null,
                    NEW i \in Symbols(m)
             PROVE  LET ps == PatchesOf(m, Table[m].dynsym[i].name)
                    IN IF i \notin Defined(m) THEN value[m][i] = LinkedValue(m)[i]
                       ELSE \/ StaleIn(patched[m], ps)
                            \/ Calls(Resolved(m, i), patched[m], ps, Base(m) + LinkedValue(m)[i])
  BY DEF SymbolChains
<1> DEFINE es == patched[m]
           ps == PatchesOf(m, Table[m].dynsym[i].name)
           a == Resolved(m, i)
           native == Base(m) + i
<1>1. SymbolsLeadTo(m, es, value[m], orig, where, loads)
  BY StaleIs DEF ChainInv
<1>2. LinkedValue(m)[i] = IF i \in Defined(m) THEN i ELSE 0
  BY DEF LinkedValue
<1>3. CASE i \notin Defined(m)
  BY <1>1, <1>2, <1>3 DEF SymbolsLeadTo
<1>4. CASE i \in Defined(m) /\ ~StaleIn(es, ps)
  <2>1. Named(es, Table[m].dynsym[i].name) = ps /\ ps \in SUBSET DOMAIN es
    BY DEF Named, PatchesOf
  <2>2. Chain(es, ps, orig, native, a)
    BY <1>1, <1>4, <2>1, StaleIs DEF SymbolsLeadTo, Resolved, Base
  <2>3. TypeInv /\ es \in Seq(Entry) /\ ListInv(es, where, loads, used)
        /\ value[m][i] \in Address0 /\ where[m] \in Slot
    BY Membership DEF BaseInv, TypeInv, EntriesInv
  <2>4. a \in Address0
    <3>1. Base(m) \in Address0
      BY <2>3, SymbolAddress
    <3> QED BY <2>3, <3>1, Wrapping DEF Resolved
  <2>5. \A j \in ps : PluginAt(es[j].at)
    <3> SUFFICES ASSUME NEW j \in ps PROVE PluginAt(es[j].at)
      OBVIOUS
    <3>1. j \in DOMAIN es /\ ~Gone(es[j], where, loads)
      BY <1>4, <2>1 DEF StaleIn, Stale, Gone
    <3> HIDE DEF es
    <3> QED BY <2>3, <3>1, LiveEntry
  <2>6. Calls(a, es, ps, native)
    <3> HIDE DEF es, ps, a, native
    <3> QED BY <2>1, <2>2, <2>3, <2>4, <2>5, ChainCalls
  <2> QED BY <1>2, <1>4, <2>6
<1> QED BY <1>3, <1>4

LEMMA ChainHolds ==
  ASSUME LinkedByHash
  PROVE  Spec => []ChainInv
<1>1. BaseInv /\ ChainInv /\ [Next]_vars => ChainInv'
  BY ChainStep
<1> QED BY <1>1, ChainInit, BaseHolds, PTL DEF Spec

\* A symbol of a loaded module leads through the replacements registered before
\* the load, the newest first, to the game's function: the arithmetic of
\* symbol_replace and the lookup of rtld.rs undo what the loader does, wherever
\* plugin and module lie (hooks.rs nro_load, replace_static_symbol).
THEOREM SymbolsLead == ASSUME LinkedByHash PROVE Spec => []SymbolChains
<1>1. BaseInv /\ ChainInv => SymbolChains
  BY ChainsCalled
<1> QED BY <1>1, ChainHolds, BaseHolds, PTL

-----------------------------------------------------------------------------
(* Faults.                                                                 *)

LEMMA PatchFaults ==
  ASSUME BaseInv, NEW m \in Module, NEW s \in Slot, LoadModule(m, s), state' = "faulted"
  PROVE  \E i \in DOMAIN hooks[m] : ~PluginAt(hooks[m][i].at)
<1> DEFINE es == hooks[m]
           n == Len(es)
           f == Patching(m, s)
           base == s * SlotSize
           Bad == \E i \in 1..n : ~PluginAt(es[i].at)
           P == {j \in 0..n : f[j].state = "faulted" => Bad}
<1>1. /\ n \in Nat /\ es \in Seq(Entry) /\ f \in [0..n -> PatchIm(m)]
      /\ f[0] = [value |-> LinkedValue(m), orig |-> orig, state |-> "running"]
      /\ \A j \in 1..n : f[j] = LazySymbolReplace(f[j - 1], m, base, es[j])
      /\ state' = f[n].state /\ base \in Address0
  BY LoadResult
<1>2. DOMAIN es = 1..n /\ \A j \in 1..n : es[j] \in Entry /\ NameOf(es[j]) \in Name
  <2>1. DOMAIN es = 1..n /\ \A j \in 1..n : es[j] \in Entry /\ es[j].piece \in SymbolPiece
    BY <1>1, SeqEntry DEF BaseInv, EntriesInv, HooksOf
  <2> QED BY <2>1, HooksAssumption DEF NameOf
<1> HIDE DEF f, n, es
<1>3. 0 \in P
  BY <1>1
<1>4. ASSUME NEW j \in 1..n, j - 1 \in P PROVE j \in P
  <2>1. j \in 0..n /\ j - 1 \in 0..n
    BY <1>1
  <2>2. f[j - 1] \in PatchIm(m) /\ f[j] = LazySymbolReplace(f[j - 1], m, base, es[j])
    BY <1>1, <2>1
  <2>3. \/ f[j].state = "faulted" => f[j - 1].state = "faulted"
        \/ f[j - 1].state = "running" /\ f[j].state = WrittenState("running", es[j])
    <3> DEFINE q == GetSymbolByName(Table[m], NameOf(es[j]))
    <3>1. es[j] \in Entry /\ NameOf(es[j]) \in Name
      BY <1>2
    <3>2. \/ f[j].state = "faulted" => f[j - 1].state = "faulted"
          \/ f[j] = f[j - 1]
          \/ f[j - 1].state = "running" /\ Replaces(m, base, q, es[j], f[j - 1], f[j])
      BY <1>1, <2>2, <3>1, LazyReplaceIs
    <3> QED BY <3>2 DEF Replaces
  <2>4. WrittenState("running", es[j]) = "faulted" => Bad
    BY DEF WrittenState
  <2> QED BY <1>4, <2>1, <2>3, <2>4
<1>5. n \in P
  <2>1. P \in SUBSET (0..n) /\ n \in 0..n
    BY <1>1
  <2> HIDE DEF P
  <2> QED BY <1>1, <1>3, <1>4, <2>1, UpTo
<1> QED BY <1>1, <1>2, <1>5 DEF es

LEMMA NullFaults ==
  ASSUME BaseInv, NEW m \in Module, UnloadModule(m), state' = "faulted"
  PROVE  \E i \in DOMAIN hooks[m] : ~PluginAt(hooks[m][i].at)
<1>1. hooks[m] \in Seq(Entry) /\ TypeInv
  BY DEF BaseInv, TypeInv
<1>2. /\ Len(hooks[m]) \in Nat /\ \A i \in 1..Len(hooks[m]) : hooks[m][i] \in Entry
  BY <1>1, SeqEntry
<1>3. state' = Nulling(m)[Len(hooks[m])].state
  BY DEF UnloadModule
<1>4. Nulling(m)[0] = [orig |-> orig, state |-> "running"]
  BY <1>1, NullingIs
<1>5. Len(hooks[m]) # 0
  BY <1>3, <1>4
<1>6. 1 \in 1..Len(hooks[m])
  BY <1>2, <1>5
<1>7. PICK k \in Slot : TRUE
  BY <1>2, <1>6, EntryAddress
<1>8. PICK x \in Piece : TRUE
  BY <1>2, <1>6, EntryAddress
<1> QED BY <1>7, <1>8, NullWrites

\* What is installed for an agent is the game's function as it is resolved, or
\* the function of an entry for the agent.
LEMMA InitFaults ==
  ASSUME BaseInv, NEW a \in Agent, NEW l \in FrameList, SysLineInit(a, l), state' = "faulted"
  PROVE  \/ \E i \in DOMAIN frames[l] : ~PluginAt(frames[l][i].at)
         \/ ~IsCode(Native(l, value, where))
         \/ \E i \in DOMAIN frames[l] : ~IsCode(Address(frames[l][i]))
<1> DEFINE es == frames[l]
           n == Len(es)
           f == Chaining(a, l)
           Bad == \E i \in 1..n : ~PluginAt(es[i].at)
           P == {j \in 0..n : /\ f[j].state = "faulted" => Bad
                              /\ \/ f[j].control = Native(l, value, where)
                                 \/ \E i \in 1..n : f[j].control = Address(es[i])
                              /\ f[j].state \in {"running", "faulted"}}
<1>1. /\ n \in Nat /\ es \in Seq(Entry) /\ f \in [0..n -> ControlIm]
      /\ f[0] = [control |-> Native(l, value, where), orig |-> orig, state |-> "running"]
      /\ \A j \in 1..n : f[j] = Chained(f[j - 1], es[j], a)
      /\ state' = IF f[n].state = "running" /\ ~IsCode(f[n].control) THEN "faulted" ELSE f[n].state
  BY InitResult
<1>2. DOMAIN es = 1..n /\ \A j \in 1..n : es[j] \in Entry
  BY <1>1, SeqEntry
<1> HIDE DEF f, n, es
<1>3. 0 \in P
  BY <1>1
<1>4. ASSUME NEW j \in 1..n, j - 1 \in P PROVE j \in P
  <2>1. j \in 0..n /\ j - 1 \in 0..n
    BY <1>1
  <2>2. f[j - 1] \in ControlIm /\ f[j] = Chained(f[j - 1], es[j], a) /\ es[j] \in Entry
    BY <1>1, <1>2, <2>1
  <2>3. \/ f[j] = f[j - 1]
        \/ /\ f[j - 1].state = "running" /\ f[j].control = Address(es[j])
           /\ f[j].state = WrittenState("running", es[j])
    BY <2>2, ChainedIs
  <2>4. /\ WrittenState("running", es[j]) = "faulted" => Bad
        /\ WrittenState("running", es[j]) \in {"running", "faulted"}
    BY DEF WrittenState
  <2> QED BY <1>4, <2>1, <2>3, <2>4
<1>5. n \in P
  <2>1. P \in SUBSET (0..n) /\ n \in 0..n
    BY <1>1
  <2> HIDE DEF P
  <2> QED BY <1>1, <1>3, <1>4, <2>1, UpTo
<1> QED BY <1>1, <1>2, <1>5 DEF es

LEMMA NativeIs ==
  ASSUME NEW l \in FrameList
  PROVE  /\ Native(l, value, where) = Resolved(CommonModule, FrameSymbol(l))
         /\ Native(l, value, where) = LookupSymbol(CommonModule, Control[l])
BY DEF Native, Resolved, Base, LookupSymbol, FrameSymbol

LEMMA EntryCode ==
  ASSUME NEW e \in Entry, PluginAt(e.at)
  PROVE  IsCode(Address(e))
<1>1. e.piece \in PieceAt(Address(e))
  BY EntryAddress DEF PieceAt
<1> QED BY <1>1 DEF IsCode

\* What an agent's frame function starts from is code.
LEMMA NativeCode ==
  ASSUME BaseInv, ChainInv, state = "running", where[CommonModule] # Null, NEW l \in FrameList,
         ~StaticGone(patched, where, loads), ~AnyGone(patched[CommonModule], where, loads)
  PROVE  IsCode(Native(l, value, where))
<1> DEFINE m == CommonModule
           i == FrameSymbol(l)
<1>1. m \in Module /\ i \in Defined(m) /\ i \in Symbols(m)
  BY FrameSymbolIs
<1>2. where[m] \in Slot
  BY <1>1, Membership DEF BaseInv, TypeInv
<1>3. SymbolsLeadTo(m, patched[m], value[m], orig, where, loads)
  BY <1>1 DEF ChainInv
<1>4. Native(l, value, where) = Resolved(m, i)
  BY NativeIs
<1> HIDE DEF m, i
<1>6. \/ Resolved(m, i) = Base(m) + i
      \/ \E j \in Named(patched[m], Table[m].dynsym[i].name) :
           /\ Resolved(m, i) = Address(patched[m][j]) /\ PluginAt(patched[m][j].at)
           /\ patched[m][j] \in Entry
  BY <1>1, <1>2, <1>3, WhereTo DEF m
<1>7. CASE Resolved(m, i) = Base(m) + i
  <2>1. where[m] # Null
    BY <1>2, Sizes
  <2> QED BY <1>1, <1>4, <1>7, <2>1 DEF IsCode
<1>8. CASE \E j \in Named(patched[m], Table[m].dynsym[i].name) :
             /\ Resolved(m, i) = Address(patched[m][j]) /\ PluginAt(patched[m][j].at)
             /\ patched[m][j] \in Entry
  BY <1>4, <1>8, EntryCode
<1> QED BY <1>6, <1>7, <1>8

LEMMA FaultInit == Init => FaultInv
BY DEF Init, HooksInit, FaultInv

LEMMA FaultStep ==
  ASSUME LinkedByHash, BaseInv, ChainInv, FaultInv, [Next]_vars
  PROVE  FaultInv'
<1> SUFFICES ASSUME state' = "faulted" PROVE FaultInv'
  BY DEF FaultInv
<1>1. Keeps(where, loads, used, where', loads', used')
  BY BaseStep
<1>2. ASSUME NEW es \in Seq(Entry), ListInv(es, where, loads, used), NEW i \in DOMAIN es,
             ~PluginAt(es[i].at)
      PROVE  AnyGone(es, where', loads')
  <2>1. Gone(es[i], where, loads)
    BY <1>2, LiveEntry
  <2>2. Gone(es[i], where', loads')
    BY <1>1, <1>2, <2>1, KeptList
  <2> QED BY <2>2 DEF AnyGone, GoneIn
<1>3. ASSUME NEW es \in Seq(Entry), ListInv(es, where, loads, used), AnyGone(es, where, loads)
      PROVE  AnyGone(es, where', loads')
  BY <1>1, <1>3, KeptList DEF AnyGone, GoneIn
<1>m. \A m \in Module : /\ hooks[m] \in Seq(Entry) /\ ListInv(hooks[m], where, loads, used)
                        /\ patched[m] \in Seq(Entry) /\ ListInv(patched[m], where, loads, used)
  BY DEF BaseInv, TypeInv, EntriesInv
<1>l. \A l \in FrameList : frames[l] \in Seq(Entry) /\ ListInv(frames[l], where, loads, used)
  BY DEF BaseInv, TypeInv, EntriesInv
<1>s. StaticGone(patched, where, loads) => FaultInv'
  <2>1. StaticGone(patched, where, loads) => StaticGone(patched', where', loads')
    BY StaticKept
  <2> QED BY <2>1, Membership DEF StaticGone, FaultInv
<1>4. CASE state = "faulted"
  <2>1. UNCHANGED <<where, loads, hooks, patched, frames>>
    <3>1. ~ \E p \in Plugin, x \in Piece : MayUse(p, x)
      BY <1>4 DEF MayUse
    <3>2. /\ ~ \E m \in Module, s \in Slot : LoadModule(m, s)
          /\ ~ \E m \in Module : UnloadModule(m)
          /\ ~ \E p \in Plugin, x \in Piece : ReplaceSymbol(p, x) \/ StaticSymbol(p, x) \/ ReplaceFrame(p, x)
          /\ ~ \E s \in Slot : LoadDev(s)
          /\ ~UnloadDev
          /\ ~ \E a \in Agent, l \in FrameList : SysLineInit(a, l)
      BY <1>4, <3>1 DEF LoadModule, UnloadModule, ReplaceSymbol, StaticSymbol, ReplaceFrame,
                        LoadDev, UnloadDev, SysLineInit
    <3>3. UNCHANGED vars \/ \E a \in Agent : AgentGone(a)
      BY <3>2, StepCases
    <3> QED BY <3>3 DEF AgentGone, vars, hookVars
  <2> QED BY <1>4, <2>1 DEF FaultInv
<1>5. CASE UNCHANGED vars
  BY <1>4, <1>5 DEF vars, hookVars
<1>6. ASSUME NEW m \in Module, NEW s \in Slot, LoadModule(m, s), UNCHANGED frameVars
      PROVE  FaultInv'
  <2>1. AnyGone(hooks[m], where', loads')
    BY <1>2, <1>6, <1>m, PatchFaults
  <2>2. hooks' = hooks
    BY <1>6 DEF LoadModule
  <2> QED BY <2>1, <2>2 DEF FaultInv
<1>7. ASSUME NEW m \in Module, UnloadModule(m), UNCHANGED frameVars
      PROVE  FaultInv'
  <2>1. AnyGone(hooks[m], where', loads')
    BY <1>2, <1>7, <1>m, NullFaults
  <2>2. hooks' = hooks
    BY <1>7 DEF UnloadModule
  <2> QED BY <2>1, <2>2 DEF FaultInv
<1>8. ASSUME NEW p \in Plugin, NEW x \in Piece, StaticSymbol(p, x), UNCHANGED frameVars
      PROVE  FaultInv'
  BY <1>8, <1>s, StaticEffect
<1>9. ASSUME NEW a \in Agent, NEW l \in FrameList, SysLineInit(a, l)
      PROVE  FaultInv'
  <2>1. /\ state = "running" /\ where[CommonModule] # Null
        /\ UNCHANGED <<where, loads, hooks, patched, frames>>
    BY <1>9 DEF SysLineInit
  <2>2. CASE \E i \in DOMAIN frames[l] : ~PluginAt(frames[l][i].at)
    <3>1. AnyGone(frames[l], where', loads')
      BY <1>2, <1>l, <2>2
    <3> QED BY <2>1, <3>1 DEF FaultInv
  <2>3. CASE ~IsCode(Native(l, value, where))
    <3>1. CommonModule \in Module
      BY FramesAssumption
    <3>2. CASE AnyGone(patched[CommonModule], where, loads)
      BY <2>1, <3>1, <3>2 DEF FaultInv
    <3> QED BY <1>s, <2>1, <2>3, <3>2, NativeCode
  <2>4. CASE \E i \in DOMAIN frames[l] : ~IsCode(Address(frames[l][i]))
    <3>1. PICK i \in DOMAIN frames[l] : ~IsCode(Address(frames[l][i]))
      BY <2>4
    <3>2. frames[l][i] \in Entry
      BY <1>l, SeqEntry
    <3>3. ~PluginAt(frames[l][i].at)
      BY <3>1, <3>2, EntryCode
    <3> QED BY <2>2, <3>3
  <2> QED BY <1>9, <2>2, <2>3, <2>4, InitFaults
<1>10. CASE \/ \E p \in Plugin, x \in Piece : ReplaceSymbol(p, x) \/ ReplaceFrame(p, x)
            \/ \E s \in Slot : LoadDev(s)
            \/ UnloadDev
            \/ \E a \in Agent : AgentGone(a)
  <2>1. state' = state
    BY <1>10 DEF ReplaceSymbol, ReplaceFrame, LoadDev, UnloadDev, AgentGone, hookVars
  <2> QED BY <1>4, <2>1
<1> QED BY <1>5, <1>6, <1>7, <1>8, <1>9, <1>10, StepCases

\* Nothing is written to or called in unmapped memory, neither when a module is
\* loaded or unloaded, nor when a static symbol or a frame function is replaced,
\* unless an entry of a development plugin that has left is in a list.
THEOREM OnlyStaleFault == ASSUME LinkedByHash PROVE Spec => []FaultsOnlyByStale
<1>1. BaseInv /\ ChainInv /\ FaultInv /\ [Next]_vars => FaultInv'
  BY FaultStep
<1>2. FaultInv => FaultsOnlyByStale
  BY StaleIs DEF FaultInv, FaultsOnlyByStale
<1> QED BY <1>1, <1>2, FaultInit, ChainHolds, BaseHolds, PTL DEF Spec

-----------------------------------------------------------------------------
(* Agents.                                                                 *)

\* The entries that an init function takes are those the plugins meant.
LEMMA MatchesIs ==
  ASSUME BaseInv, NEW a \in Agent, NEW l \in FrameList, l \in ListsOf(a), NEW j \in DOMAIN frames[l]
  PROVE  Matches(frames[l][j], a) <=> j \in Meant(frames[l], a)
<1> DEFINE e == frames[l][j]
<1>1. e.piece \in FramePiece /\ Frame[e.piece].list = l
  BY DEF BaseInv, EntriesInv, FramesOf
<1> HIDE DEF e
<1>2. /\ Frame[e.piece].isFighter \in BOOLEAN
      /\ l # "main" => Frame[e.piece].isFighter = (l = "fighter")
  BY <1>1, FramesAssumption
<1>3. l = "main" \/ l = Category[a]
  BY DEF ListsOf
<1>4. Matches(e, a) <=> MeantFor(e, a)
  <2>1. CASE l = "main"
    BY <1>1, <2>1 DEF Matches, MeantFor
  <2>2. CASE l # "main"
    BY <1>1, <1>2, <1>3, <2>2 DEF Matches, MeantFor
  <2> QED BY <2>1, <2>2
<1> QED BY <1>4 DEF Meant, e

\* Two agents that share an entry share all of them.
LEMMA SharedIs ==
  ASSUME NEW es, NEW a, NEW b, NEW i \in Meant(es, a), i \in Meant(es, b)
  PROVE  Meant(es, a) = Meant(es, b)
BY DEF Meant, MeantFor

\* An agent that is initialised: the entries meant for it are one chain.
LEMMA InitChains ==
  ASSUME BaseInv, NEW a \in Agent, NEW l \in FrameList, SysLineInit(a, l), state' = "running"
  PROVE  \/ GoneIn(frames[l], Meant(frames[l], a), where, loads)
         \/ Chain(frames[l], Meant(frames[l], a), orig', Native(l, value, where), control'[a][l])
<1> DEFINE es == frames[l]
           n == Len(es)
           f == Chaining(a, l)
           ps == Meant(es, a)
           native == Native(l, value, where)
           P == {j \in 0..n : f[j].state = "running" => Upto(es, ps, j, f[j].orig, native, f[j].control)}
<1> SUFFICES ASSUME ~GoneIn(es, ps, where, loads)
             PROVE  Chain(es, ps, orig', native, control'[a][l])
  OBVIOUS
<1>1. /\ n \in Nat /\ es \in Seq(Entry) /\ f \in [0..n -> ControlIm]
      /\ f[0] = [control |-> native, orig |-> orig, state |-> "running"]
      /\ \A j \in 1..n : f[j] = Chained(f[j - 1], es[j], a)
      /\ control' = [control EXCEPT ![a][l] = f[n].control] /\ orig' = f[n].orig
      /\ state' = IF f[n].state = "running" /\ ~IsCode(f[n].control) THEN "faulted" ELSE f[n].state
      /\ l \in ListsOf(a)
  BY InitResult
<1>2. DOMAIN es = 1..n /\ ListInv(es, where, loads, used) /\ \A j \in 1..n : es[j] \in Entry
  BY <1>1, SeqEntry DEF BaseInv, EntriesInv
<1>3. control'[a][l] = f[n].control
  BY <1>1 DEF BaseInv, TypeInv
<1>4. \A j \in DOMAIN es : Matches(es[j], a) <=> j \in ps
  BY <1>1, MatchesIs
<1>5. ps \in SUBSET DOMAIN es /\ OnePerPiece(es, where, loads)
  BY <1>2 DEF Meant, ListInv
<1> HIDE DEF f, n, es, ps, native
<1>6. 0 \in P
  <2>1. Upto(es, ps, 0, orig, native, native) /\ 0 \in 0..n
    BY <1>1, <1>5, UptoStart
  <2> QED BY <1>1, <2>1
<1>7. ASSUME NEW j \in 1..n, j - 1 \in P PROVE j \in P
  <2>1. j \in 0..n /\ j - 1 \in 0..n
    BY <1>1
  <2> SUFFICES ASSUME f[j].state = "running"
               PROVE  Upto(es, ps, j, f[j].orig, native, f[j].control)
    BY <2>1
  <2> DEFINE im == f[j - 1]
             e == es[j]
  <2>2. im \in ControlIm /\ f[j] = Chained(im, e, a) /\ e \in Entry
    BY <1>1, <1>2, <2>1
  <2>3. im.orig \in Originals /\ im.control \in Address0
    BY <2>2 DEF ControlIm
  <2>4. im.state = "running"
    BY <2>2, ChainedIs
  <2>5. Upto(es, ps, j - 1, im.orig, native, im.control)
    BY <1>7, <2>4
  <2>6. CASE Matches(e, a)
    <3>1. f[j].control = Address(e) /\ f[j].orig = Written(im.orig, e, im.control)
      BY <2>2, <2>4, <2>6, ChainedIs
    <3>2. j \in ps
      BY <1>2, <1>4, <2>6
    <3>3. PluginAt(e.at)
      <4>1. ~Gone(es[j], where, loads)
        BY <3>2 DEF GoneIn
      <4> QED BY <1>1, <1>2, <4>1, LiveEntry
    <3> HIDE DEF im
    <3> QED BY <1>1, <1>5, <2>3, <2>5, <3>1, <3>2, <3>3, UptoOn
  <2>7. CASE ~Matches(e, a)
    <3>1. f[j] = im
      BY <2>2, <2>7, ChainedIs
    <3>2. j \notin ps
      BY <1>2, <1>4, <2>7
    <3>3. j \in 1..Len(es)
      BY DEF n
    <3> HIDE DEF im
    <3> QED BY <1>1, <1>5, <2>5, <3>1, <3>2, <3>3, UptoPast
  <2> QED BY <2>6, <2>7
<1>8. n \in P
  <2>1. P \in SUBSET (0..n) /\ n \in 0..n
    BY <1>1
  <2> HIDE DEF P
  <2> QED BY <1>1, <1>6, <1>7, <2>1, UpTo
<1>9. Upto(es, ps, Len(es), f[n].orig, native, f[n].control)
  <2>1. f[n].state = "running"
    BY <1>1
  <2> QED BY <1>8, <2>1 DEF n
<1>10. Chain(es, ps, f[n].orig, native, f[n].control)
  BY <1>1, <1>5, <1>9, UptoEnd
<1> QED BY <1>1, <1>3, <1>10

\* What a longer chain writes leaves an older agent's chain as it was.
LEMMA ChainPrefix ==
  ASSUME NEW es \in Seq(Entry), NEW ps \in SUBSET DOMAIN es, NEW sn \in Nat, NEW org, NEW org2,
         NEW native, NEW address, Chained0(es, ps, org2, native),
         Chain(es, {j \in ps : j <= sn}, org, native, address)
  PROVE  Chain(es, {j \in ps : j <= sn}, org2, native, address)
<1> DEFINE qs == {j \in ps : j <= sn}
<1>1. \A j \in ps : j \in Nat
  BY SeqEntry
<1>2. ASSUME NEW j \in qs, NEW b, Leads(es, ps, j, native, b)
      PROVE  Leads(es, qs, j, native, b)
  <2>1. \A i \in ps : i < j => i \in qs
    BY <1>1
  <2> QED BY <1>2, <2>1 DEF Leads
<1> QED BY <1>2 DEF Chain, Chained0

LEMMA AgentKept ==
  ASSUME NEW es \in Seq(Entry), NEW a, NEW sn, NEW org, NEW org2, NEW native, NEW address,
         NEW w, NEW l, NEW u, NEW w2, NEW l2, NEW u2, Keeps(w, l, u, w2, l2, u2), ListInv(es, w, l, u),
         AgentLeadsTo(es, a, sn, org, native, address, w, l),
         \A j \in Meant(es, a) :
           ~Gone(es[j], w2, l2) => org2[es[j].at][es[j].piece] = org[es[j].at][es[j].piece]
  PROVE  AgentLeadsTo(es, a, sn, org2, native, address, w2, l2)
<1> DEFINE ps == Meant(es, a)
           qs == {j \in ps : j <= sn}
<1>1. ps \in SUBSET DOMAIN es
  BY DEF Meant
<1> HIDE DEF ps
<1>2. CASE GoneIn(es, ps, w, l)
  BY <1>1, <1>2, KeptGone DEF AgentLeadsTo, ps
<1>3. CASE ~GoneIn(es, ps, w2, l2) /\ Chain(es, qs, org, native, address)
  <2>1. \A j \in qs : org2[es[j].at][es[j].piece] = org[es[j].at][es[j].piece]
    BY <1>3 DEF GoneIn, ps
  <2> HIDE DEF qs
  <2>2. Chain(es, qs, org2, native, address)
    BY <1>3, <2>1, ChainKept
  <2> QED BY <2>2 DEF AgentLeadsTo, qs, ps
<1> QED BY <1>2, <1>3 DEF AgentLeadsTo, ps

LEMMA AgentAppend ==
  ASSUME NEW es \in Seq(Entry), NEW e \in Entry, NEW a, NEW sn \in Nat, sn <= Len(es), NEW org,
         NEW native, NEW address, NEW w, NEW l, AgentLeadsTo(es, a, sn, org, native, address, w, l)
  PROVE  AgentLeadsTo(Append(es, e), a, sn, org, native, address, w, l)
<1> DEFINE es2 == Append(es, e)
           n == Len(es)
           qs == {j \in Meant(es, a) : j <= sn}
<1>1. /\ n \in Nat /\ DOMAIN es2 = 1..n + 1 /\ DOMAIN es = 1..n
      /\ \A i \in 1..n : es2[i] = es[i]
  BY AppendIs
<1>2. Meant(es, a) \subseteq Meant(es2, a) /\ \A j \in Meant(es, a) : es2[j] = es[j]
  <2>1. 1..n \subseteq 1..n + 1
    BY <1>1
  <2> HIDE DEF es2
  <2> QED BY <1>1, <2>1 DEF Meant
<1>3. {j \in Meant(es2, a) : j <= sn} = qs
  <2>1. \A j \in 1..n + 1 : j <= sn => j \in 1..n
    BY <1>1
  <2> HIDE DEF es2
  <2> QED BY <1>1, <1>2, <2>1 DEF Meant
<1>4. qs \in SUBSET DOMAIN es
  BY DEF Meant
<1> HIDE DEF qs
<1>5. GoneIn(es, Meant(es, a), w, l) => GoneIn(es2, Meant(es2, a), w, l)
  <2> HIDE DEF es2
  <2> QED BY <1>2 DEF GoneIn
<1>6. Chain(es, qs, org, native, address) => Chain(es2, qs, org, native, address)
  BY <1>4, ChainAppend
<1> QED BY <1>3, <1>5, <1>6 DEF AgentLeadsTo, qs

LEMMA AgentInit == Init => AgentInv
<1> SUFFICES ASSUME Init PROVE AgentInv
  OBVIOUS
<1>1. \A a \in Agent : \A l \in FrameList : control[a][l] = Null
  BY DEF Init, NoAgents
<1>2. \A a \in Agent : ListsOf(a) \subseteq FrameList
  BY DEF ListsOf
<1> QED BY <1>1, <1>2 DEF AgentInv

LEMMA AgentStep ==
  ASSUME LinkedByHash, BaseInv, ChainInv, AgentInv, [Next]_vars
  PROVE  AgentInv'
<1> SUFFICES ASSUME state' = "running", ~StaticGone(patched', where', loads'),
                    NEW a \in Agent, NEW l \in ListsOf(a), control'[a][l] # Null
             PROVE  /\ where'[CommonModule] # Null /\ seen'[a][l] <= Len(frames'[l])
                    /\ AgentLeadsTo(frames'[l], a, seen'[a][l], orig', Native(l, value', where'),
                                    control'[a][l], where', loads')
  BY DEF AgentInv
<1> DEFINE es == frames[l]
           Goal == /\ where'[CommonModule] # Null /\ seen'[a][l] <= Len(frames'[l])
                   /\ AgentLeadsTo(frames'[l], a, seen'[a][l], orig', Native(l, value', where'),
                                   control'[a][l], where', loads')
           Unwritten == \A j \in Meant(es, a) :
             ~Gone(es[j], where', loads') => orig'[es[j].at][es[j].piece] = orig[es[j].at][es[j].piece]
           CommonSame == where'[CommonModule] = where[CommonModule] /\ value'[CommonModule] = value[CommonModule]
           Same   == control'[a][l] = control[a][l] /\ seen'[a][l] = seen[a][l]
<1>l. l \in FrameList /\ CommonModule \in Module \ StaticModule /\ CommonModule \in Image
  BY FramesAssumption, Membership DEF ListsOf
<1>t. /\ where \in [Image -> Slot \cup {Null}] /\ Null \notin Slot /\ frames \in [FrameList -> Seq(Entry)]
      /\ value = [k \in Module |-> value[k]] /\ seen \in [Agent -> [FrameList -> Nat]]
      /\ control \in [Agent -> [FrameList -> Address0 \cup {Null}]] /\ Null \notin Address0
  BY Sizes DEF BaseInv, TypeInv
<1>e. /\ es \in Seq(Entry) /\ ListInv(es, where, loads, used)
      /\ \A j \in Meant(es, a) :
           /\ es[j] \in Entry /\ Recorded(es[j], where, loads, used)
           /\ es[j].piece \in FramePiece /\ es[j].piece \notin SymbolPiece
  <2>1. es \in Seq(Entry) /\ ListInv(es, where, loads, used)
    BY <1>l, <1>t DEF BaseInv, EntriesInv
  <2>2. \A j \in DOMAIN es : es[j] \in Entry /\ Recorded(es[j], where, loads, used)
    BY <2>1, SeqEntry DEF ListInv
  <2>3. \A j \in DOMAIN es : es[j].piece \in FramePiece
    BY <1>l DEF BaseInv, EntriesInv, FramesOf
  <2> QED BY <2>1, <2>2, <2>3, FramesAssumption DEF Meant
<1>1. Keeps(where, loads, used, where', loads', used')
  BY BaseStep
<1>2. ~StaticGone(patched, where, loads)
  BY StaticKept
<1>3. state = "running" /\ control[a][l] # Null =>
        /\ where[CommonModule] # Null /\ seen[a][l] <= Len(es)
        /\ AgentLeadsTo(es, a, seen[a][l], orig, Native(l, value, where), control[a][l], where, loads)
  BY <1>2 DEF AgentInv
<1> HIDE DEF es
<1>4. ASSUME state = "running", Same, CommonSame, Unwritten
      PROVE  /\ where'[CommonModule] # Null /\ seen'[a][l] <= Len(es)
             /\ AgentLeadsTo(es, a, seen'[a][l], orig', Native(l, value', where'),
                             control'[a][l], where', loads')
  <2>1. Native(l, value', where') = Native(l, value, where)
    BY <1>4 DEF Native
  <2>2. AgentLeadsTo(es, a, seen[a][l], orig', Native(l, value, where), control[a][l], where', loads')
    BY <1>1, <1>3, <1>4, <1>e, AgentKept
  <2> QED BY <1>3, <1>4, <2>1, <2>2
<1>5. control' = control => Unwritten
  <2> SUFFICES ASSUME control' = control, NEW j \in Meant(es, a), ~Gone(es[j], where', loads'),
                      orig'[es[j].at][es[j].piece] # orig[es[j].at][es[j].piece]
               PROVE  FALSE
    OBVIOUS
  <2>1. ~ \E b \in Agent, k \in FrameList : SysLineInit(b, k)
    <3> SUFFICES ASSUME NEW b \in Agent, NEW k \in FrameList, SysLineInit(b, k) PROVE FALSE
      OBVIOUS
    <3> DEFINE c == Chaining(b, k)[Len(frames[k])].control
    <3>1. control' = [control EXCEPT ![b][k] = c] /\ control[b][k] = Null
      BY DEF SysLineInit
    <3>2. c \in Address0
      BY InitResult DEF ControlIm
    <3> HIDE DEF c
    <3> QED BY <1>t, <3>1, <3>2
  <2>2. ~ \E p \in Plugin, x \in Piece : StaticSymbol(p, x) /\ es[j].piece = x
    BY <1>e DEF StaticSymbol
  <2> QED BY <1>e, <2>1, <2>2, LiveWrites
<1> HIDE DEF Unwritten
<1>6. ASSUME NEW m \in Module, NEW s \in Slot, LoadModule(m, s), UNCHANGED frameVars
      PROVE  Goal
  <2>1. /\ state = "running" /\ where' = [where EXCEPT ![m] = s] /\ where[m] = Null
        /\ value' = [value EXCEPT ![m] = Patching(m, s)[Len(hooks[m])].value]
        /\ UNCHANGED <<frames, control, seen>>
    BY <1>6 DEF LoadModule, frameVars
  <2>2. m # CommonModule
    BY <1>3, <2>1
  <2>3. CommonSame
    BY <1>l, <1>t, <2>1, <2>2
  <2> QED BY <1>4, <1>5, <2>1, <2>3 DEF es
<1>7. ASSUME control = NoAgents, UNCHANGED frameVars
      PROVE  Goal
  BY <1>7, <1>l DEF NoAgents, frameVars
<1>8. ASSUME NEW p \in Plugin, NEW x \in Piece, ReplaceSymbol(p, x), UNCHANGED frameVars
      PROVE  Goal
  <2>1. state = "running" /\ UNCHANGED <<where, value, frames, control, seen>>
    BY <1>8 DEF ReplaceSymbol, MayUse, frameVars
  <2> QED BY <1>4, <1>5, <2>1 DEF es
<1>9. ASSUME NEW p \in Plugin, NEW x \in Piece, StaticSymbol(p, x), UNCHANGED frameVars
      PROVE  Goal
  <2>1. state = "running" /\ UNCHANGED <<where, frames, control, seen>>
        /\ Target[x].module \in StaticModule
    BY <1>9 DEF StaticSymbol, ReplaceStaticSymbol, MayUse, frameVars
  <2>2. value' = value \/ \E i \in Defined(Target[x].module) : StaticPuts(p, x, i)
    BY <1>2, <1>9, StaticEffect
  <2>3. value'[CommonModule] = value[CommonModule]
    BY <1>l, <1>t, <2>1, <2>2 DEF StaticPuts
  <2> QED BY <1>4, <1>5, <2>1, <2>3 DEF es
<1>10. ASSUME NEW p \in Plugin, NEW x \in Piece, ReplaceFrame(p, x)
       PROVE  Goal
  <2> DEFINE e == NewEntry(p, x)
  <2>1. /\ state = "running" /\ UNCHANGED <<where, value, control, seen>>
        /\ frames' = [frames EXCEPT ![Frame[x].list] = Append(@, e)]
    BY <1>10 DEF ReplaceFrame, MayUse
  <2>2. e \in Entry
    BY <1>10, NewEntryIs DEF ReplaceFrame, MayUse, BaseInv
  <2> HIDE DEF e
  <2>3. /\ where'[CommonModule] # Null /\ seen'[a][l] <= Len(es)
        /\ AgentLeadsTo(es, a, seen'[a][l], orig', Native(l, value', where'),
                        control'[a][l], where', loads')
    BY <1>4, <1>5, <2>1
  <2>4. frames'[l] = es \/ frames'[l] = Append(es, e)
    BY <1>l, <1>t, <2>1 DEF es
  <2>5. CASE frames'[l] = Append(es, e)
    <3>1. seen'[a][l] \in Nat
      BY <1>l, <1>t, <2>1
    <3>2. Len(es) \in Nat /\ Len(Append(es, e)) = Len(es) + 1
      BY <1>e, <2>2, AppendIs
    <3>3. AgentLeadsTo(Append(es, e), a, seen'[a][l], orig', Native(l, value', where'),
                       control'[a][l], where', loads')
      BY <1>e, <2>2, <2>3, <3>1, AgentAppend
    <3>4. seen'[a][l] <= Len(Append(es, e))
      BY <2>3, <3>1, <3>2
    <3> QED BY <2>3, <2>5, <3>3, <3>4
  <2> QED BY <2>3, <2>4, <2>5
<1>11. ASSUME NEW s \in Slot, LoadDev(s), UNCHANGED frameVars
       PROVE  Goal
  <2>1. state = "running" /\ UNCHANGED <<value, frames, control, seen>>
        /\ where' = [where EXCEPT ![Dev] = s]
    BY <1>11 DEF LoadDev, frameVars
  <2>2. where'[CommonModule] = where[CommonModule]
    BY <1>l, <1>t, <2>1, Membership
  <2> QED BY <1>4, <1>5, <2>1, <2>2 DEF es
<1>12. ASSUME UnloadDev, UNCHANGED frameVars
       PROVE  Goal
  <2>1. state = "running" /\ UNCHANGED <<value, frames, control, seen>>
        /\ where' = [where EXCEPT ![Dev] = Null]
    BY <1>12 DEF UnloadDev, frameVars
  <2>2. where'[CommonModule] = where[CommonModule]
    BY <1>l, <1>t, <2>1, Membership
  <2> QED BY <1>4, <1>5, <2>1, <2>2 DEF es
<1>13. ASSUME UNCHANGED vars
       PROVE  Goal
  <2>1. UNCHANGED <<state, where, value, frames, control, seen>>
    BY <1>13 DEF vars, hookVars
  <2> QED BY <1>4, <1>5, <2>1 DEF es
<1>14. ASSUME NEW b \in Agent, AgentGone(b)
       PROVE  Goal
  <2>1. /\ UNCHANGED <<state, where, value, frames, orig>>
        /\ control' = [control EXCEPT ![b] = NoAgents[b]]
        /\ seen' = [seen EXCEPT ![b] = [k \in FrameList |-> 0]]
    BY <1>14 DEF AgentGone, hookVars
  <2>2. a # b
    BY <1>l, <1>t, <2>1 DEF NoAgents
  <2>3. Same
    BY <1>t, <2>1, <2>2
  <2>4. Unwritten
    BY <2>1 DEF Unwritten
  <2> QED BY <1>4, <2>1, <2>3, <2>4 DEF es
<1>15. ASSUME NEW b \in Agent, NEW k \in FrameList, SysLineInit(b, k)
       PROVE  Goal
  <2> DEFINE c == Chaining(b, k)[Len(frames[k])].control
             native == Native(l, value, where)
  <2>1. /\ state = "running" /\ where[CommonModule] # Null
        /\ UNCHANGED <<where, loads, value, frames>> /\ k \in ListsOf(b)
        /\ control' = [control EXCEPT ![b][k] = c] /\ seen' = [seen EXCEPT ![b][k] = Len(frames[k])]
    BY <1>15 DEF SysLineInit
  <2>n. Native(l, value', where') = native
    BY <2>1
  <2> HIDE DEF c, native
  <2>2. CASE k = l /\ Meant(es, a) = Meant(es, b)
    <3>1. \/ GoneIn(es, Meant(es, a), where, loads)
          \/ Chain(es, Meant(es, a), orig', native, control'[b][l])
      BY <1>15, <2>2, InitChains DEF es, native
    <3>2. CASE a = b
      <4>1. seen'[a][l] = Len(es) /\ Len(es) \in Nat
        <5>1. Len(es) \in Nat
          BY <1>e, SeqEntry
        <5> QED BY <1>t, <2>1, <2>2, <3>2, <5>1 DEF es
      <4>2. {j \in Meant(es, a) : j <= Len(es)} = Meant(es, a)
        BY <1>e, SeqEntry DEF Meant
      <4>3. AgentLeadsTo(es, a, Len(es), orig', native, control'[a][l], where, loads)
        BY <3>1, <3>2, <4>2 DEF AgentLeadsTo
      <4>4. seen'[a][l] <= Len(es)
        BY <4>1
      <4> QED BY <2>1, <2>n, <4>1, <4>3, <4>4 DEF es
    <3>3. CASE a # b
      <4>1. Same
        BY <1>t, <2>1, <3>3
      <4>2. /\ where[CommonModule] # Null /\ seen[a][l] <= Len(es)
            /\ AgentLeadsTo(es, a, seen[a][l], orig, native, control[a][l], where, loads)
        BY <1>3, <2>1, <4>1 DEF native
      <4>3. CASE GoneIn(es, Meant(es, a), where, loads)
        <5>1. AgentLeadsTo(es, a, seen[a][l], orig', native, control[a][l], where, loads)
          BY <4>3 DEF AgentLeadsTo
        <5> QED BY <2>1, <2>n, <4>1, <4>2, <5>1 DEF es
      <4>4. CASE ~GoneIn(es, Meant(es, a), where, loads)
        <5> DEFINE ps == Meant(es, a)
                   sn == seen[a][l]
        <5>1. ps \in SUBSET DOMAIN es /\ sn \in Nat
          BY <1>l, <1>t DEF Meant
        <5>2. Chained0(es, ps, orig', native)
          BY <3>1, <4>4 DEF Chain
        <5>3. Chain(es, {j \in ps : j <= sn}, orig, native, control[a][l])
          BY <4>2, <4>4 DEF AgentLeadsTo
        <5> HIDE DEF ps, sn
        <5>4. Chain(es, {j \in ps : j <= sn}, orig', native, control[a][l])
          BY <1>e, <5>1, <5>2, <5>3, ChainPrefix
        <5>5. AgentLeadsTo(es, a, sn, orig', native, control[a][l], where, loads)
          BY <5>4 DEF AgentLeadsTo, ps
        <5> QED BY <2>1, <2>n, <4>1, <4>2, <5>5 DEF es, sn
      <4> QED BY <4>3, <4>4
    <3> QED BY <3>2, <3>3
  <2>3. CASE ~ (k = l /\ Meant(es, a) = Meant(es, b))
    <3>1. Same
      BY <1>l, <1>t, <2>1, <2>3
    <3>2. Unwritten
      <4> SUFFICES ASSUME NEW j \in Meant(es, a),
                          orig'[es[j].at][es[j].piece] # orig[es[j].at][es[j].piece]
                   PROVE  FALSE
        BY DEF Unwritten
      <4>1. es[j].at \in Slot /\ es[j].piece \in Piece /\ j \in DOMAIN es
        BY <1>e, EntryAddress DEF Meant
      <4>2. PICK i \in DOMAIN frames[k] : /\ frames[k][i].piece = es[j].piece
                                          /\ Matches(frames[k][i], b)
        BY <1>15, <4>1, ChainWrites
      <4>3. Frame[frames[k][i].piece].list = k /\ Frame[es[j].piece].list = l
        BY <1>l, <4>1 DEF BaseInv, EntriesInv, FramesOf, es
      <4>4. k = l
        BY <4>2, <4>3
      <4>5. Matches(es[j], b)
        BY <4>2 DEF Matches
      <4>6. j \in Meant(es, b)
        BY <2>1, <4>1, <4>4, <4>5, MatchesIs DEF es
      <4> QED BY <2>3, <4>4, <4>6, SharedIs
    <3> QED BY <1>4, <2>1, <3>1, <3>2 DEF es
  <2> QED BY <2>2, <2>3
<1> QED BY <1>6, <1>7, <1>8, <1>9, <1>10, <1>11, <1>12, <1>13, <1>14, <1>15, StepCases

LEMMA AgentsCalled ==
  ASSUME BaseInv, AgentInv
  PROVE  AgentChains
<1> SUFFICES ASSUME state = "running", ~StaticStale, NEW a \in Agent, NEW l \in ListsOf(a),
                    control[a][l] # Null
             PROVE  LET meant == {j \in DOMAIN frames[l] : MeantFor(frames[l][j], a)}
                    IN \/ StaleIn(frames[l], meant)
                       \/ Calls(control[a][l], frames[l], {j \in meant : j <= seen[a][l]},
                                LookupSymbol(CommonModule, Control[l]))
  BY DEF AgentChains
<1> DEFINE es == frames[l]
           meant == Meant(es, a)
           ps == {j \in meant : j <= seen[a][l]}
           native == LookupSymbol(CommonModule, Control[l])
           address == control[a][l]
<1>1. l \in FrameList
  BY DEF ListsOf
<1>2. AgentLeadsTo(es, a, seen[a][l], orig, native, address, where, loads)
  <2>1. AgentLeadsTo(es, a, seen[a][l], orig, Native(l, value, where), address, where, loads)
    BY StaleIs DEF AgentInv
  <2>2. Native(l, value, where) = native
    BY <1>1, NativeIs
  <2> QED BY <2>1, <2>2
<1>3. /\ es \in Seq(Entry) /\ ListInv(es, where, loads, used) /\ TypeInv /\ address \in Address0
      /\ ps \in SUBSET DOMAIN es
  BY <1>1 DEF BaseInv, TypeInv, EntriesInv, Meant
<1>4. meant = {j \in DOMAIN frames[l] : MeantFor(frames[l][j], a)}
  BY DEF Meant
<1>5. CASE GoneIn(es, meant, where, loads)
  BY <1>4, <1>5, StaleIs
<1>6. CASE ~GoneIn(es, meant, where, loads)
  <2>1. Chain(es, ps, orig, native, address)
    BY <1>2, <1>6 DEF AgentLeadsTo
  <2>2. \A j \in ps : PluginAt(es[j].at)
    <3> SUFFICES ASSUME NEW j \in ps PROVE PluginAt(es[j].at)
      OBVIOUS
    <3>1. j \in DOMAIN es /\ ~Gone(es[j], where, loads)
      BY <1>3, <1>6 DEF GoneIn
    <3> HIDE DEF es
    <3> QED BY <1>3, <3>1, LiveEntry
  <2>3. Calls(address, es, ps, native)
    <3> HIDE DEF es, ps, native, address
    <3> QED BY <1>3, <2>1, <2>2, ChainCalls
  <2> QED BY <1>4, <2>3
<1> QED BY <1>5, <1>6

\* What a live agent runs every frame goes through exactly the replacements for
\* its kind and category that were registered before it was initialised, the
\* newest first, and then to the game's function, though all agents share the
\* originals that each initialisation writes again (callbacks.rs
\* sys_line_system_fighter_init_replace and its siblings).
THEOREM AgentsLead == ASSUME LinkedByHash PROVE Spec => []AgentChains
<1>1. BaseInv /\ ChainInv /\ AgentInv /\ [Next]_vars => AgentInv'
  BY AgentStep
<1>2. BaseInv /\ AgentInv => AgentChains
  BY AgentsCalled
<1> QED BY <1>1, <1>2, AgentInit, ChainHolds, BaseHolds, PTL DEF Spec
=============================================================================
