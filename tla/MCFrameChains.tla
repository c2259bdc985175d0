---------------------------- MODULE MCFrameChains ----------------------------
(* A small instance of FrameChains for TLC: "common" between two other     *)
(* modules and plugins in memory, and the tables a linker makes for it.    *)
EXTENDS FrameChains

CONSTANTS common, sdk, res, dev,                  \* images
          hookTable, hookImport, hookStatic,      \* pieces
          frameFighter,
          mario, fireball                         \* agents

\* Names, with their hash as the ABI defines it.  The sum for "iiiiicos"
\* exceeds 32 bits; of seven buckets it shares that of "printf".
Overflowing == <<105, 105, 105, 105, 105, 99, 111, 115>>  \* "iiiiicos"
SubTable    == <<115, 117, 98, 95, 116, 97, 98, 108, 101>> \* "sub_table"
Printf      == <<112, 114, 105, 110, 116, 102>>           \* "printf"
AbiHashes   == (Overflowing :> 99) @@ (SubTable :> 141165461) @@ (Printf :> 125371814)

Symbol(name, shndx) == [name |-> name, shndx |-> shndx]
Tables ==
  (common :> LinkerTable(<<Symbol(Printf, 0), Symbol(SubTable, 7), Symbol(Overflowing, 7)>>,
                         7, AbiHashes))
  @@ (sdk :> LinkerTable(<<Symbol(SubTable, Common), Symbol(Printf, 7)>>, 2, AbiHashes))

Targets ==
  (hookTable  :> [module |-> common, name |-> Overflowing])
  @@ (hookImport :> [module |-> common, name |-> Printf])
  @@ (hookStatic :> [module |-> sdk, name |-> Printf])
Pieces ==
  (res :> {hookTable, hookImport, hookStatic, frameFighter})
  @@ (dev :> {hookTable, hookStatic, frameFighter})
Offsets ==
  (hookTable :> 1) @@ (hookImport :> 2) @@ (hookStatic :> 3)
  @@ (frameFighter :> 4)
Loads == (common :> 2) @@ (dev :> 2) @@ (sdk :> 1) @@ (res :> 1)
Homes == (sdk :> 3) @@ (res :> 1)

Controls == [l \in {"main"} |-> Overflowing]
Frames == frameFighter :> [list |-> "main", kind |-> 0, isFighter |-> TRUE]
Kinds      == [a \in {mario, fireball} |-> 0]
Categories == (mario :> "fighter") @@ (fireball :> "weapon")
=============================================================================
