--------------------------------- MODULE Rtld ---------------------------------
(***************************************************************************)
(* Rtld: the symbol lookup of rtld.rs over the hash table a linker made,   *)
(* as pure operators.                                                      *)
(*                                                                         *)
(* A module's dynsym is a sequence of symbols [name, shndx]; index 0 is    *)
(* "no symbol".  The value of a symbol, which symbol_replace changes, is   *)
(* passed apart.  A name is the sequence of its bytes.                     *)
(***************************************************************************)
EXTENDS Integers, Sequences

Common == 65522   \* 0xFFF2
IsCommon(sym) == sym.shndx \in {0, Common}

-----------------------------------------------------------------------------
(* gen_rtld_elf_hash on u32.  The hash always fits 28 bits, so that one    *)
(* turn is (hash << 4) + c: its upper four bits g, and the lower 28, of    *)
(* which bits 4 to 7 are xored with g.  The sum may exceed 32 bits.        *)

Bit(n, i)    == (n \div 2^i) % 2
Xor4(a, b)   == LET bit(i) == ((Bit(a, i) + Bit(b, i)) % 2) * 2^i
                IN bit(0) + bit(1) + bit(2) + bit(3)
Shifted(h, c) == (h % 2^24) * 16 + c              \* the sum without the upper bits of h
Upper(h, c)   == h \div 2^24 + Shifted(h, c) \div 2^28

SaturatedG(h, c) == IF Upper(h, c) > 15 THEN 15 ELSE Upper(h, c)   \* mutant: no wrapping
G(h, c)          == Upper(h, c) % 16
HashStep(h, c) ==
  LET low == Shifted(h, c) % 2^28
  IN low - Bit(low, 4) * 16 - Bit(low, 5) * 32 - Bit(low, 6) * 64 - Bit(low, 7) * 128
     + 16 * Xor4((low \div 16) % 16, G(h, c))

ElfHash(name) ==
  LET hash[i \in 0..Len(name)] == IF i = 0 THEN 0 ELSE HashStep(hash[i - 1], name[i])
  IN hash[Len(name)]

\* With overflow checks (a debug build) such a sum panics.
Overflows(name) ==
  \E i \in 1..Len(name) :
    LET h == ElfHash(SubSeq(name, 1, i - 1)) IN Upper(h, name[i]) > 15

-----------------------------------------------------------------------------
(* Lookup.                                                                 *)

\* Down the chain from each symbol, the symbol included: the first of S, or 0.
FirstOn(table, S) ==
  LET from[i \in 0..Len(table.dynsym)] ==
        IF i = 0 \/ i \in S THEN i ELSE from[table.chain[i]]
  IN from

\* get_symbol_by_name: down the chain of the name's bucket.
AnyNamed(sym, name)   == sym.name = name    \* mutant: undefined and common symbols are taken
Provides(sym, name)   == sym.name = name /\ ~IsCommon(sym)
Providers(table, name) == {i \in DOMAIN table.dynsym : Provides(table.dynsym[i], name)}
GetSymbolByName(table, name) ==
  FirstOn(table, Providers(table, name))[table.bucket[ElfHash(name) % table.nbucket]]

\* get_symbol_by_resolved_address: down every chain, bucket by bucket.
LeastOf(S) == IF S = {} THEN 0 ELSE CHOOSE i \in S : \A j \in S : i <= j
GetSymbolByValue(table, value, difference) ==
  LET first == FirstOn(table, {i \in DOMAIN table.dynsym :
                                 ~IsCommon(table.dynsym[i]) /\ value[i] = difference})
  IN first[table.bucket[LeastOf({b \in 0..table.nbucket - 1 : first[table.bucket[b]] # 0})]]

-----------------------------------------------------------------------------
(* The linker's side: a table for dynsym, with the hash of each name as    *)
(* the ABI defines it.                                                     *)

LinkerTable(dynsym, nbucket, AbiHash) ==
  LET inBucket(b) == {i \in DOMAIN dynsym : AbiHash[dynsym[i].name] % nbucket = b}
  IN [dynsym  |-> dynsym, nbucket |-> nbucket,
      bucket  |-> [b \in 0..nbucket - 1 |-> LeastOf(inBucket(b))],
      chain   |-> [i \in DOMAIN dynsym |->
                    LeastOf({j \in inBucket(AbiHash[dynsym[i].name] % nbucket) : j > i})]]
=============================================================================
