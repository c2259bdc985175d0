--------------------------- MODULE LockOrderProofs ---------------------------
(***************************************************************************)
(* Who can wait for whom, for any number of threads, categories of ACMD     *)
(* scripts and callback lists: theorems about LockOrder.                    *)
(***************************************************************************)
EXTENDS LockOrder, Integers, WellFoundedInduction, FiniteSetTheorems, TLAPS

-----------------------------------------------------------------------------
(* The order of the mutexes.                                               *)

CreateMutex == {CREATE_AGENTS(c, s) : c \in Category, s \in {"own", "share"}}
ScriptMutex == {SCRIPTS(c) : c \in Category}
HandlerOnly == CreateMutex \cup {STATUS_CREATE_AGENTS, STATUS_VTABLES}
PluginHeld  == ListMutex \cup {LOADED_DEVELOPMENT_PLUGIN}

\* The mutexes of a sequence, each before those that follow it.
Ordered(ls) == {x \in Range(ls) \X Range(ls) : \E i, j \in DOMAIN ls : i < j /\ x = <<ls[i], ls[j]>>}

\* What is locked while what is held: by the game's own handlers, and by what
\* plugins call, be it on a thread of their own, from a reload or from a callback.
GameOrder ==
  Ordered(AllCreateAgents)
  \cup CreateMutex \X ({LOADED_ACMD_AGENTS, LOADED_STATUS_AGENTS} \cup ScriptMutex)
  \cup {<<LOADED_ACMD_AGENTS, LOADED_STATUS_AGENTS>>,
        <<STATUS_CREATE_AGENTS, STATUS_VTABLES>>,
        <<STATUS_CREATE_AGENTS, LOADED_STATUS_AGENTS>>,
        <<STATUS_VTABLES, LOADED_STATUS_AGENTS>>,
        <<STATUS_SCRIPTS, COMMON_STATUS_SCRIPTS>>}
PluginOrder ==
  PluginHeld \X (Mutex \ HandlerOnly)
  \cup {LOADED_ACMD_AGENTS} \X ScriptMutex \cup Ordered(AllScripts)
  \cup StatusMutex \X {LOADED_STATUS_AGENTS} \cup {LOADED_STATUS_AGENTS} \X StatusMutex
  \cup {<<STATUS_SCRIPTS, COMMON_STATUS_SCRIPTS>>}

\* A thread that holds A runs what a plugin called; and what it may lock then.
PluginRuns(t, A) == t \in InputThread \cup PluginThread \/ A \cap ListMutex # {}
MayLock(t, A, l) ==
  \A m \in A : <<m, l>> \in GameOrder \/ (PluginRuns(t, A) /\ <<m, l>> \in PluginOrder)

\* Every lock that anybody waits for is one that he may take.
LocksInOrder == \A t \in Thread : Waits(t) => MayLock(t, Held(t), Wanted(t))

-----------------------------------------------------------------------------
(* What a sequence of steps does to the mutexes that a thread holds.       *)

\* The state of a thread that waits for itself.
Stuck == CHOOSE x : x \notin SUBSET Mutex

StepOK(t, A, s, B) ==
  \/ A = Stuck
  \/ \E l \in Mutex : /\ s = Lock(l) /\ MayLock(t, A, l)
                      /\ B = IF l \in A THEN Stuck ELSE A \cup {l}
  \/ \E l \in A : s = Unlock(l) /\ B = A \ {l}
  \/ s = PluginCode /\ A \subseteq PluginHeld /\ PluginRuns(t, A) /\ B = A

\* From A the steps of s lead to B, each being allowed where it is taken.
Leads(t, h, s) == \A i \in 1..Len(s) : StepOK(t, h[i], s[i], h[i + 1])
Runs(t, A, s, B) ==
  \E h : h[1] = A /\ h[Len(s) + 1] = B /\ Leads(t, h, s)

\* The inductive invariant: what a thread has yet to do fits what it holds, and
\* leaves nothing locked.
LockInv == TypeOK /\ \A t \in Thread : Runs(t, Held(t), rest[t], {})

-----------------------------------------------------------------------------
(* Sequences of steps.                                                     *)

LEMMA StuckIs == Stuck \notin SUBSET Mutex
<1>1. \E x : x \notin SUBSET Mutex
  BY NoSetContainsEverything
<1> QED BY <1>1 DEF Stuck

\* Nothing to do.
LEMMA RunsNothing == ASSUME NEW t, NEW A PROVE Runs(t, A, <<>>, A)
<1> DEFINE h == [i \in {1} |-> A]
<1>1. h[1] = A /\ h[Len(<<>>) + 1] = A /\ Leads(t, h, <<>>)
  BY DEF Leads
<1> QED BY <1>1 DEF Runs

\* One step.
LEMMA RunsOne ==
  ASSUME NEW t, NEW A, NEW s, NEW B, StepOK(t, A, s, B)
  PROVE  Runs(t, A, <<s>>, B)
<1> DEFINE h == [i \in 1..2 |-> IF i = 1 THEN A ELSE B]
<1>1. h[1] = A /\ h[2] = B
  OBVIOUS
<1>2. Leads(t, h, <<s>>)
  BY <1>1 DEF Leads
<1> HIDE DEF h
<1>3. Len(<<s>>) + 1 = 2
  OBVIOUS
<1> QED BY <1>1, <1>2, <1>3 DEF Runs

\* One sequence after another.
LEMMA RunsBoth ==
  ASSUME NEW t, NEW T, NEW r \in Seq(T), NEW s \in Seq(T), NEW A, NEW B, NEW C,
         Runs(t, A, r, B), Runs(t, B, s, C)
  PROVE  Runs(t, A, r \o s, C)
<1>1. PICK g : g[1] = A /\ g[Len(r) + 1] = B /\ Leads(t, g, r)
  BY DEF Runs
<1>2. PICK h : h[1] = B /\ h[Len(s) + 1] = C /\ Leads(t, h, s)
  BY DEF Runs
<1> DEFINE n == Len(r)
           m == Len(s)
           f == [i \in 1..n + m + 1 |-> IF i <= n THEN g[i] ELSE h[i - n]]
<1>3. n \in Nat /\ m \in Nat /\ Len(r \o s) = n + m
  OBVIOUS
<1>4. f[1] = A
  <2>1. CASE n = 0
    BY <1>1, <1>2, <1>3, <2>1
  <2>2. CASE n > 0
    BY <1>1, <1>3, <2>2
  <2> QED BY <1>3, <2>1, <2>2
<1>5. f[n + m + 1] = C
  <2>1. n + m + 1 \in 1..n + m + 1 /\ ~ (n + m + 1 <= n) /\ n + m + 1 - n = m + 1
    BY <1>3
  <2> QED BY <2>1, <1>2
<1>6. f[n + 1] = B
  BY <1>2, <1>3
<1>7. ASSUME NEW i \in 1..n + m PROVE StepOK(t, f[i], (r \o s)[i], f[i + 1])
  <2>1. CASE i \in 1..n
    <3>1. f[i] = g[i]
      BY <1>3, <2>1
    <3>2. f[i + 1] = g[i + 1]
      <4>1. CASE i = n
        BY <1>1, <1>6, <4>1
      <4>2. CASE i # n
        <5>1. i + 1 \in 1..n + m + 1 /\ i + 1 <= n
          BY <1>3, <2>1, <4>2
        <5> QED BY <5>1
      <4> QED BY <4>1, <4>2
    <3>3. (r \o s)[i] = r[i]
      BY <1>3, <2>1
    <3>4. StepOK(t, g[i], r[i], g[i + 1])
      BY <1>1, <2>1 DEF Leads
    <3> HIDE DEF f
    <3> QED BY <3>1, <3>2, <3>3, <3>4
  <2>2. CASE i \notin 1..n
    <3> DEFINE j == i - n
    <3>1. j \in 1..m /\ j + 1 = i + 1 - n /\ i \in 1..n + m + 1 /\ i + 1 \in 1..n + m + 1
          /\ ~ (i <= n) /\ ~ (i + 1 <= n)
      BY <1>3, <2>2
    <3>2. f[i] = h[j] /\ f[i + 1] = h[j + 1]
      BY <3>1
    <3>3. (r \o s)[i] = s[j]
      BY <1>3, <2>2
    <3>4. StepOK(t, h[j], s[j], h[j + 1])
      BY <1>2, <3>1 DEF Leads
    <3> HIDE DEF f, j
    <3> QED BY <3>2, <3>3, <3>4
  <2> QED BY <2>1, <2>2
<1> HIDE DEF f
<1> QED BY <1>3, <1>4, <1>5, <1>7 DEF Runs, Leads

\* What is left after the first step.
LEMMA RunsTail ==
  ASSUME NEW t, NEW T, NEW s \in Seq(T), s # <<>>, NEW A, NEW B, Runs(t, A, s, B)
  PROVE  \E C : StepOK(t, A, Head(s), C) /\ Runs(t, C, Tail(s), B)
<1>1. PICK h : h[1] = A /\ h[Len(s) + 1] = B /\ Leads(t, h, s)
  BY DEF Runs
<1> DEFINE n == Len(s)
           g == [i \in 1..n |-> h[i + 1]]
<1>2. n \in Nat \ {0} /\ Len(Tail(s)) = n - 1 /\ Head(s) = s[1]
  OBVIOUS
<1>3. StepOK(t, A, Head(s), h[2])
  BY <1>1, <1>2 DEF Leads
<1>4. g[1] = h[2] /\ g[n] = B
  BY <1>1, <1>2
<1>5. ASSUME NEW i \in 1..n - 1 PROVE StepOK(t, g[i], Tail(s)[i], g[i + 1])
  <2>1. i + 1 \in 1..n /\ i \in 1..n
    BY <1>2
  <2>2. Tail(s)[i] = s[i + 1] /\ g[i] = h[i + 1] /\ g[i + 1] = h[i + 1 + 1]
    BY <1>2, <2>1
  <2>3. StepOK(t, h[i + 1], s[i + 1], h[i + 1 + 1])
    BY <1>1, <2>1 DEF Leads
  <2> HIDE DEF g
  <2> QED BY <2>2, <2>3
<1>6. Len(Tail(s)) + 1 = n
  BY <1>2
<1> HIDE DEF g, n
<1>7. Runs(t, h[2], Tail(s), B)
  BY <1>2, <1>4, <1>5, <1>6 DEF Runs, Leads
<1> QED BY <1>3, <1>7

-----------------------------------------------------------------------------
(* Blocks.                                                                 *)

LEMMA StepTypes ==
  /\ \A l \in Mutex : Lock(l) \in LockStep /\ Unlock(l) \in LockStep
  /\ PluginCode \in LockStep
BY DEF Lock, Unlock, LockStep

LEMMA WithinType ==
  ASSUME NEW l \in Mutex, NEW body \in Seq(LockStep)
  PROVE  Within(l, body) \in Seq(LockStep)
<1>1. <<Lock(l)>> \in Seq(LockStep) /\ <<Unlock(l)>> \in Seq(LockStep)
  BY StepTypes
<1>2. <<Lock(l)>> \o body \in Seq(LockStep)
  BY <1>1
<1> QED BY <1>1, <1>2 DEF Within

\* A block that holds l.  If l is held already the thread waits for itself.
LEMMA RunsWithin ==
  ASSUME NEW t, NEW A \in SUBSET Mutex, NEW l \in Mutex, NEW body \in Seq(LockStep),
         MayLock(t, A, l), l \notin A => Runs(t, A \cup {l}, body, A \cup {l})
  PROVE  Runs(t, A, Within(l, body), A)
<1> DEFINE B == IF l \in A THEN Stuck ELSE A \cup {l}
<1>1. Runs(t, A, <<Lock(l)>>, B)
  <2>1. StepOK(t, A, Lock(l), B)
    BY DEF StepOK
  <2> QED BY <2>1, RunsOne
<1>2. Runs(t, B, body, B)
  <2>1. CASE l \in A
    <3> DEFINE h == [i \in 1..Len(body) + 1 |-> Stuck]
    <3>1. Len(body) \in Nat
      OBVIOUS
    <3>2. h[1] = Stuck /\ h[Len(body) + 1] = Stuck
      BY <3>1
    <3>3. Leads(t, h, body)
      BY <3>1 DEF Leads, StepOK
    <3> HIDE DEF h
    <3> QED BY <2>1, <3>2, <3>3 DEF Runs
  <2>2. CASE l \notin A
    BY <2>2
  <2> QED BY <2>1, <2>2
<1>3. Runs(t, B, <<Unlock(l)>>, A)
  <2>1. StepOK(t, B, Unlock(l), A)
    <3>1. CASE l \in A
      BY <3>1 DEF StepOK
    <3>2. CASE l \notin A
      <4>1. (A \cup {l}) \ {l} = A
        BY <3>2
      <4> QED BY <3>2, <4>1 DEF StepOK
    <3> QED BY <3>1, <3>2
  <2> QED BY <2>1, RunsOne
<1> HIDE DEF B
<1>4. <<Lock(l)>> \in Seq(LockStep) /\ <<Unlock(l)>> \in Seq(LockStep)
  BY StepTypes
<1>5. <<Lock(l)>> \o body \in Seq(LockStep)
  BY <1>4
<1>6. Runs(t, A, <<Lock(l)>> \o body, B)
  BY <1>1, <1>2, <1>4, RunsBoth
<1>7. Runs(t, A, (<<Lock(l)>> \o body) \o <<Unlock(l)>>, A)
  BY <1>3, <1>4, <1>5, <1>6, RunsBoth
<1> QED BY <1>7 DEF Within

LEMMA RunsBriefly ==
  ASSUME NEW t, NEW A \in SUBSET Mutex, NEW l \in Mutex, MayLock(t, A, l)
  PROVE  Briefly(l) \in Seq(LockStep) /\ Runs(t, A, Briefly(l), A)
<1>1. <<>> \in Seq(LockStep)
  OBVIOUS
<1> QED BY <1>1, RunsNothing, RunsWithin, WithinType DEF Briefly

\* The places of a sequence of locks and unlocks.
LEMMA Halves ==
  ASSUME NEW n \in Nat, NEW i \in 1..2 * n
  PROVE  \/ Odd(i) /\ (i + 1) \div 2 \in 1..n /\ ~Odd(i + 1)
         \/ ~Odd(i) /\ i \div 2 \in 1..n /\ Odd(i + 1)
BY DEF Odd

LEMMA RunsEachBriefly ==
  ASSUME NEW t, NEW A \in SUBSET Mutex, NEW ls \in Seq(Mutex),
         \A i \in 1..Len(ls) : MayLock(t, A, ls[i])
  PROVE  EachBriefly(ls) \in Seq(LockStep) /\ Runs(t, A, EachBriefly(ls), A)
<1> DEFINE n == Len(ls)
           s == EachBriefly(ls)
           h == [i \in 1..2 * n + 1 |->
                   IF Odd(i) THEN A
                   ELSE IF ls[i \div 2] \in A THEN Stuck ELSE A \cup {ls[i \div 2]}]
<1>1. n \in Nat /\ 2 * n \in Nat /\ \A i \in 1..n : ls[i] \in Mutex
  OBVIOUS
<1>2. s \in Seq(LockStep) /\ Len(s) = 2 * n
  <2>1. \A i \in 1..2 * n :
          (IF Odd(i) THEN Lock(ls[(i + 1) \div 2]) ELSE Unlock(ls[i \div 2])) \in LockStep
    BY <1>1, Halves, StepTypes
  <2>2. s \in [1..2 * n -> LockStep]
    BY <2>1 DEF EachBriefly
  <2> HIDE DEF n, s
  <2> QED BY <1>1, <2>2
<1>3. h[1] = A /\ h[2 * n + 1] = A
  BY <1>1 DEF Odd
<1>4. ASSUME NEW i \in 1..2 * n PROVE StepOK(t, h[i], s[i], h[i + 1])
  <2>1. i \in 1..2 * n + 1 /\ i + 1 \in 1..2 * n + 1
    BY <1>1
  <2>2. CASE Odd(i)
    <3> DEFINE l == ls[(i + 1) \div 2]
    <3>1. (i + 1) \div 2 \in 1..n /\ ~Odd(i + 1)
      BY <1>1, <2>2, Halves
    <3>2. l \in Mutex /\ MayLock(t, A, l)
      BY <1>1, <3>1
    <3>3. s[i] = Lock(l)
      BY <2>2 DEF EachBriefly
    <3>4. h[i] = A
      BY <2>1, <2>2
    <3>5. h[i + 1] = IF l \in A THEN Stuck ELSE A \cup {l}
      BY <2>1, <3>1
    <3> HIDE DEF h, s, l
    <3> QED BY <3>2, <3>3, <3>4, <3>5 DEF StepOK
  <2>3. CASE ~Odd(i)
    <3> DEFINE l == ls[i \div 2]
    <3>1. i \div 2 \in 1..n /\ Odd(i + 1)
      BY <1>1, <2>3, Halves
    <3>3. s[i] = Unlock(l)
      BY <2>3 DEF EachBriefly
    <3>4. h[i] = IF l \in A THEN Stuck ELSE A \cup {l}
      BY <2>1, <2>3
    <3>5. h[i + 1] = A
      BY <2>1, <3>1
    <3> HIDE DEF h, s, l
    <3>6. CASE l \in A
      BY <3>4, <3>6 DEF StepOK
    <3>7. CASE l \notin A
      <4>1. (A \cup {l}) \ {l} = A
        BY <3>7
      <4> QED BY <3>3, <3>4, <3>5, <3>7, <4>1 DEF StepOK
    <3> QED BY <3>6, <3>7
  <2> QED BY <2>2, <2>3
<1> HIDE DEF h, s, n
<1>5. Runs(t, A, s, A)
  BY <1>2, <1>3, <1>4 DEF Runs, Leads
<1> QED BY <1>2, <1>5 DEF s

\* Many mutexes, taken one after another and dropped in the same order.
Some(ls, i) == {ls[j] : j \in {k \in DOMAIN ls : k < i}}
More(ls, i) == {ls[j] : j \in {k \in DOMAIN ls : k >= i}}

LEMMA RunsAllHeld ==
  ASSUME NEW t, NEW A \in SUBSET Mutex, NEW ls \in Seq(Mutex), NEW body \in Seq(LockStep),
         IsInjective(ls), Range(ls) \cap A = {},
         \A i \in 1..Len(ls) : MayLock(t, A \cup Some(ls, i), ls[i]),
         Runs(t, A \cup Range(ls), body, A \cup Range(ls))
  PROVE  AllHeld(ls, body) \in Seq(LockStep) /\ Runs(t, A, AllHeld(ls, body), A)
<1> DEFINE n == Len(ls)
           B == A \cup Range(ls)
<1>1. n \in Nat /\ DOMAIN ls = 1..n /\ \A i \in 1..n : ls[i] \in Mutex
  OBVIOUS
<1>2. LockAll(ls) \in Seq(LockStep) /\ Len(LockAll(ls)) = n
      /\ UnlockAll(ls) \in Seq(LockStep) /\ Len(UnlockAll(ls)) = n
  <2>1. LockAll(ls) \in [1..n -> LockStep] /\ UnlockAll(ls) \in [1..n -> LockStep]
    BY <1>1, StepTypes DEF LockAll, UnlockAll
  <2> HIDE DEF n
  <2> QED BY <1>1, <2>1
<1>3. Runs(t, A, LockAll(ls), B)
  <2> DEFINE h == [i \in 1..n + 1 |-> A \cup Some(ls, i)]
  <2>1. h[1] = A
    BY <1>1 DEF Some
  <2>2. h[n + 1] = B
    BY <1>1 DEF Some, Range
  <2>3. ASSUME NEW i \in 1..n PROVE StepOK(t, h[i], LockAll(ls)[i], h[i + 1])
    <3>1. ls[i] \in Mutex /\ LockAll(ls)[i] = Lock(ls[i])
      BY <1>1 DEF LockAll
    <3>2. ls[i] \notin h[i]
      BY <1>1 DEF Some, IsInjective, Range
    <3>3. h[i + 1] = h[i] \cup {ls[i]}
      <4>1. \A k \in 1..n : k < i + 1 <=> k < i \/ k = i
        BY <1>1
      <4>2. Some(ls, i + 1) = Some(ls, i) \cup {ls[i]}
        BY <1>1, <4>1 DEF Some
      <4> QED BY <1>1, <4>2
    <3>4. MayLock(t, h[i], ls[i])
      BY <1>1
    <3> HIDE DEF h
    <3> QED BY <3>1, <3>2, <3>3, <3>4 DEF StepOK
  <2> HIDE DEF h, n, B
  <2> QED BY <1>2, <2>1, <2>2, <2>3 DEF Runs, Leads
<1>4. Runs(t, B, UnlockAll(ls), A)
  <2> DEFINE h == [i \in 1..n + 1 |-> A \cup More(ls, i)]
  <2>1. h[1] = B
    BY <1>1 DEF More, Range
  <2>2. h[n + 1] = A
    BY <1>1 DEF More
  <2>3. ASSUME NEW i \in 1..n PROVE StepOK(t, h[i], UnlockAll(ls)[i], h[i + 1])
    <3>1. ls[i] \in Mutex /\ UnlockAll(ls)[i] = Unlock(ls[i])
      BY <1>1 DEF UnlockAll
    <3>2. ls[i] \in h[i]
      BY <1>1 DEF More
    <3>3. h[i + 1] = h[i] \ {ls[i]}
      <4>1. \A k \in 1..n : k >= i <=> k >= i + 1 \/ k = i
        BY <1>1
      <4>2. ls[i] \notin A /\ \A k \in 1..n : k >= i + 1 => ls[k] # ls[i]
        BY <1>1 DEF IsInjective, Range
      <4>3. More(ls, i) \ {ls[i]} = More(ls, i + 1)
        BY <1>1, <4>1, <4>2 DEF More
      <4> QED BY <1>1, <4>2, <4>3
    <3> HIDE DEF h
    <3> QED BY <3>1, <3>2, <3>3 DEF StepOK
  <2> HIDE DEF h, n, B
  <2> QED BY <1>2, <2>1, <2>2, <2>3 DEF Runs, Leads
<1> HIDE DEF n, B
<1>5. LockAll(ls) \o body \in Seq(LockStep) /\ Runs(t, A, LockAll(ls) \o body, B)
  BY <1>2, <1>3, RunsBoth DEF B
<1>6. Runs(t, A, (LockAll(ls) \o body) \o UnlockAll(ls), A)
  BY <1>2, <1>4, <1>5, RunsBoth
<1> QED BY <1>2, <1>5, <1>6 DEF AllHeld

-----------------------------------------------------------------------------
(* What plugins call.                                                      *)

\* A whole operation: it ends with the mutexes it began with.
Does(t, A, s) == s \in Seq(LockStep) /\ Runs(t, A, s, A)

LEMMA DoesBoth ==
  ASSUME NEW t, NEW A, NEW r, NEW s, Does(t, A, r), Does(t, A, s)
  PROVE  Does(t, A, r \o s)
BY RunsBoth DEF Does

LEMMA DoesWithin ==
  ASSUME NEW t, NEW A \in SUBSET Mutex, NEW l \in Mutex, NEW body \in Seq(LockStep),
         MayLock(t, A, l), l \notin A => Does(t, A \cup {l}, body)
  PROVE  Does(t, A, Within(l, body))
BY RunsWithin, WithinType DEF Does

LEMMA DoesBriefly ==
  ASSUME NEW t, NEW A \in SUBSET Mutex, NEW l \in Mutex, MayLock(t, A, l)
  PROVE  Does(t, A, Briefly(l))
BY RunsBriefly DEF Does

LEMMA DoesEachBriefly ==
  ASSUME NEW t, NEW A \in SUBSET Mutex, NEW ls \in Seq(Mutex),
         \A i \in 1..Len(ls) : MayLock(t, A, ls[i])
  PROVE  Does(t, A, EachBriefly(ls))
BY RunsEachBriefly DEF Does

\* The mutexes by their names.
LEMMA Names ==
  /\ ScriptMutex \subseteq Mutex /\ StatusMutex \subseteq Mutex /\ PluginHeld \subseteq Mutex
  /\ HandlerOnly \subseteq Mutex
  /\ {LOADED_ACMD_AGENTS, LOADED_STATUS_AGENTS, FRAMES, SYMBOL_HOOKS, CUSTOM_EH_MEM} \subseteq Mutex
BY DEF ScriptMutex, CreateMutex, HandlerOnly, PluginHeld, Mutex, AcmdMutex

LEMMA NoHandlers ==
  /\ ScriptMutex \cap HandlerOnly = {} /\ StatusMutex \cap HandlerOnly = {}
  /\ PluginHeld \cap HandlerOnly = {}
  /\ {LOADED_ACMD_AGENTS, LOADED_STATUS_AGENTS, FRAMES, SYMBOL_HOOKS, CUSTOM_EH_MEM}
     \cap HandlerOnly = {}
<1>1. \A l \in HandlerOnly : l[1] \in {"CREATE_AGENTS", "STATUS_CREATE_AGENTS", "STATUS_VTABLES"}
  BY DEF HandlerOnly, CreateMutex, CREATE_AGENTS, STATUS_CREATE_AGENTS, STATUS_VTABLES
<1>2. \A l \in ScriptMutex : l[1] = "SCRIPTS"
  BY DEF ScriptMutex, SCRIPTS
<1>3. \A l \in PluginHeld : l[1] \in {"CALLBACKS", "LOADED_DEVELOPMENT_PLUGIN"}
  BY DEF PluginHeld, ListMutex, CALLBACKS, LOADED_DEVELOPMENT_PLUGIN
<1>4. \A l \in StatusMutex :
        l[1] \in {"STATUS_SCRIPTS", "COMMON_STATUS_SCRIPTS", "STATUS_CUSTOMIZERS"}
  BY DEF StatusMutex, STATUS_SCRIPTS, COMMON_STATUS_SCRIPTS, STATUS_CUSTOMIZERS
<1>5. \A l \in {LOADED_ACMD_AGENTS, LOADED_STATUS_AGENTS, FRAMES, SYMBOL_HOOKS, CUSTOM_EH_MEM} :
        l[1] \in {"LOADED_ACMD_AGENTS", "LOADED_STATUS_AGENTS", "FRAMES", "SYMBOL_HOOKS",
                  "CUSTOM_EH_MEM"}
  BY DEF LOADED_ACMD_AGENTS, LOADED_STATUS_AGENTS, FRAMES, SYMBOL_HOOKS, CUSTOM_EH_MEM
<1> QED BY <1>1, <1>2, <1>3, <1>4, <1>5

\* The rows of mutexes.
LEMMA Rows ==
  /\ AllScripts \in Seq(Mutex) /\ IsInjective(AllScripts) /\ Range(AllScripts) = ScriptMutex
  /\ AllCallbacks \in Seq(Mutex) /\ Range(AllCallbacks) = ListMutex
<1> DEFINE n == Len(Categories)
<1>1. n \in Nat /\ Categories \in [1..n -> Category] /\ DOMAIN Categories = 1..n
  BY LockAssumption
<1>2. \A c \in Category : SCRIPTS(c) \in Mutex
  BY DEF Mutex, AcmdMutex
<1>3. AllScripts \in [1..n -> Mutex]
  BY <1>1, <1>2 DEF AllScripts
<1>4. AllScripts \in Seq(Mutex)
  BY <1>1, <1>3
<1>5. \A c, d : SCRIPTS(c) = SCRIPTS(d) => c = d
  BY DEF SCRIPTS
<1>6. IsInjective(AllScripts)
  BY <1>1, <1>5, LockAssumption DEF IsInjective, AllScripts
<1>7. Range(AllScripts) = ScriptMutex
  BY <1>1 DEF Range, AllScripts, ScriptMutex, Category
<1> DEFINE m == Len(Lists)
<1>8. m \in Nat /\ Lists \in [1..m -> List] /\ DOMAIN Lists = 1..m
  BY LockAssumption
<1>9. \A l \in List : CALLBACKS(l) \in Mutex
  BY DEF Mutex, ListMutex
<1>10. AllCallbacks \in [1..m -> Mutex]
  BY <1>8, <1>9 DEF AllCallbacks
<1>11. AllCallbacks \in Seq(Mutex)
  BY <1>8, <1>10
<1>12. Range(AllCallbacks) = ListMutex
  BY <1>8 DEF Range, AllCallbacks, ListMutex, List
<1> QED BY <1>4, <1>6, <1>7, <1>11, <1>12

\* What a plugin has called locks and unlocks, with A held outside of it.
PluginSide(t, A) == A \subseteq PluginHeld /\ PluginRuns(t, A)

LEMMA PluginMay ==
  ASSUME NEW t, NEW A, PluginSide(t, A), NEW l \in Mutex \ HandlerOnly
  PROVE  MayLock(t, A, l)
BY DEF PluginSide, MayLock, PluginOrder

LEMMA PluginMayNext ==
  ASSUME NEW t, NEW A, PluginRuns(t, A), NEW l, MayLock(t, A, l),
         NEW m, <<m, l>> \in PluginOrder
  PROVE  MayLock(t, A \cup {m}, l) /\ PluginRuns(t, A \cup {m})
BY DEF PluginRuns, MayLock

LEMMA PluginBriefly ==
  ASSUME NEW t, NEW A, PluginSide(t, A), NEW l \in Mutex \ HandlerOnly
  PROVE  Does(t, A, Briefly(l))
<1>1. A \in SUBSET Mutex
  BY Names DEF PluginSide
<1> QED BY <1>1, PluginMay, DoesBriefly

\* A request for status scripts looks for live agents with its registry locked.
LEMMA PluginNested ==
  ASSUME NEW t, NEW A, PluginSide(t, A), NEW m \in Mutex \ HandlerOnly,
         NEW l \in Mutex \ HandlerOnly, <<m, l>> \in PluginOrder
  PROVE  Does(t, A, Within(m, Briefly(l)))
<1>1. A \in SUBSET Mutex /\ PluginRuns(t, A)
  BY Names DEF PluginSide
<1>2. MayLock(t, A, m) /\ MayLock(t, A, l)
  BY PluginMay
<1>3. MayLock(t, A \cup {m}, l)
  BY <1>1, <1>2, PluginMayNext
<1>4. Does(t, A \cup {m}, Briefly(l))
  BY <1>1, <1>3, DoesBriefly
<1>5. Briefly(l) \in Seq(LockStep)
  BY <1>4 DEF Does
<1> QED BY <1>1, <1>2, <1>4, <1>5, DoesWithin

LEMMA PluginExported ==
  ASSUME NEW t, NEW A, PluginSide(t, A), NEW f \in Exported
  PROVE  Does(t, A, f)
<1>1. ASSUME NEW c \in Category PROVE Does(t, A, ReplaceAcmdScript(c))
  <2>1. SCRIPTS(c) \in Mutex \ HandlerOnly /\ LOADED_ACMD_AGENTS \in Mutex \ HandlerOnly
        /\ CUSTOM_EH_MEM \in Mutex \ HandlerOnly
    BY Names, NoHandlers DEF ScriptMutex
  <2>2. Does(t, A, Briefly(CUSTOM_EH_MEM) \o Briefly(LOADED_ACMD_AGENTS))
    BY <2>1, PluginBriefly, DoesBoth
  <2> QED BY <2>1, <2>2, PluginBriefly, DoesBoth DEF ReplaceAcmdScript
<1>2. ASSUME NEW l \in List PROVE Does(t, A, AddCallback(l))
  <2>1. CALLBACKS(l) \in Mutex \ HandlerOnly
    BY Names, NoHandlers DEF PluginHeld, ListMutex
  <2> QED BY <2>1, PluginBriefly DEF AddCallback
<1>3. Does(t, A, ReplaceFrame) /\ Does(t, A, ReplaceSymbol)
  BY PluginBriefly, Names, NoHandlers DEF ReplaceFrame, ReplaceSymbol
<1>4. Does(t, A, ReplaceStatusScript) /\ Does(t, A, ReplaceCommonStatusScript)
      /\ Does(t, A, ReplaceMoveCustomizer)
  <2>1. \A m \in StatusMutex : m \in Mutex \ HandlerOnly
    BY Names, NoHandlers
  <2>2. LOADED_STATUS_AGENTS \in Mutex \ HandlerOnly
    BY Names, NoHandlers
  <2>3. \A m \in StatusMutex : <<m, LOADED_STATUS_AGENTS>> \in PluginOrder
    BY DEF PluginOrder
  <2>4. \A m \in StatusMutex : Does(t, A, Within(m, Briefly(LOADED_STATUS_AGENTS)))
    BY <2>1, <2>2, <2>3, PluginNested
  <2>5. STATUS_SCRIPTS \in StatusMutex /\ COMMON_STATUS_SCRIPTS \in StatusMutex
        /\ STATUS_CUSTOMIZERS \in StatusMutex
    BY DEF StatusMutex
  <2> QED BY <2>4, <2>5 DEF ReplaceStatusScript, ReplaceCommonStatusScript, ReplaceMoveCustomizer
<1> QED BY <1>1, <1>2, <1>3, <1>4 DEF Exported

-----------------------------------------------------------------------------
(* What the loader does.                                                   *)

LEMMA PluginCodeRuns ==
  ASSUME NEW t, NEW A, PluginSide(t, A)
  PROVE  Does(t, A, <<PluginCode>>)
<1>1. StepOK(t, A, PluginCode, A)
  BY DEF StepOK, PluginSide
<1>2. <<PluginCode>> \in Seq(LockStep)
  BY StepTypes
<1> QED BY <1>1, <1>2, RunsOne DEF Does

LEMMA CallbacksPurged ==
  ASSUME NEW t, NEW A, PluginSide(t, A)
  PROVE  Does(t, A, PurgeCallbacks)
<1>1. A \in SUBSET Mutex
  BY Names DEF PluginSide
<1>2. ASSUME NEW i \in 1..Len(AllCallbacks) PROVE MayLock(t, A, AllCallbacks[i])
  <2>1. AllCallbacks[i] \in ListMutex
    BY Rows DEF Range
  <2>2. AllCallbacks[i] \in Mutex \ HandlerOnly
    BY <2>1, Names, NoHandlers DEF PluginHeld
  <2> QED BY <2>2, PluginMay
<1> QED BY <1>1, <1>2, Rows, DoesEachBriefly DEF PurgeCallbacks

LEMMA AcmdScriptsRemoved ==
  ASSUME NEW t, NEW A, PluginSide(t, A)
  PROVE  Does(t, A, RemoveAcmdScripts)
<1> DEFINE n == Len(AllScripts)
<1>1. A \in SUBSET Mutex /\ PluginRuns(t, A) /\ n \in Nat /\ DOMAIN AllScripts = 1..n
  BY Names, Rows DEF PluginSide
<1>2. \A i \in 1..n : AllScripts[i] \in ScriptMutex
  BY <1>1, Rows DEF Range
<1>3. \A i \in 1..n : AllScripts[i] \in Mutex \ HandlerOnly /\ MayLock(t, A, AllScripts[i])
  BY <1>2, Names, NoHandlers, PluginMay
<1>4. LOADED_ACMD_AGENTS \in Mutex \ HandlerOnly
  BY Names, NoHandlers
<1>5. Does(t, A, Within(LOADED_ACMD_AGENTS, EachBriefly(AllScripts)))
  <2>1. ASSUME NEW i \in 1..n
        PROVE  MayLock(t, A \cup {LOADED_ACMD_AGENTS}, AllScripts[i])
    <3>1. <<LOADED_ACMD_AGENTS, AllScripts[i]>> \in PluginOrder
      BY <1>2 DEF PluginOrder
    <3> QED BY <1>1, <1>3, <3>1, PluginMayNext
  <2>2. Does(t, A \cup {LOADED_ACMD_AGENTS}, EachBriefly(AllScripts))
    BY <1>1, <1>4, <2>1, Rows, DoesEachBriefly
  <2>3. EachBriefly(AllScripts) \in Seq(LockStep) /\ MayLock(t, A, LOADED_ACMD_AGENTS)
    BY <1>4, <2>2, PluginMay DEF Does
  <2> QED BY <1>1, <1>4, <2>2, <2>3, DoesWithin
<1>6. Does(t, A, AllHeld(AllScripts, <<>>))
  <2>1. Range(AllScripts) \cap A = {}
    <3>1. \A l \in ScriptMutex : l[1] = "SCRIPTS"
      BY DEF ScriptMutex, SCRIPTS
    <3>2. \A l \in PluginHeld : l[1] \in {"CALLBACKS", "LOADED_DEVELOPMENT_PLUGIN"}
      BY DEF PluginHeld, ListMutex, CALLBACKS, LOADED_DEVELOPMENT_PLUGIN
    <3> QED BY <3>1, <3>2, Rows DEF PluginSide
  <2>2. ASSUME NEW i \in 1..n
        PROVE  MayLock(t, A \cup Some(AllScripts, i), AllScripts[i])
    <3>1. \A m \in Some(AllScripts, i) : <<m, AllScripts[i]>> \in Ordered(AllScripts)
      BY <1>1 DEF Some, Ordered, Range
    <3>2. \A m \in Some(AllScripts, i) : <<m, AllScripts[i]>> \in PluginOrder
      BY <3>1 DEF PluginOrder
    <3>3. PluginRuns(t, A \cup Some(AllScripts, i))
      BY <1>1 DEF PluginRuns
    <3> QED BY <1>3, <3>2, <3>3 DEF MayLock, PluginRuns
  <2>3. Runs(t, A \cup Range(AllScripts), <<>>, A \cup Range(AllScripts))
    BY RunsNothing
  <2>4. <<>> \in Seq(LockStep)
    OBVIOUS
  <2> QED BY <1>1, <2>1, <2>2, <2>3, <2>4, Rows, RunsAllHeld DEF Does
<1> QED BY <1>5, <1>6, DoesBoth DEF RemoveAcmdScripts

LEMMA StatusScriptsRemoved ==
  ASSUME NEW t, NEW A, PluginSide(t, A)
  PROVE  Does(t, A, RemoveStatusScripts)
<1>1. A \in SUBSET Mutex /\ PluginRuns(t, A)
  BY Names DEF PluginSide
<1>2. /\ STATUS_SCRIPTS \in StatusMutex /\ COMMON_STATUS_SCRIPTS \in StatusMutex
      /\ STATUS_CUSTOMIZERS \in StatusMutex
  BY DEF StatusMutex
<1>3. /\ STATUS_SCRIPTS \in Mutex \ HandlerOnly /\ COMMON_STATUS_SCRIPTS \in Mutex \ HandlerOnly
      /\ STATUS_CUSTOMIZERS \in Mutex \ HandlerOnly
      /\ LOADED_STATUS_AGENTS \in Mutex \ HandlerOnly
  BY <1>2, Names, NoHandlers
<1>4. <<STATUS_SCRIPTS, COMMON_STATUS_SCRIPTS>> \in PluginOrder
      /\ \A l \in StatusMutex : <<LOADED_STATUS_AGENTS, l>> \in PluginOrder
  BY DEF PluginOrder
<1>5. Does(t, A, Within(STATUS_SCRIPTS, Briefly(COMMON_STATUS_SCRIPTS)))
  BY <1>3, <1>4, PluginNested
<1>6. Does(t, A, RemoveLiveStatusWaza)
  BY <1>2, <1>3, <1>4, PluginNested DEF RemoveLiveStatusWaza
<1>7. Does(t, A, RemoveLiveStatusScripts)
  <2> DEFINE B == A \cup {LOADED_STATUS_AGENTS}
  <2>1. MayLock(t, A, LOADED_STATUS_AGENTS) /\ MayLock(t, A, STATUS_SCRIPTS)
        /\ MayLock(t, A, COMMON_STATUS_SCRIPTS)
    BY <1>3, PluginMay
  <2>2. B \in SUBSET Mutex /\ PluginRuns(t, B)
        /\ MayLock(t, B, STATUS_SCRIPTS) /\ MayLock(t, B, COMMON_STATUS_SCRIPTS)
    BY <1>1, <1>2, <1>3, <1>4, <2>1, PluginMayNext
  <2> HIDE DEF B
  <2>3. MayLock(t, B \cup {STATUS_SCRIPTS}, COMMON_STATUS_SCRIPTS)
    BY <1>4, <2>2, PluginMayNext
  <2>4. Does(t, B \cup {STATUS_SCRIPTS}, Briefly(COMMON_STATUS_SCRIPTS))
    <3>1. B \cup {STATUS_SCRIPTS} \in SUBSET Mutex
      BY <1>3, <2>2
    <3> QED BY <1>3, <2>3, <3>1, DoesBriefly
  <2>5. Briefly(COMMON_STATUS_SCRIPTS) \in Seq(LockStep)
    BY <2>4 DEF Does
  <2>6. Does(t, B, Within(STATUS_SCRIPTS, Briefly(COMMON_STATUS_SCRIPTS)))
    BY <1>3, <2>2, <2>4, <2>5, DoesWithin
  <2>7. Within(STATUS_SCRIPTS, Briefly(COMMON_STATUS_SCRIPTS)) \in Seq(LockStep)
    BY <2>6 DEF Does
  <2> QED BY <1>1, <1>3, <2>1, <2>6, <2>7, DoesWithin DEF B, RemoveLiveStatusScripts
<1>8. Does(t, A, RemoveLiveStatusScripts \o RemoveLiveStatusWaza)
  BY <1>6, <1>7, DoesBoth
<1> QED BY <1>5, <1>8, DoesBoth DEF RemoveStatusScripts

LEMMA PluginUninstalled ==
  ASSUME NEW t, NEW A, PluginSide(t, A)
  PROVE  Does(t, A, Uninstall)
<1>1. Does(t, A, <<PluginCode>> \o PurgeCallbacks)
  BY PluginCodeRuns, CallbacksPurged, DoesBoth
<1>2. Does(t, A, (<<PluginCode>> \o PurgeCallbacks) \o RemoveAcmdScripts)
  BY <1>1, AcmdScriptsRemoved, DoesBoth
<1>3. Does(t, A, ((<<PluginCode>> \o PurgeCallbacks) \o RemoveAcmdScripts)
                 \o RemoveStatusScripts)
  BY <1>2, StatusScriptsRemoved, DoesBoth
<1>4. Does(t, A, Briefly(CUSTOM_EH_MEM))
  BY PluginBriefly, Names, NoHandlers
<1> QED BY <1>3, <1>4, DoesBoth DEF Uninstall

LEMMA PluginLoading ==
  ASSUME NEW t, NEW A, PluginSide(t, A), NEW f \in Loading
  PROVE  Does(t, A, f)
<1> DEFINE B == A \cup {LOADED_DEVELOPMENT_PLUGIN}
<1>1. A \in SUBSET Mutex /\ LOADED_DEVELOPMENT_PLUGIN \in Mutex \ HandlerOnly
      /\ MayLock(t, A, LOADED_DEVELOPMENT_PLUGIN)
  BY Names, NoHandlers, PluginMay DEF PluginSide, PluginHeld
<1>2. PluginSide(t, B)
  BY DEF PluginSide, PluginRuns, PluginHeld
<1> HIDE DEF B
<1>3. Does(t, B, <<PluginCode>>)
  BY <1>2, PluginCodeRuns
<1>4. Does(t, B, Uninstall \o <<PluginCode>>)
  BY <1>2, <1>3, PluginUninstalled, DoesBoth
<1>5. <<PluginCode>> \in Seq(LockStep) /\ Uninstall \o <<PluginCode>> \in Seq(LockStep)
  BY <1>3, <1>4 DEF Does
<1>6. Does(t, A, FirstLoad) /\ Does(t, A, Reload)
  BY <1>1, <1>3, <1>4, <1>5, DoesWithin DEF B, FirstLoad, Reload
<1> QED BY <1>6 DEF Loading

\* Whatever a plugin calls, wherever it is called from.
LEMMA PluginCalls ==
  ASSUME NEW t, NEW A, PluginSide(t, A), NEW f \in Callable
  PROVE  Does(t, A, f)
<1>1. Does(t, A, <<>>)
  <2>1. <<>> \in Seq(LockStep)
    OBVIOUS
  <2> QED BY <2>1, RunsNothing DEF Does
<1> QED BY <1>1, PluginExported, PluginLoading DEF Callable

-----------------------------------------------------------------------------
(* What the game calls.                                                    *)

\* All the lists of create functions, each once.
LEMMA CreateRow ==
  /\ AllCreateAgents \in Seq(Mutex) /\ IsInjective(AllCreateAgents)
  /\ Range(AllCreateAgents) = CreateMutex /\ CreateMutex \subseteq Mutex
<1> DEFINE n == Len(Categories)
           At(i) == Categories[(i + 1) \div 2]
           Kind(i) == IF Odd(i) THEN "own" ELSE "share"
<1>1. n \in Nat /\ 2 * n \in Nat /\ Categories \in [1..n -> Category]
      /\ DOMAIN Categories = 1..n
  BY LockAssumption
<1>2. ASSUME NEW i \in 1..2 * n
      PROVE  /\ (i + 1) \div 2 \in 1..n /\ At(i) \in Category /\ Kind(i) \in {"own", "share"}
             /\ AllCreateAgents[i] = CREATE_AGENTS(At(i), Kind(i))
  <2>1. (i + 1) \div 2 \in 1..n
    BY <1>1
  <2> QED BY <1>1, <2>1 DEF AllCreateAgents
<1>3. CreateMutex \subseteq Mutex
  BY DEF CreateMutex, Mutex, AcmdMutex
<1>4. DOMAIN AllCreateAgents = 1..2 * n
  BY DEF AllCreateAgents
<1>5. AllCreateAgents \in Seq(Mutex)
  <2>1. \A i \in 1..2 * n : CREATE_AGENTS(At(i), Kind(i)) \in Mutex
    BY <1>2, <1>3 DEF CreateMutex
  <2>2. AllCreateAgents \in [1..2 * n -> Mutex]
    BY <2>1 DEF AllCreateAgents
  <2> HIDE DEF n
  <2> QED BY <1>1, <2>2
<1>6. IsInjective(AllCreateAgents)
  <2> SUFFICES ASSUME NEW i \in 1..2 * n, NEW j \in 1..2 * n,
                      AllCreateAgents[i] = AllCreateAgents[j]
               PROVE  i = j
    BY <1>4 DEF IsInjective
  <2>1. At(i) = At(j) /\ Kind(i) = Kind(j)
    BY <1>2 DEF CREATE_AGENTS
  <2>2. (i + 1) \div 2 = (j + 1) \div 2
    BY <1>1, <1>2, <2>1, LockAssumption DEF IsInjective
  <2>3. Odd(i) <=> Odd(j)
    BY <2>1
  <2> HIDE DEF At, Kind
  <2> QED BY <1>1, <2>2, <2>3 DEF Odd
<1>7. Range(AllCreateAgents) = CreateMutex
  <2>1. Range(AllCreateAgents) \subseteq CreateMutex
    BY <1>2, <1>4 DEF Range, CreateMutex
  <2>2. ASSUME NEW c \in Category, NEW s \in {"own", "share"}
        PROVE  CREATE_AGENTS(c, s) \in Range(AllCreateAgents)
    <3>1. PICK k \in 1..n : Categories[k] = c
      BY <1>1 DEF Category, Range
    <3> DEFINE i == IF s = "own" THEN 2 * k - 1 ELSE 2 * k
    <3>2. i \in 1..2 * n /\ (i + 1) \div 2 = k /\ (Odd(i) <=> s = "own")
      BY <1>1 DEF Odd
    <3>3. At(i) = c /\ Kind(i) = s
      BY <3>1, <3>2
    <3> HIDE DEF i, At, Kind
    <3>4. AllCreateAgents[i] = CREATE_AGENTS(c, s)
      BY <1>2, <3>2, <3>3
    <3> QED BY <1>4, <3>2, <3>4 DEF Range
  <2> QED BY <2>1, <2>2 DEF CreateMutex
<1> QED BY <1>3, <1>5, <1>6, <1>7

LEMMA GameMay ==
  ASSUME NEW t, NEW A, NEW l, \A m \in A : <<m, l>> \in GameOrder
  PROVE  MayLock(t, A, l)
BY DEF MayLock

\* One mutex after another, nothing else being held.
LEMMA GameBriefly ==
  ASSUME NEW t, NEW l \in Mutex PROVE Does(t, {}, Briefly(l))
<1>1. MayLock(t, {}, l) /\ {} \in SUBSET Mutex
  BY DEF MayLock
<1> QED BY <1>1, DoesBriefly

LEMMA GameWithin ==
  ASSUME NEW t, NEW l \in Mutex, NEW body, Does(t, {l}, body)
  PROVE  Does(t, {}, Within(l, body))
<1>1. MayLock(t, {}, l) /\ {} \in SUBSET Mutex /\ {} \cup {l} = {l}
  BY DEF MayLock
<1>2. body \in Seq(LockStep)
  BY DEF Does
<1> QED BY <1>1, <1>2, DoesWithin

LEMMA GameNested ==
  ASSUME NEW t, NEW m \in Mutex, NEW l \in Mutex, <<m, l>> \in GameOrder
  PROVE  Does(t, {m}, Briefly(l))
<1>1. MayLock(t, {m}, l) /\ {m} \in SUBSET Mutex
  BY GameMay
<1> QED BY <1>1, DoesBriefly

LEMMA AcmdAgentCreated ==
  ASSUME NEW t, NEW c \in Category, NEW s \in {"own", "share"}
  PROVE  Does(t, {}, CreateAcmdAgent(c, s))
<1> DEFINE m == CREATE_AGENTS(c, s)
<1>1. m \in CreateMutex /\ SCRIPTS(c) \in ScriptMutex
  BY DEF CreateMutex, ScriptMutex
<1>2. m \in Mutex /\ SCRIPTS(c) \in Mutex /\ LOADED_ACMD_AGENTS \in Mutex
  BY <1>1, Names, CreateRow
<1>3. <<m, LOADED_ACMD_AGENTS>> \in GameOrder /\ <<m, SCRIPTS(c)>> \in GameOrder
  BY <1>1 DEF GameOrder
<1> HIDE DEF m
<1>4. Does(t, {m}, Briefly(LOADED_ACMD_AGENTS) \o Briefly(SCRIPTS(c)))
  BY <1>2, <1>3, GameNested, DoesBoth
<1> QED BY <1>2, <1>4, GameWithin DEF m, CreateAcmdAgent

LEMMA StatusAgentCreated == ASSUME NEW t PROVE Does(t, {}, CreateStatusAgent)
<1>1. STATUS_CREATE_AGENTS \in Mutex /\ STATUS_VTABLES \in Mutex
      /\ LOADED_STATUS_AGENTS \in Mutex
  BY Names DEF HandlerOnly
<1>2. /\ <<STATUS_CREATE_AGENTS, STATUS_VTABLES>> \in GameOrder
      /\ <<STATUS_CREATE_AGENTS, LOADED_STATUS_AGENTS>> \in GameOrder
      /\ <<STATUS_VTABLES, LOADED_STATUS_AGENTS>> \in GameOrder
  BY DEF GameOrder
<1> DEFINE A == {STATUS_CREATE_AGENTS}
           B == A \cup {STATUS_VTABLES}
<1>3. A \in SUBSET Mutex /\ B \in SUBSET Mutex
  BY <1>1
<1>4. MayLock(t, A, STATUS_VTABLES) /\ MayLock(t, B, LOADED_STATUS_AGENTS)
  BY <1>2, GameMay
<1> HIDE DEF A, B
<1>5. Does(t, B, Briefly(LOADED_STATUS_AGENTS))
  BY <1>1, <1>3, <1>4, DoesBriefly
<1>6. Briefly(LOADED_STATUS_AGENTS) \in Seq(LockStep)
  BY <1>5 DEF Does
<1>7. Does(t, A, Within(STATUS_VTABLES, Briefly(LOADED_STATUS_AGENTS)))
  BY <1>1, <1>3, <1>4, <1>5, <1>6, DoesWithin DEF B
<1> QED BY <1>1, <1>7, GameWithin DEF A, CreateStatusAgent

LEMMA CallbacksRun ==
  ASSUME NEW t, NEW l \in List PROVE Does(t, {}, RunCallbacks(l))
<1>1. CALLBACKS(l) \in Mutex
  BY DEF Mutex, ListMutex
<1>2. PluginSide(t, {CALLBACKS(l)})
  BY DEF PluginSide, PluginRuns, PluginHeld, ListMutex
<1> QED BY <1>1, <1>2, PluginCodeRuns, GameWithin DEF RunCallbacks

LEMMA CommonLoaded == ASSUME NEW t PROVE Does(t, {}, LoadCommon)
<1>1. SYMBOL_HOOKS \in Mutex /\ STATUS_SCRIPTS \in Mutex /\ COMMON_STATUS_SCRIPTS \in Mutex
  BY Names DEF StatusMutex
<1>2. <<STATUS_SCRIPTS, COMMON_STATUS_SCRIPTS>> \in GameOrder
  BY DEF GameOrder
<1>3. Does(t, {}, Within(STATUS_SCRIPTS, Briefly(COMMON_STATUS_SCRIPTS)))
  BY <1>1, <1>2, GameNested, GameWithin
<1> QED BY <1>1, <1>3, GameBriefly, DoesBoth DEF LoadCommon

LEMMA FighterLoaded == ASSUME NEW t PROVE Does(t, {}, LoadFighter)
<1>1. SYMBOL_HOOKS \in Mutex /\ STATUS_CREATE_AGENTS \in Mutex
  BY Names DEF HandlerOnly
<1>2. Does(t, {}, EachBriefly(AllCreateAgents))
  <2>1. \A i \in 1..Len(AllCreateAgents) : MayLock(t, {}, AllCreateAgents[i])
    BY DEF MayLock
  <2>2. {} \in SUBSET Mutex
    OBVIOUS
  <2> QED BY <2>1, <2>2, CreateRow, DoesEachBriefly
<1>3. Does(t, {}, Briefly(SYMBOL_HOOKS) \o EachBriefly(AllCreateAgents))
  BY <1>1, <1>2, GameBriefly, DoesBoth
<1> QED BY <1>1, <1>3, GameBriefly, DoesBoth DEF LoadFighter

LEMMA ModuleUnloaded == ASSUME NEW t PROVE Does(t, {}, Unload)
<1> DEFINE n == Len(AllCreateAgents)
           A == CreateMutex
           B == A \cup {LOADED_ACMD_AGENTS}
<1>1. n \in Nat /\ DOMAIN AllCreateAgents = 1..n /\ A \in SUBSET Mutex
  BY CreateRow
<1>2. LOADED_ACMD_AGENTS \in Mutex /\ LOADED_STATUS_AGENTS \in Mutex
      /\ SYMBOL_HOOKS \in Mutex /\ STATUS_VTABLES \in Mutex
  BY Names DEF HandlerOnly
<1>3. MayLock(t, A, LOADED_ACMD_AGENTS) /\ MayLock(t, B, LOADED_STATUS_AGENTS)
  <2>1. \A m \in A : <<m, LOADED_ACMD_AGENTS>> \in GameOrder
                     /\ <<m, LOADED_STATUS_AGENTS>> \in GameOrder
    BY DEF GameOrder
  <2>2. <<LOADED_ACMD_AGENTS, LOADED_STATUS_AGENTS>> \in GameOrder
    BY DEF GameOrder
  <2> HIDE DEF A
  <2>3. \A m \in B : <<m, LOADED_STATUS_AGENTS>> \in GameOrder
    BY <2>1, <2>2
  <2> QED BY <2>1, <2>3, GameMay
<1>4. Does(t, A, ForgetAgents)
  <2>1. B \in SUBSET Mutex
    BY <1>1, <1>2
  <2>2. Does(t, B, Briefly(LOADED_STATUS_AGENTS))
    BY <1>2, <1>3, <2>1, DoesBriefly
  <2>3. Briefly(LOADED_STATUS_AGENTS) \in Seq(LockStep)
    BY <2>2 DEF Does
  <2> HIDE DEF A
  <2> QED BY <1>1, <1>2, <1>3, <2>2, <2>3, DoesWithin DEF ForgetAgents
<1>5. Does(t, {}, AllHeld(AllCreateAgents, ForgetAgents))
  <2>1. \A i \in 1..n : MayLock(t, {} \cup Some(AllCreateAgents, i), AllCreateAgents[i])
    <3> SUFFICES ASSUME NEW i \in 1..n
                 PROVE  MayLock(t, Some(AllCreateAgents, i), AllCreateAgents[i])
      OBVIOUS
    <3>1. \A m \in Some(AllCreateAgents, i) :
            <<m, AllCreateAgents[i]>> \in Ordered(AllCreateAgents)
      BY <1>1 DEF Some, Ordered, Range
    <3>2. \A m \in Some(AllCreateAgents, i) : <<m, AllCreateAgents[i]>> \in GameOrder
      BY <3>1 DEF GameOrder
    <3> QED BY <3>2, GameMay
  <2>2. {} \cup Range(AllCreateAgents) = A /\ Range(AllCreateAgents) \cap {} = {}
        /\ {} \in SUBSET Mutex
    BY CreateRow
  <2>3. ForgetAgents \in Seq(LockStep)
        /\ Runs(t, {} \cup Range(AllCreateAgents), ForgetAgents, {} \cup Range(AllCreateAgents))
    BY <1>4, <2>2 DEF Does
  <2> QED BY <2>1, <2>2, <2>3, CreateRow, RunsAllHeld DEF Does
<1>6. Does(t, {}, AllHeld(AllCreateAgents, ForgetAgents) \o Briefly(SYMBOL_HOOKS))
  BY <1>2, <1>5, GameBriefly, DoesBoth
<1> QED BY <1>2, <1>6, GameBriefly, DoesBoth DEF Unload

LEMMA GameFunctions ==
  ASSUME NEW t, NEW f \in GameFunction PROVE Does(t, {}, f)
<1>1. Does(t, {}, SetStatusScripts)
  BY Names, GameBriefly, DoesBoth DEF SetStatusScripts, StatusMutex
<1>2. Does(t, {}, SetCommonTable) /\ Does(t, {}, BuildFrameChain)
  BY Names, GameBriefly DEF SetCommonTable, BuildFrameChain, StatusMutex
<1> QED
  BY <1>1, <1>2, AcmdAgentCreated, StatusAgentCreated, CallbacksRun, CommonLoaded,
     FighterLoaded, ModuleUnloaded
  DEF GameFunction

\* Whatever a thread may begin.
LEMMA AllWork ==
  ASSUME NEW t, NEW f \in Work(t) PROVE Does(t, {}, f)
<1>1. CASE t \in GameThread /\ f \in GameFunction
  BY <1>1, GameFunctions
<1>2. CASE t \in InputThread /\ f \in Loading
  <2>1. PluginSide(t, {})
    BY <1>2 DEF PluginSide, PluginRuns
  <2> QED BY <1>2, <2>1, PluginLoading
<1>3. CASE t \in PluginThread /\ f \in Exported
  <2>1. PluginSide(t, {})
    BY <1>3 DEF PluginSide, PluginRuns
  <2> QED BY <1>3, <2>1, PluginExported
<1> QED BY <1>1, <1>2, <1>3 DEF Work

-----------------------------------------------------------------------------
(* The invariant.                                                          *)

\* The next step of a thread is one that fits what it holds.
LEMMA Turn ==
  ASSUME LockInv, NEW t \in Thread, Busy(t)
  PROVE  /\ Held(t) \in SUBSET Mutex /\ Tail(rest[t]) \in Seq(LockStep)
         /\ \E C : /\ Runs(t, C, Tail(rest[t]), {})
                  /\ \/ \E l \in Mutex : /\ Next1(t) = Lock(l) /\ MayLock(t, Held(t), l)
                                         /\ l \notin Held(t) => C = Held(t) \cup {l}
                     \/ \E l \in Held(t) : Next1(t) = Unlock(l) /\ C = Held(t) \ {l}
                     \/ Next1(t) = PluginCode /\ PluginSide(t, Held(t)) /\ C = Held(t)
<1>1. Held(t) \in SUBSET Mutex /\ Held(t) # Stuck
  BY StuckIs DEF Held
<1>2. rest[t] \in Seq(LockStep) /\ rest[t] # <<>> /\ Runs(t, Held(t), rest[t], {})
  BY DEF LockInv, TypeOK, Busy
<1>3. PICK C : StepOK(t, Held(t), Head(rest[t]), C) /\ Runs(t, C, Tail(rest[t]), {})
  BY <1>2, RunsTail
<1>4. Tail(rest[t]) \in Seq(LockStep)
  BY <1>2
<1> QED BY <1>1, <1>3, <1>4 DEF StepOK, Next1, PluginSide

LEMMA LockInitial == Init => LockInv
<1> SUFFICES ASSUME Init PROVE LockInv
  OBVIOUS
<1>1. TypeOK
  BY DEF Init, TypeOK
<1>2. ASSUME NEW t \in Thread PROVE Held(t) = {} /\ rest[t] = <<>>
  BY LockAssumption DEF Init, Held
<1>3. \A t \in Thread : Runs(t, {}, <<>>, {})
  BY RunsNothing
<1> QED BY <1>1, <1>2, <1>3 DEF LockInv

\* Only the thread that takes a step has anything else to do or to hold after it.
LEMMA OthersKept ==
  ASSUME LockInv, NEW t \in Thread, NEW s \in Seq(LockStep),
         rest' = [rest EXCEPT ![t] = s], holder' \in [Mutex -> Thread \cup {Nobody}],
         \A u \in Thread \ {t} : Held(u)' = Held(u), Runs(t, Held(t)', s, {})
  PROVE  LockInv'
<1>1. TypeOK'
  BY DEF LockInv, TypeOK
<1>2. ASSUME NEW u \in Thread PROVE Runs(u, Held(u)', rest'[u], {})
  <2>1. CASE u = t
    BY <2>1 DEF LockInv, TypeOK
  <2>2. CASE u # t
    <3>1. rest'[u] = rest[u] /\ Held(u)' = Held(u)
      BY <2>2
    <3> QED BY <3>1 DEF LockInv
  <2> QED BY <2>1, <2>2
<1>3. \A u \in Thread : Runs(u, Held(u), rest[u], {})'
  BY <1>2 DEF Runs, Leads, StepOK, MayLock, PluginRuns
<1> QED BY <1>1, <1>3 DEF LockInv

LEMMA BeginStep == ASSUME LockInv, NEW t \in Thread, Begin(t) PROVE LockInv'
<1>1. PICK f \in Work(t) : rest' = [rest EXCEPT ![t] = f]
  BY DEF Begin
<1>2. \A u \in Thread : Held(u)' = Held(u)
  BY DEF Begin, Held
<1>3. Held(t) = {}
  <2>1. Runs(t, Held(t), <<>>, {})
    BY DEF LockInv, Begin, Busy
  <2> QED BY <2>1 DEF Runs
<1>4. Does(t, {}, f)
  BY <1>1, AllWork
<1>5. holder' \in [Mutex -> Thread \cup {Nobody}]
  BY DEF Begin, LockInv, TypeOK
<1>6. Runs(t, Held(t)', f, {}) /\ f \in Seq(LockStep)
  BY <1>2, <1>3, <1>4 DEF Does
<1> QED BY <1>1, <1>2, <1>5, <1>6, OthersKept

LEMMA AcquireStep == ASSUME LockInv, NEW t \in Thread, Acquire(t) PROVE LockInv'
<1>1. Busy(t) /\ Next1(t)[1] = "lock"
  BY DEF Acquire, Waits
<1>2. PICK l \in Mutex :
        /\ Next1(t) = Lock(l)
        /\ l \notin Held(t) => Runs(t, Held(t) \cup {l}, Tail(rest[t]), {})
  <2>1. PICK C : /\ Runs(t, C, Tail(rest[t]), {})
                 /\ \/ \E l \in Mutex : /\ Next1(t) = Lock(l)
                                        /\ l \notin Held(t) => C = Held(t) \cup {l}
                    \/ \E l \in Held(t) : Next1(t) = Unlock(l)
                    \/ Next1(t) = PluginCode
    BY <1>1, Turn
  <2>2. PICK l \in Mutex : Next1(t) = Lock(l) /\ (l \notin Held(t) => C = Held(t) \cup {l})
    BY <1>1, <2>1 DEF Unlock, PluginCode
  <2> QED BY <2>1, <2>2
<1>3. /\ holder[l] = Nobody /\ holder' = [holder EXCEPT ![l] = t]
      /\ rest' = [rest EXCEPT ![t] = Tail(rest[t])]
  BY <1>2 DEF Acquire, Lock
<1>4. holder \in [Mutex -> Thread \cup {Nobody}]
  BY DEF LockInv, TypeOK
<1>5. holder' \in [Mutex -> Thread \cup {Nobody}]
  BY <1>3, <1>4
<1>6. l \notin Held(t) /\ Held(t)' = Held(t) \cup {l}
  BY <1>3, <1>4, LockAssumption DEF Held
<1>7. \A u \in Thread \ {t} : Held(u)' = Held(u)
  BY <1>3, <1>4, LockAssumption DEF Held
<1>8. Runs(t, Held(t)', Tail(rest[t]), {}) /\ Tail(rest[t]) \in Seq(LockStep)
  BY <1>1, <1>2, <1>6, Turn
<1> QED BY <1>3, <1>5, <1>7, <1>8, OthersKept

LEMMA ReleaseStep == ASSUME LockInv, NEW t \in Thread, Release(t) PROVE LockInv'
<1>1. Busy(t) /\ Next1(t)[1] = "unlock"
  BY DEF Release
<1>2. PICK l \in Held(t) : Next1(t) = Unlock(l) /\ Runs(t, Held(t) \ {l}, Tail(rest[t]), {})
  <2>1. PICK C : /\ Runs(t, C, Tail(rest[t]), {})
                 /\ \/ \E l \in Mutex : Next1(t) = Lock(l)
                    \/ \E l \in Held(t) : Next1(t) = Unlock(l) /\ C = Held(t) \ {l}
                    \/ Next1(t) = PluginCode
    BY <1>1, Turn
  <2>2. PICK l \in Held(t) : Next1(t) = Unlock(l) /\ C = Held(t) \ {l}
    BY <1>1, <2>1 DEF Lock, PluginCode
  <2> QED BY <2>1, <2>2
<1>3. /\ l \in Mutex /\ holder[l] = t /\ holder' = [holder EXCEPT ![l] = Nobody]
      /\ rest' = [rest EXCEPT ![t] = Tail(rest[t])]
  BY <1>2 DEF Release, Unlock, Held
<1>4. holder \in [Mutex -> Thread \cup {Nobody}]
  BY DEF LockInv, TypeOK
<1>5. holder' \in [Mutex -> Thread \cup {Nobody}]
  BY <1>3, <1>4
<1>6. Held(t)' = Held(t) \ {l}
  BY <1>3, <1>4, LockAssumption DEF Held
<1>7. \A u \in Thread \ {t} : Held(u)' = Held(u)
  BY <1>3, <1>4, LockAssumption DEF Held
<1>8. Runs(t, Held(t)', Tail(rest[t]), {}) /\ Tail(rest[t]) \in Seq(LockStep)
  BY <1>1, <1>2, <1>6, Turn
<1> QED BY <1>3, <1>5, <1>7, <1>8, OthersKept

LEMMA EnterPluginStep == ASSUME LockInv, NEW t \in Thread, EnterPlugin(t) PROVE LockInv'
<1>1. Busy(t) /\ Next1(t)[1] = "call"
  BY DEF EnterPlugin
<1>2. PluginSide(t, Held(t)) /\ Runs(t, Held(t), Tail(rest[t]), {})
      /\ Tail(rest[t]) \in Seq(LockStep)
  <2>1. PICK C : /\ Runs(t, C, Tail(rest[t]), {})
                 /\ \/ \E l \in Mutex : Next1(t) = Lock(l)
                    \/ \E l \in Held(t) : Next1(t) = Unlock(l)
                    \/ PluginSide(t, Held(t)) /\ C = Held(t)
    BY <1>1, Turn
  <2>2. PluginSide(t, Held(t)) /\ C = Held(t)
    BY <1>1, <2>1 DEF Lock, Unlock
  <2> QED BY <1>1, <2>1, <2>2, Turn
<1>3. PICK f \in Callable : rest' = [rest EXCEPT ![t] = f \o Tail(rest[t])]
  BY DEF EnterPlugin
<1>4. Does(t, Held(t), f)
  BY <1>2, PluginCalls
<1>5. f \o Tail(rest[t]) \in Seq(LockStep) /\ Runs(t, Held(t), f \o Tail(rest[t]), {})
  <2>1. PICK A, s : A = Held(t) /\ s = Tail(rest[t])
    OBVIOUS
  <2>2. f \in Seq(LockStep) /\ Runs(t, A, f, A) /\ s \in Seq(LockStep) /\ Runs(t, A, s, {})
    BY <1>2, <1>4, <2>1 DEF Does
  <2>3. f \o s \in Seq(LockStep)
    BY <2>2
  <2>4. Runs(t, A, f \o s, {})
    BY <2>2, RunsBoth
  <2> QED BY <2>1, <2>3, <2>4
<1>6. \A u \in Thread : Held(u)' = Held(u)
  BY DEF EnterPlugin, Held
<1>7. holder' \in [Mutex -> Thread \cup {Nobody}]
  BY DEF EnterPlugin, LockInv, TypeOK
<1>8. Runs(t, Held(t)', f \o Tail(rest[t]), {})
  BY <1>5, <1>6
<1> QED BY <1>3, <1>5, <1>6, <1>7, <1>8, OthersKept

LEMMA LockStutter == ASSUME LockInv, UNCHANGED vars PROVE LockInv'
<1>1. TypeOK' /\ \A t \in Thread : Held(t)' = Held(t) /\ rest'[t] = rest[t]
  BY DEF vars, LockInv, TypeOK, Held
<1>2. \A t \in Thread : Runs(t, Held(t)', rest'[t], {})
  BY <1>1 DEF LockInv
<1>3. \A u \in Thread : Runs(u, Held(u), rest[u], {})'
  BY <1>2 DEF Runs, Leads, StepOK, MayLock, PluginRuns
<1> QED BY <1>1, <1>3 DEF LockInv

\* One step of any thread.
LEMMA LockNext == LockInv /\ [Next]_vars => LockInv'
BY BeginStep, AcquireStep, ReleaseStep, EnterPluginStep, LockStutter DEF Next, Step

\* What a thread waits for it may take.
LEMMA InOrder == LockInv => LocksInOrder
<1> SUFFICES ASSUME LockInv, NEW t \in Thread, Waits(t)
             PROVE  MayLock(t, Held(t), Wanted(t))
  BY DEF LocksInOrder
<1>1. Busy(t) /\ Next1(t)[1] = "lock"
  BY DEF Waits
<1>2. PICK l \in Mutex : Next1(t) = Lock(l) /\ MayLock(t, Held(t), l)
  <2>1. \/ \E l \in Mutex : Next1(t) = Lock(l) /\ MayLock(t, Held(t), l)
        \/ \E l \in Held(t) : Next1(t) = Unlock(l)
        \/ Next1(t) = PluginCode
    BY <1>1, Turn
  <2> QED BY <1>1, <2>1 DEF Unlock, PluginCode
<1> QED BY <1>2 DEF Wanted, Lock

-----------------------------------------------------------------------------
(* Circles.                                                                *)

\* The mutexes by their names, once more.
LEMMA Kinds ==
  /\ \A l \in CreateMutex : l[1] = "CREATE_AGENTS"
  /\ \A l \in ScriptMutex : l[1] = "SCRIPTS"
  /\ \A l \in ListMutex : l[1] = "CALLBACKS"
  /\ STATUS_SCRIPTS[1] = "STATUS_SCRIPTS"
  /\ COMMON_STATUS_SCRIPTS[1] = "COMMON_STATUS_SCRIPTS"
  /\ STATUS_CUSTOMIZERS[1] = "STATUS_CUSTOMIZERS"
  /\ LOADED_ACMD_AGENTS[1] = "LOADED_ACMD_AGENTS"
  /\ LOADED_STATUS_AGENTS[1] = "LOADED_STATUS_AGENTS"
  /\ STATUS_CREATE_AGENTS[1] = "STATUS_CREATE_AGENTS"
  /\ STATUS_VTABLES[1] = "STATUS_VTABLES"
  /\ FRAMES[1] = "FRAMES" /\ SYMBOL_HOOKS[1] = "SYMBOL_HOOKS" /\ CUSTOM_EH_MEM[1] = "CUSTOM_EH_MEM"
  /\ LOADED_DEVELOPMENT_PLUGIN[1] = "LOADED_DEVELOPMENT_PLUGIN"
BY DEF CreateMutex, CREATE_AGENTS, ScriptMutex, SCRIPTS, ListMutex, CALLBACKS, STATUS_SCRIPTS,
  COMMON_STATUS_SCRIPTS, STATUS_CUSTOMIZERS, LOADED_ACMD_AGENTS, LOADED_STATUS_AGENTS,
  STATUS_CREATE_AGENTS, STATUS_VTABLES, FRAMES, SYMBOL_HOOKS, CUSTOM_EH_MEM,
  LOADED_DEVELOPMENT_PLUGIN

LEMMA EveryMutex ==
  Mutex = ScriptMutex \cup CreateMutex \cup StatusMutex \cup ListMutex
          \cup {LOADED_ACMD_AGENTS, LOADED_STATUS_AGENTS, STATUS_CREATE_AGENTS, STATUS_VTABLES,
                FRAMES, SYMBOL_HOOKS, CUSTOM_EH_MEM, LOADED_DEVELOPMENT_PLUGIN}
BY DEF Mutex, AcmdMutex, ScriptMutex, CreateMutex

LEMMA OrderedIn ==
  ASSUME NEW ls, NEW m, NEW l, <<m, l>> \in Ordered(ls)
  PROVE  m \in Range(ls) /\ l \in Range(ls)
BY DEF Ordered

\* What may be held by somebody who waits for l: a handler of the game, ...
LEMMA BeforeInGame ==
  ASSUME NEW m, NEW l, <<m, l>> \in GameOrder
  PROVE  \/ l \in CreateMutex /\ <<m, l>> \in Ordered(AllCreateAgents)
         \/ l \in {LOADED_ACMD_AGENTS} \cup ScriptMutex /\ m \in CreateMutex
         \/ l = LOADED_STATUS_AGENTS /\ m \in HandlerOnly \cup {LOADED_ACMD_AGENTS}
         \/ l = STATUS_VTABLES /\ m = STATUS_CREATE_AGENTS
         \/ l = COMMON_STATUS_SCRIPTS /\ m = STATUS_SCRIPTS
<1>1. ASSUME <<m, l>> \in Ordered(AllCreateAgents) PROVE l \in CreateMutex
  BY <1>1, OrderedIn, CreateRow
<1> QED BY <1>1 DEF GameOrder, HandlerOnly

\* ... or a plugin's call.
LEMMA BeforeInPlugin ==
  ASSUME NEW m, NEW l, <<m, l>> \in PluginOrder
  PROVE  \/ l \in Mutex \ HandlerOnly /\ m \in PluginHeld
         \/ l \in ScriptMutex /\ (m = LOADED_ACMD_AGENTS \/ <<m, l>> \in Ordered(AllScripts))
         \/ l = LOADED_STATUS_AGENTS /\ m \in StatusMutex
         \/ l \in StatusMutex /\ m = LOADED_STATUS_AGENTS
         \/ l = COMMON_STATUS_SCRIPTS /\ m = STATUS_SCRIPTS
<1>1. ASSUME <<m, l>> \in Ordered(AllScripts) PROVE l \in ScriptMutex
  BY <1>1, OrderedIn, Rows
<1> QED BY <1>1 DEF PluginOrder

\* In a row of mutexes one is always first.
LEMMA FirstOfRow ==
  ASSUME NEW T, NEW ls \in Seq(T), IsInjective(ls), NEW W,
         \A l \in W \cap Range(ls) : \E m \in W : <<m, l>> \in Ordered(ls)
  PROVE  W \cap Range(ls) = {}
<1> DEFINE N == {i \in DOMAIN ls : ls[i] \in W}
<1>1. DOMAIN ls \subseteq Nat
  OBVIOUS
<1>2. SUFFICES ASSUME N # {} PROVE FALSE
  BY DEF Range
<1>3. PICK i \in N : \A j \in N : ~ (j < i)
  <2> DEFINE R == OpToRel(<, Nat)
  <2>1. IsWellFoundedOn(R, Nat)
    BY NatLessThanWellFounded
  <2>2. N \subseteq Nat
    BY <1>1
  <2> HIDE DEF R, N
  <2>3. PICK i \in N : \A j \in N : ~ (<<j, i>> \in R)
    BY <1>2, <2>1, <2>2, WFMin
  <2>4. \A j \in N : ~ (j < i)
    BY <2>2, <2>3 DEF R, OpToRel
  <2> QED BY <2>4
<1>4. ls[i] \in W \cap Range(ls)
  BY DEF Range
<1>5. PICK m \in W : <<m, ls[i]>> \in Ordered(ls)
  BY <1>4
<1>6. PICK k \in DOMAIN ls, j \in DOMAIN ls : k < j /\ m = ls[k] /\ ls[i] = ls[j]
  BY <1>5 DEF Ordered
<1>7. i = j /\ k \in N
  BY <1>6 DEF IsInjective
<1> QED BY <1>3, <1>6, <1>7

\* What the threads of S wait for, and that each waits for one of them.
Wants(S) == {Wanted(t) : t \in S}

LEMMA CircleOf ==
  ASSUME LockInv, NEW S \in SUBSET Thread, Circle(S)
  PROVE  /\ Wants(S) # {} /\ Wants(S) \subseteq Mutex
         /\ \A t \in S : Waits(t) /\ Wanted(t) \in Mutex /\ MayLock(t, Held(t), Wanted(t))
         /\ \A t \in S : \E m \in Wants(S) : m \in Held(t)
         /\ \A l \in Wants(S) : holder[l] \in S /\ l \in Held(holder[l])
<1>1. \A t \in S : Waits(t) /\ MayLock(t, Held(t), Wanted(t))
  BY InOrder DEF Circle, LocksInOrder
<1>2. ASSUME NEW t \in S PROVE Wanted(t) \in Mutex
  <2>1. Busy(t) /\ Next1(t)[1] = "lock"
    BY <1>1 DEF Waits
  <2>2. \/ \E l \in Mutex : Next1(t) = Lock(l)
        \/ \E l \in Held(t) : Next1(t) = Unlock(l)
        \/ Next1(t) = PluginCode
    BY <2>1, Turn
  <2>3. PICK l \in Mutex : Next1(t) = Lock(l)
    BY <2>1, <2>2 DEF Unlock, PluginCode
  <2> QED BY <2>3 DEF Wanted, Lock
<1>3. \A t \in S : \E u \in S : holder[Wanted(u)] = t
  BY DEF Circle
<1>4. \A t \in S : holder[Wanted(t)] \in S
  BY DEF Circle
<1> QED BY <1>1, <1>2, <1>3, <1>4 DEF Wants, Held, Circle

\* Nobody in a circle waits for what only the game's handlers lock: who holds such
\* a mutex waits for none that is locked before it.
LEMMA HandlersUnwanted ==
  ASSUME NEW W, \A l \in W : \E m \in W : <<m, l>> \in GameOrder \cup PluginOrder
  PROVE  W \cap HandlerOnly = {}
<1>1. ASSUME NEW l \in CreateMutex, NEW m, <<m, l>> \in GameOrder \cup PluginOrder
      PROVE  <<m, l>> \in Ordered(AllCreateAgents)
  <2>1. CASE <<m, l>> \in GameOrder
    BY <2>1, BeforeInGame, Kinds
  <2>2. CASE <<m, l>> \in PluginOrder
    BY <2>2, BeforeInPlugin, Kinds DEF HandlerOnly, StatusMutex
  <2> QED BY <1>1, <2>1, <2>2
<1>2. W \cap CreateMutex = {}
  <2>1. \A l \in W \cap Range(AllCreateAgents) : \E m \in W : <<m, l>> \in Ordered(AllCreateAgents)
    BY <1>1, CreateRow
  <2>2. AllCreateAgents \in Seq(Mutex) /\ IsInjective(AllCreateAgents)
    BY CreateRow
  <2>3. W \cap Range(AllCreateAgents) = {}
    BY <2>1, <2>2, FirstOfRow
  <2> QED BY <2>3, CreateRow
<1>3. ASSUME NEW m, <<m, STATUS_CREATE_AGENTS>> \in GameOrder \cup PluginOrder PROVE FALSE
  <2>1. CASE <<m, STATUS_CREATE_AGENTS>> \in GameOrder
    BY <2>1, BeforeInGame, Kinds
  <2>2. CASE <<m, STATUS_CREATE_AGENTS>> \in PluginOrder
    BY <2>2, BeforeInPlugin, Kinds DEF HandlerOnly, StatusMutex
  <2> QED BY <1>3, <2>1, <2>2
<1>4. ASSUME NEW m, <<m, STATUS_VTABLES>> \in GameOrder \cup PluginOrder
      PROVE  m = STATUS_CREATE_AGENTS
  <2>1. CASE <<m, STATUS_VTABLES>> \in GameOrder
    BY <2>1, BeforeInGame, Kinds
  <2>2. CASE <<m, STATUS_VTABLES>> \in PluginOrder
    BY <2>2, BeforeInPlugin, Kinds DEF HandlerOnly, StatusMutex
  <2> QED BY <1>4, <2>1, <2>2
<1> QED BY <1>2, <1>3, <1>4 DEF HandlerOnly

\* In a circle each thread is waited for by one that waits for what it holds.
LEMMA Pairs ==
  ASSUME LockInv, NEW S \in SUBSET Thread, Circle(S), NEW t \in S
  PROVE  \E m \in Wants(S) : /\ m \in Held(t)
                            /\ <<m, Wanted(t)>> \in GameOrder \cup PluginOrder
BY CircleOf DEF MayLock

\* Without plugin code that comes back nobody in a circle waits for the lists of
\* callbacks or the loader, ...
LEMMA LoaderUnwanted ==
  ASSUME LockInv, NEW S \in SUBSET Thread, Circle(S), ~FromPluginCode(S)
  PROVE  Wants(S) \cap PluginHeld = {}
<1>1. ASSUME NEW t \in S, Wanted(t) \in PluginHeld
      PROVE  \E m \in Wants(S) : m \in Held(t) /\ m \in PluginHeld
  <2>1. PICK m \in Wants(S) : m \in Held(t) /\ <<m, Wanted(t)>> \in GameOrder \cup PluginOrder
    BY Pairs
  <2>2. CASE <<m, Wanted(t)>> \in GameOrder
    BY <1>1, <2>2, BeforeInGame, Kinds DEF PluginHeld
  <2>3. CASE <<m, Wanted(t)>> \in PluginOrder
    BY <1>1, <2>1, <2>3, BeforeInPlugin, Kinds DEF PluginHeld, StatusMutex
  <2> QED BY <2>1, <2>2, <2>3
<1>2. LOADED_DEVELOPMENT_PLUGIN \notin Wants(S)
  <2> SUFFICES ASSUME NEW t \in S, Wanted(t) = LOADED_DEVELOPMENT_PLUGIN PROVE FALSE
    BY DEF Wants
  <2>1. Held(t) \cap PluginHeld # {}
    BY <1>1 DEF PluginHeld
  <2> QED BY <2>1 DEF PluginHeld, FromPluginCode
<1>3. ASSUME NEW t \in S, Wanted(t) \in ListMutex PROVE FALSE
  <2>1. PICK m \in Wants(S) : m \in Held(t) /\ m \in PluginHeld
    BY <1>1, <1>3 DEF PluginHeld
  <2>2. m \in ListMutex
    BY <1>2, <2>1 DEF PluginHeld
  <2> QED BY <1>3, <2>1, <2>2 DEF FromPluginCode
<1> QED BY <1>2, <1>3 DEF Wants, PluginHeld

\* ... hence all are about status scripts and their agents.
LEMMA StatusWanted ==
  ASSUME LockInv, NEW S \in SUBSET Thread, Circle(S), ~FromPluginCode(S)
  PROVE  Wants(S) \subseteq StatusMutex \cup {LOADED_STATUS_AGENTS}
<1> DEFINE W == Wants(S)
<1>1. \A l \in W : \E m \in W : <<m, l>> \in GameOrder \cup PluginOrder
  BY Pairs DEF Wants
<1>2. W \cap HandlerOnly = {} /\ W \cap PluginHeld = {} /\ W \subseteq Mutex
  BY <1>1, HandlersUnwanted, LoaderUnwanted, CircleOf
<1> HIDE DEF W
<1>3. LOADED_ACMD_AGENTS \notin W
  <2> SUFFICES ASSUME NEW m \in W,
                      <<m, LOADED_ACMD_AGENTS>> \in GameOrder \cup PluginOrder
               PROVE  FALSE
    BY <1>1
  <2>1. CASE <<m, LOADED_ACMD_AGENTS>> \in GameOrder
    BY <1>2, <2>1, BeforeInGame, Kinds DEF HandlerOnly
  <2>2. CASE <<m, LOADED_ACMD_AGENTS>> \in PluginOrder
    BY <1>2, <2>2, BeforeInPlugin, Kinds DEF StatusMutex
  <2> QED BY <2>1, <2>2
<1>4. W \cap ScriptMutex = {}
  <2>1. ASSUME NEW l \in W \cap ScriptMutex
        PROVE  \E m \in W : <<m, l>> \in Ordered(AllScripts)
    <3>1. PICK m \in W : <<m, l>> \in GameOrder \cup PluginOrder
      BY <1>1
    <3>2. CASE <<m, l>> \in GameOrder
      BY <1>2, <3>2, BeforeInGame, Kinds DEF HandlerOnly
    <3>3. CASE <<m, l>> \in PluginOrder
      BY <1>2, <1>3, <3>3, BeforeInPlugin, Kinds DEF StatusMutex
    <3> QED BY <3>1, <3>2, <3>3
  <2> QED BY <2>1, Rows, FirstOfRow
<1>5. ASSUME NEW l \in W, l \in {FRAMES, SYMBOL_HOOKS, CUSTOM_EH_MEM} PROVE FALSE
  <2>1. PICK m \in W : <<m, l>> \in GameOrder \cup PluginOrder
    BY <1>1
  <2>2. CASE <<m, l>> \in GameOrder
    BY <1>5, <2>2, BeforeInGame, Kinds
  <2>3. CASE <<m, l>> \in PluginOrder
    BY <1>2, <1>5, <2>3, BeforeInPlugin, Kinds DEF StatusMutex
  <2> QED BY <2>1, <2>2, <2>3
<1> QED BY <1>2, <1>3, <1>4, <1>5, EveryMutex DEF W, HandlerOnly, PluginHeld

LEMMA KnownCircle ==
  ASSUME LockInv, NEW S \in SUBSET Thread, Circle(S), ~FromPluginCode(S)
  PROVE  AgentsAgainstRequest(S)
<1> DEFINE Follows(m, l) == \/ l = LOADED_STATUS_AGENTS /\ m \in StatusMutex
                            \/ l \in StatusMutex /\ m = LOADED_STATUS_AGENTS
                            \/ l = COMMON_STATUS_SCRIPTS /\ m = STATUS_SCRIPTS
<1>1. Wants(S) \subseteq StatusMutex \cup {LOADED_STATUS_AGENTS} /\ Wants(S) # {}
  BY StatusWanted, CircleOf
<1>2. ASSUME NEW t \in S
      PROVE  \E m \in Wants(S) : m \in Held(t) /\ Follows(m, Wanted(t))
  <2>1. PICK m \in Wants(S) :
          m \in Held(t) /\ <<m, Wanted(t)>> \in GameOrder \cup PluginOrder
    BY Pairs
  <2>2. PICK l : l = Wanted(t)
    OBVIOUS
  <2>3. l \in StatusMutex \cup {LOADED_STATUS_AGENTS}
    BY <1>1, <2>2 DEF Wants
  <2>4. m \in StatusMutex \cup {LOADED_STATUS_AGENTS}
    BY <1>1
  <2>5. ASSUME <<m, l>> \in GameOrder PROVE Follows(m, l)
    BY <2>3, <2>4, <2>5, BeforeInGame, Kinds DEF HandlerOnly, StatusMutex
  <2>6. ASSUME <<m, l>> \in PluginOrder PROVE Follows(m, l)
    BY <2>3, <2>4, <2>6, BeforeInPlugin, Kinds DEF PluginHeld, StatusMutex
  <2> QED BY <2>1, <2>2, <2>5, <2>6
<1>3. ASSUME NEW t \in S, Wanted(t) \in StatusMutex
      PROVE  /\ LOADED_STATUS_AGENTS \in Wants(S)
             /\ \E u \in S : LOADED_STATUS_AGENTS \in Held(u) /\ Wanted(u) \in StatusMutex
  <2>1. PICK m \in Wants(S) : m \in Held(t) /\ Follows(m, Wanted(t))
    BY <1>2
  <2>2. CASE m = LOADED_STATUS_AGENTS
    BY <1>3, <2>1, <2>2
  <2>3. CASE m # LOADED_STATUS_AGENTS
    <3>1. m = STATUS_SCRIPTS
      BY <1>3, <2>1, <2>3, Kinds DEF StatusMutex
    <3>2. PICK u \in S : Wanted(u) = STATUS_SCRIPTS
      BY <2>1, <3>1 DEF Wants
    <3>3. PICK k \in Wants(S) : k \in Held(u) /\ Follows(k, STATUS_SCRIPTS)
      BY <1>2, <3>2
    <3>4. k = LOADED_STATUS_AGENTS
      BY <3>3, Kinds
    <3>5. Wanted(u) \in StatusMutex
      BY <3>2 DEF StatusMutex
    <3> QED BY <3>3, <3>4, <3>5
  <2> QED BY <2>2, <2>3
<1>4. LOADED_STATUS_AGENTS \in Wants(S)
  <2>1. PICK t \in S : TRUE
    BY DEF Circle
  <2>2. Wanted(t) \in Wants(S)
    BY DEF Wants
  <2>3. CASE Wanted(t) \in StatusMutex
    BY <1>3, <2>3
  <2>4. CASE Wanted(t) = LOADED_STATUS_AGENTS
    BY <2>2, <2>4
  <2> QED BY <1>1, <2>2, <2>3, <2>4
<1>5. PICK t \in S : Wanted(t) = LOADED_STATUS_AGENTS
  BY <1>4 DEF Wants
<1>6. PICK m \in Wants(S) : m \in Held(t) /\ m \in StatusMutex
  <2>1. PICK m \in Wants(S) : m \in Held(t) /\ Follows(m, LOADED_STATUS_AGENTS)
    BY <1>2, <1>5
  <2>2. m \in StatusMutex
    BY <2>1, Kinds DEF StatusMutex
  <2> QED BY <2>1, <2>2
<1>7. PICK v \in S : Wanted(v) = m
  BY <1>6 DEF Wants
<1>8. \E u \in S : LOADED_STATUS_AGENTS \in Held(u) /\ Wanted(u) \in StatusMutex
  BY <1>3, <1>6, <1>7
<1> QED BY <1>5, <1>6, <1>8 DEF AgentsAgainstRequest

-----------------------------------------------------------------------------
(* Handlers of the game.                                                   *)

LEMMA RowFinite ==
  ASSUME NEW T, NEW ls \in Seq(T) PROVE IsFiniteSet(Range(ls))
<1> DEFINE n == Len(ls)
<1>1. n \in Nat /\ ls \in [1..n -> T] /\ DOMAIN ls = 1..n
  OBVIOUS
<1>2. ls \in Surjection(1..n, Range(ls))
  BY <1>1 DEF Surjection, Range
<1>3. IsFiniteSet(1..n)
  BY <1>1, FS_Interval
<1> HIDE DEF n
<1> QED BY <1>2, <1>3, FS_Surjection

LEMMA MutexesFinite == IsFiniteSet(Mutex)
<1>1. IsFiniteSet(ScriptMutex) /\ IsFiniteSet(CreateMutex) /\ IsFiniteSet(ListMutex)
  BY Rows, CreateRow, RowFinite
<1> DEFINE Named == {LOADED_ACMD_AGENTS, LOADED_STATUS_AGENTS, STATUS_CREATE_AGENTS,
                     STATUS_VTABLES, FRAMES, SYMBOL_HOOKS, CUSTOM_EH_MEM,
                     LOADED_DEVELOPMENT_PLUGIN}
<1>2. IsFiniteSet(StatusMutex) /\ IsFiniteSet(Named)
  <2>1. \A S, x : IsFiniteSet(S) => IsFiniteSet(S \cup {x})
    BY FS_AddElement
  <2>2. IsFiniteSet({})
    BY FS_EmptySet
  <2>3. StatusMutex = {} \cup {STATUS_SCRIPTS} \cup {COMMON_STATUS_SCRIPTS}
                      \cup {STATUS_CUSTOMIZERS}
    BY DEF StatusMutex
  <2>4. Named = {} \cup {LOADED_ACMD_AGENTS} \cup {LOADED_STATUS_AGENTS}
                \cup {STATUS_CREATE_AGENTS} \cup {STATUS_VTABLES} \cup {FRAMES}
                \cup {SYMBOL_HOOKS} \cup {CUSTOM_EH_MEM} \cup {LOADED_DEVELOPMENT_PLUGIN}
    OBVIOUS
  <2> HIDE DEF Named
  <2> QED BY <2>1, <2>2, <2>3, <2>4
<1>3. Mutex = ScriptMutex \cup CreateMutex \cup StatusMutex \cup ListMutex \cup Named
  BY EveryMutex
<1> HIDE DEF Named
<1>4. \A S, T : IsFiniteSet(S) /\ IsFiniteSet(T) => IsFiniteSet(S \cup T)
  BY FS_Union
<1> QED BY <1>1, <1>2, <1>3, <1>4

\* In a circle no two threads wait for the same mutex: there are as many mutexes as
\* threads.
LEMMA EachItsOwn ==
  ASSUME LockInv, NEW S \in SUBSET Thread, Circle(S), NEW t \in S, NEW u \in S,
         Wanted(t) = Wanted(u)
  PROVE  t = u
<1> DEFINE W == Wants(S)
           f == [l \in W |-> holder[l]]
           g == [v \in S |-> Wanted(v)]
<1>1. f \in Surjection(W, S)
  <2>1. f \in [W -> S]
    BY CircleOf
  <2>2. \A v \in S : \E l \in W : f[l] = v
    BY DEF Circle, Wants
  <2> QED BY <2>1, <2>2 DEF Surjection
<1>2. g \in Surjection(S, W)
  BY DEF Surjection, Wants
<1>3. IsFiniteSet(W)
  BY CircleOf, MutexesFinite, FS_Subset
<1> HIDE DEF W, f
<1>4. IsFiniteSet(S) /\ Cardinality(S) <= Cardinality(W)
  BY <1>1, <1>3, FS_Surjection
<1>5. Cardinality(W) <= Cardinality(S)
      /\ (Cardinality(W) = Cardinality(S) <=> g \in Injection(S, W))
  <2> HIDE DEF g
  <2> QED BY <1>2, <1>4, FS_Surjection
<1>6. Cardinality(S) \in Nat /\ Cardinality(W) \in Nat
  BY <1>3, <1>4, FS_CardinalityType
<1>7. g \in Injection(S, W)
  BY <1>4, <1>5, <1>6
<1> QED BY <1>7 DEF Injection, IsInjective

\* In a circle it is a request for status scripts that waits for the live status
\* agents, and nobody else.
LEMMA AgentsBoth ==
  ASSUME LockInv, NEW S \in SUBSET Thread, Circle(S),
         NEW t \in S, Wanted(t) = LOADED_STATUS_AGENTS
  PROVE  \E m \in StatusMutex : m \in Held(t)
<1>1. ASSUME NEW u \in S, NEW m \in Held(u)
      PROVE  <<m, Wanted(u)>> \in GameOrder \cup PluginOrder
  BY CircleOf DEF MayLock
<1>2. ASSUME NEW l \in Wants(S)
      PROVE  \E u \in S : l \in Held(u) /\ <<l, Wanted(u)>> \in GameOrder \cup PluginOrder
  BY <1>1, CircleOf
<1>3. LOADED_STATUS_AGENTS \in Wants(S)
  BY DEF Wants
<1>4. PICK v \in S : <<LOADED_STATUS_AGENTS, Wanted(v)>> \in GameOrder \cup PluginOrder
  BY <1>2, <1>3
<1>5. Wanted(v) \in StatusMutex
  <2>1. ASSUME NEW l, <<LOADED_STATUS_AGENTS, l>> \in GameOrder PROVE l \in StatusMutex
    BY <2>1, BeforeInGame, OrderedIn, CreateRow, Kinds DEF HandlerOnly
  <2>2. ASSUME NEW l, <<LOADED_STATUS_AGENTS, l>> \in PluginOrder PROVE l \in StatusMutex
    BY <2>2, BeforeInPlugin, OrderedIn, Rows, Kinds DEF PluginHeld, StatusMutex
  <2> QED BY <1>4, <2>1, <2>2
<1>6. ASSUME NEW l \in StatusMutex, NEW k, <<l, k>> \in GameOrder \cup PluginOrder
      PROVE  k = LOADED_STATUS_AGENTS \/ (k = COMMON_STATUS_SCRIPTS /\ l = STATUS_SCRIPTS)
  <2>1. CASE <<l, k>> \in GameOrder
    BY <2>1, BeforeInGame, OrderedIn, CreateRow, Kinds DEF HandlerOnly, StatusMutex
  <2>2. CASE <<l, k>> \in PluginOrder
    BY <2>2, BeforeInPlugin, OrderedIn, Rows, Kinds DEF PluginHeld, StatusMutex
  <2> QED BY <1>6, <2>1, <2>2
<1>7. \E u \in S : Wanted(u) = LOADED_STATUS_AGENTS /\ \E m \in StatusMutex : m \in Held(u)
  <2>1. PICK w \in S : /\ Wanted(v) \in Held(w)
                      /\ <<Wanted(v), Wanted(w)>> \in GameOrder \cup PluginOrder
    BY <1>2 DEF Wants
  <2>2. CASE Wanted(w) = LOADED_STATUS_AGENTS
    BY <1>5, <2>1, <2>2
  <2>3. CASE Wanted(w) # LOADED_STATUS_AGENTS
    <3>1. Wanted(w) = COMMON_STATUS_SCRIPTS
      BY <1>5, <1>6, <2>1, <2>3
    <3>2. PICK x \in S : /\ COMMON_STATUS_SCRIPTS \in Held(x)
                        /\ <<COMMON_STATUS_SCRIPTS, Wanted(x)>> \in GameOrder \cup PluginOrder
      BY <1>2, <3>1 DEF Wants
    <3>3. COMMON_STATUS_SCRIPTS \in StatusMutex /\ COMMON_STATUS_SCRIPTS # STATUS_SCRIPTS
      BY Kinds DEF StatusMutex
    <3>4. Wanted(x) = LOADED_STATUS_AGENTS
      BY <1>6, <3>2, <3>3
    <3> QED BY <3>2, <3>3, <3>4
  <2> QED BY <2>2, <2>3
<1> QED BY <1>7, EachItsOwn

LEMMA HandlerCircle ==
  ASSUME LockInv, NEW S \in SUBSET Thread, Circle(S), NEW t \in S,
         ~PluginRuns(t, Held(t))
  PROVE  Held(t) = {STATUS_SCRIPTS} /\ Wanted(t) = COMMON_STATUS_SCRIPTS
<1>1. \A m \in Held(t) : <<m, Wanted(t)>> \in GameOrder
  BY CircleOf DEF MayLock
<1>2. PICK m \in Wants(S) : m \in Held(t)
  BY CircleOf
<1>3. m \notin HandlerOnly
  <2>1. \A l \in Wants(S) : \E k \in Wants(S) : <<k, l>> \in GameOrder \cup PluginOrder
    BY Pairs DEF Wants
  <2> QED BY <2>1, HandlersUnwanted
<1>4. PICK l : l = Wanted(t)
  OBVIOUS
<1>5. \/ l = LOADED_STATUS_AGENTS
      \/ l = COMMON_STATUS_SCRIPTS
  <2>1. <<m, l>> \in GameOrder
    BY <1>1, <1>2, <1>4
  <2> QED BY <1>3, <2>1, BeforeInGame, OrderedIn, CreateRow DEF HandlerOnly
<1>6. l # LOADED_STATUS_AGENTS
  <2> SUFFICES ASSUME l = LOADED_STATUS_AGENTS PROVE FALSE
    OBVIOUS
  <2>1. PICK k \in StatusMutex : k \in Held(t)
    BY <1>4, AgentsBoth
  <2>2. <<k, LOADED_STATUS_AGENTS>> \in GameOrder
    BY <1>1, <1>4, <2>1
  <2> QED BY <2>2, BeforeInGame, Kinds DEF HandlerOnly, StatusMutex
<1>7. l = COMMON_STATUS_SCRIPTS
  BY <1>5, <1>6
<1>8. \A k \in Held(t) : k = STATUS_SCRIPTS
  <2> SUFFICES ASSUME NEW k \in Held(t) PROVE k = STATUS_SCRIPTS
    OBVIOUS
  <2>1. <<k, COMMON_STATUS_SCRIPTS>> \in GameOrder
    BY <1>1, <1>4, <1>7
  <2> QED BY <2>1, BeforeInGame, Kinds
<1> QED BY <1>2, <1>4, <1>7, <1>8

-----------------------------------------------------------------------------
(* Theorems.                                                               *)

\* What is true between any two steps of any threads: what each has yet to do takes
\* only mutexes that may follow those it holds, and in the end drops them all.
THEOREM LockInvariant == Spec => []LockInv
<1>1. Init => LockInv
  BY LockInitial
<1>2. LockInv /\ [Next]_vars => LockInv'
  BY LockNext
<1> QED BY <1>1, <1>2, PTL DEF Spec

\* TypeOK, over every run: the steps are of mutexes there are, and a mutex has at
\* most one holder.
THEOREM TypeCorrect == Spec => []TypeOK
<1>1. LockInv => TypeOK
  BY DEF LockInv
<1> QED BY <1>1, LockInvariant, PTL

\* The order of the mutexes: whatever a thread waits for while it holds others, the
\* pair is one of GameOrder, or of PluginOrder if a plugin called it.
THEOREM OrderKept == Spec => []LocksInOrder
BY LockInvariant, InOrder, PTL

\* Nothing is left locked: a thread with nothing to do holds no mutex, whatever its
\* callbacks and reloads called on the way.
IdleHoldNothing == \A t \in Thread : ~Busy(t) => Held(t) = {}
THEOREM NothingLeftLocked == Spec => []IdleHoldNothing
<1>1. ASSUME LockInv, NEW t \in Thread, ~Busy(t) PROVE Held(t) = {}
  <2>1. Runs(t, Held(t), <<>>, {})
    BY <1>1 DEF LockInv, Busy
  <2> QED BY <2>1 DEF Runs
<1>2. LockInv => IdleHoldNothing
  BY <1>1 DEF IdleHoldNothing
<1> QED BY <1>2, LockInvariant, PTL

\* Threads wait for each other only between the removal of the status scripts and a
\* request for one (scripts.rs:468-484, status.rs:214-286), or where plugin code
\* comes back under a lock of smashline (callbacks.rs:182-188, loader.rs:180-190);
\* for any number of threads, categories and lists.
THEOREM CirclesAreKnown == Spec => []OnlyKnownCircles
<1>1. LockInv => OnlyKnownCircles
  BY KnownCircle DEF OnlyKnownCircles
<1> QED BY <1>1, LockInvariant, PTL

\* A game thread that runs no callback is in no circle but that of the load of
\* "common" (status.rs:106-112); if game threads neither reload nor are a plugin's.
THEOREM HandlersStayOut ==
  ASSUME GameThread \cap (InputThread \cup PluginThread) = {}
  PROVE  Spec => []HandlersInNoCircle
<1>1. ASSUME LockInv PROVE HandlersInNoCircle
  <2> SUFFICES ASSUME NEW S \in SUBSET Thread, Circle(S), NEW t \in S \cap GameThread,
                      Held(t) \cap ListMutex = {}
               PROVE  Held(t) = {STATUS_SCRIPTS} /\ Wanted(t) = COMMON_STATUS_SCRIPTS
    BY DEF HandlersInNoCircle
  <2>1. ~PluginRuns(t, Held(t))
    BY DEF PluginRuns
  <2> QED BY <1>1, <2>1, HandlerCircle
<1> QED BY <1>1, LockInvariant, PTL
=============================================================================
