---------------------------- MODULE LoaderProofs ----------------------------
(***************************************************************************)
(* Proofs about Loader: one development plugin at a time, what is          *)
(* allocated and registered, and the timer, for any number of threads, of  *)
(* reloads and of images, and whatever the game throws meanwhile; and      *)
(* about Unwind under the steps of Loader: where exceptions land, and what *)
(* ends the process, for any number of plugins and frames.                 *)
(***************************************************************************)
EXTENDS Loader, FiniteSetTheorems, TLAPS

Pc     == {"idle", "decrement", "store", "lock", "unregister", "unload",
           "forget", "read", "size", "register", "load", "install"}
LoadPc == {"unregister", "unload", "forget", "read", "size", "register", "load", "install"}
Loaded == [n : 0..MaxLoads, slot : Slot]

LoaderType ==
  /\ mode \in {"hook", "poll"} /\ timer \in 0..W - 1 /\ polls \in 0..Period
  /\ overlap \in BOOLEAN /\ holder \in Threads \cup {Null} /\ count \in 0..MaxLoads
  /\ pc \in [Threads -> Pc] /\ loaded \in Loaded /\ plugin \in [Threads -> Loaded]
  /\ heap \subseteq Number \X Buffer /\ ro \in [nrr : SUBSET Number, nro : SUBSET Number]
  /\ outcome \in [Number -> {"none", "failed", "loaded"}]
  /\ image \in [Slot -> Image \cup {Null}]

\* Who loads holds the mutex.
HolderInv == \A t \in Threads : pc[t] \in LoadPc <=> holder = t

\* The loads that are waited for are within the bound.
Waiting  == {t \in Threads : pc[t] = "lock"}
CountInv == count + Cardinality(Waiting) <= MaxLoads

\* What there is at each point of a reload.
Kept     == {n \in Number : outcome[n] = "loaded"} \X Buffer
Good     == {n \in ro.nrr : outcome[n] # "failed"}
DevSlots == {k \in Slot : image[k] \in Dev}
There(nro, good, slots, buffers) ==
  ro.nro = nro /\ Good = good /\ DevSlots = slots /\ heap = Kept \cup ({count} \X buffers)

IsLoaded(p) == p.n # 0 /\ outcome[p.n] = "loaded"
FreeInv ==
  holder = Null =>
    \/ loaded = None /\ There({}, {}, {}, {})
    \/ IsLoaded(loaded) /\ There({loaded.n}, {loaded.n}, {loaded.slot}, {})
Uninstalling(t) ==
  LET p == plugin[t]
  IN /\ pc[t] \in {"unregister", "unload"} => IsLoaded(p) /\ There({p.n}, {p.n}, {p.slot}, {})
     /\ pc[t] = "forget" => IsLoaded(p) /\ There({}, {p.n}, {}, {})
Creating(t) ==
  /\ pc[t] = "read" => There({}, {}, {}, {})
  /\ pc[t] = "size" => There({}, {}, {}, {"nro"})
  /\ pc[t] = "register" => There({}, {}, {}, {"nro", "nrr"})
  /\ pc[t] = "load" => There({}, {count}, {}, Buffer)
  /\ pc[t] = "install" =>
       IsLoaded(plugin[t]) /\ There({count}, {count}, {plugin[t].slot}, {})
  /\ pc[t] \in {"size", "register", "load", "install"} => plugin[t].n = count
UninstallInv == \A t \in Threads : Uninstalling(t)
NewInv       == \A t \in Threads : Creating(t)

\* Plugins are numbered as they come.
FreshInv ==
  /\ holder # Null => loaded = None /\ count \in Number
  /\ \A n \in Number : n > count => outcome[n] = "none" /\ n \notin ro.nrr
  /\ \A t \in Threads :
       /\ pc[t] \in LoadPc \ {"install"} => outcome[count] = "none"
       /\ pc[t] \in LoadPc \ {"load", "install"} => count \notin ro.nrr

LInv == HolderInv /\ FreeInv /\ UninstallInv /\ NewInv /\ FreshInv
IInv == LoaderType /\ CountInv /\ LInv

\* The timer.
TimerInv ==
  /\ mode = "poll" => timer = 0 /\ polls = Period /\ \A t \in InputThread : pc[t] = "idle"
  /\ mode = "hook" => pc[Poller] = "idle"
  /\ mode = "poll" => pc[Poller] \notin {"decrement", "store"}
  /\ ~overlap =>
       /\ \A t, u \in Threads : pc[t] # "idle" /\ pc[u] # "idle" => t = u
       /\ (\A t \in Threads : pc[t] = "idle") => timer = Period - polls
       /\ \A t \in Threads :
            /\ pc[t] = "decrement" => timer = Period - polls + 1
            /\ pc[t] \notin {"idle", "decrement"} => timer = 0 /\ polls = Period

USE DEF Threads

-----------------------------------------------------------------------------
(* Steps that leave the reload alone.                                      *)

LEMMA Bystanders ==
  ASSUME LInv, UNCHANGED reload, DevSlots' = DevSlots,
         \A t \in Threads : pc[t] \in LoadPc \/ pc'[t] \in LoadPc => pc'[t] = pc[t]
  PROVE  LInv'
<1>1. \A nro, good, slots, buffers :
        There(nro, good, slots, buffers)' <=> There(nro, good, slots, buffers)
  BY DEF There, Kept, Good, reload
<1>2. HolderInv'
  BY DEF LInv, HolderInv, reload
<1>3. FreeInv' /\ FreshInv'
  BY <1>1 DEF LInv, FreeInv, FreshInv, IsLoaded, There, Kept, Good, reload, LoadPc
<1>4. UninstallInv' /\ NewInv'
  BY <1>1 DEF LInv, UninstallInv, NewInv, Uninstalling, Creating, IsLoaded, There, Kept, Good, reload, LoadPc
<1> QED BY <1>2, <1>3, <1>4 DEF LInv

-----------------------------------------------------------------------------
(* The steps of a reload: the thread that takes them is the only one that  *)
(* loads, before and after.                                                *)

LEMMA OnlyOne ==
  ASSUME LoaderType, LInv, NEW t \in Threads, NEW from \in LoadPc, NEW to, On(t, from, to)
  PROVE  /\ holder = t /\ holder # Null /\ loaded = None /\ count \in Number
         /\ pc[t] = from /\ pc'[t] = to
         /\ \A u \in Threads \ {t} : pc'[u] = pc[u] /\ pc'[u] \notin LoadPc
<1>1. pc[t] = from /\ pc'[t] = to /\ \A u \in Threads \ {t} : pc'[u] = pc[u]
  BY DEF On, LoaderType
<1>2. holder = t /\ holder # Null /\ \A u \in Threads \ {t} : pc[u] \notin LoadPc
  BY <1>1, LoaderAssumption DEF HolderInv, LInv
<1> QED BY <1>1, <1>2 DEF LInv, FreshInv

\* A reload that goes on, and one that is over.
LEMMA GoesOn ==
  ASSUME NEW t \in Threads, holder' = t, t # Null, pc'[t] \in LoadPc,
         \A u \in Threads \ {t} : pc'[u] \notin LoadPc,
         Uninstalling(t)', Creating(t)', FreshInv'
  PROVE  LInv'
BY DEF LInv, HolderInv, FreeInv, UninstallInv, NewInv, Uninstalling, Creating, LoadPc

LEMMA IsOver ==
  ASSUME LoaderType, NEW t \in Threads, holder' = Null, FreeInv',
         \A u \in Threads : pc'[u] \notin LoadPc,
         \A n \in Number : n > count' => outcome'[n] = "none" /\ n \notin ro'.nrr
  PROVE  LInv'
<1>1. HolderInv'
  BY LoaderAssumption DEF HolderInv
<1> QED BY <1>1 DEF LInv, UninstallInv, NewInv, FreshInv, Uninstalling, Creating, LoadPc

LEMMA LockStep ==
  ASSUME LoaderType, LInv, NEW t \in Threads, Lock(t), count < MaxLoads
  PROVE  LInv'
<1>1. /\ holder = Null /\ holder' = t /\ count' = count + 1 /\ loaded' = None
      /\ plugin' = [plugin EXCEPT ![t] = loaded]
      /\ pc' = [pc EXCEPT ![t] = IF loaded = None THEN "read" ELSE "unregister"]
      /\ UNCHANGED <<image, heap, ro, outcome>>
  BY DEF Lock, On, CanLock, unwindVars
<1>2. /\ \A u \in Threads : pc[u] \notin LoadPc
      /\ t # Null /\ count' \in Number /\ count \in Nat /\ plugin'[t] = loaded
  BY <1>1, LoaderAssumption DEF LInv, HolderInv, LoaderType, Number
<1>3. /\ pc'[t] = IF loaded = None THEN "read" ELSE "unregister"
      /\ \A u \in Threads \ {t} : pc'[u] \notin LoadPc
  BY <1>1, <1>2 DEF LoaderType
<1>4. outcome'[count'] = "none" /\ count' \notin ro'.nrr
  BY <1>1, <1>2 DEF LInv, FreshInv
<1>5. FreshInv'
  BY <1>1, <1>2, <1>3, <1>4 DEF LInv, FreshInv, LoadPc, Number
<1>6. CASE loaded = None
  <2>1. There({}, {}, {}, {})
    BY <1>1, <1>6 DEF LInv, FreeInv, IsLoaded, None
  <2>2. There({}, {}, {}, {})'
    BY <2>1, <1>1 DEF There, Good, DevSlots, Kept
  <2>3. Uninstalling(t)' /\ Creating(t)'
    BY <2>2, <1>3, <1>6 DEF Uninstalling, Creating
  <2> QED BY <2>3, <1>1, <1>2, <1>3, <1>5, <1>6, GoesOn DEF LoadPc
<1>7. CASE loaded # None
  <2>1. IsLoaded(loaded) /\ There({loaded.n}, {loaded.n}, {loaded.slot}, {})
    BY <1>1, <1>7 DEF LInv, FreeInv
  <2>2. (IsLoaded(plugin[t]) /\ There({plugin[t].n}, {plugin[t].n}, {plugin[t].slot}, {}))'
    BY <2>1, <1>1, <1>2 DEF There, Good, DevSlots, Kept, IsLoaded
  <2>3. Uninstalling(t)' /\ Creating(t)'
    BY <2>2, <1>3, <1>7 DEF Uninstalling, Creating
  <2> QED BY <2>3, <1>1, <1>2, <1>3, <1>5, <1>7, GoesOn DEF LoadPc
<1> QED BY <1>6, <1>7

LEMMA UnregisterStep ==
  ASSUME LoaderType, LInv, NEW t \in Threads, Unregister(t)
  PROVE  LInv'
<1>1. On(t, "unregister", "unload") /\ UNCHANGED <<image, reload>>
  BY DEF Unregister
<1>2. /\ holder = t /\ holder # Null /\ loaded = None /\ count \in Number
      /\ pc[t] = "unregister" /\ pc'[t] = "unload"
      /\ \A u \in Threads \ {t} : pc'[u] = pc[u] /\ pc'[u] \notin LoadPc
  BY <1>1, OnlyOne DEF LoadPc
<1>3. Uninstalling(t)' /\ Creating(t)'
  BY <1>1, <1>2
  DEF LInv, UninstallInv, Uninstalling, Creating, There, Kept, Good, DevSlots, IsLoaded, reload
<1>4. FreshInv'
  BY <1>1, <1>2 DEF LInv, FreshInv, reload, LoadPc
<1> QED BY <1>1, <1>2, <1>3, <1>4, GoesOn DEF LoadPc, reload

LEMMA UnloadModuleStep ==
  ASSUME LoaderType, LInv, NEW t \in Threads, UnloadModule(t)
  PROVE  LInv'
<1> DEFINE p == plugin[t]
<1>1. /\ On(t, "unload", "forget") /\ image' = [image EXCEPT ![p.slot] = Null]
      /\ ro' = [ro EXCEPT !.nro = @ \ {p.n}]
      /\ UNCHANGED <<holder, loaded, plugin, count, heap, outcome>>
  BY DEF UnloadModule
<1>2. /\ holder = t /\ holder # Null /\ loaded = None /\ count \in Number
      /\ pc[t] = "unload" /\ pc'[t] = "forget"
      /\ \A u \in Threads \ {t} : pc'[u] = pc[u] /\ pc'[u] \notin LoadPc
  BY <1>1, OnlyOne DEF LoadPc
<1>3. IsLoaded(p) /\ There({p.n}, {p.n}, {p.slot}, {})
  BY <1>2 DEF LInv, UninstallInv, Uninstalling
<1>4. ro'.nro = {} /\ ro'.nrr = ro.nrr
  BY <1>1, <1>3 DEF There, LoaderType
<1>5. DevSlots' = {}
  <2>1. DevSlots = {p.slot} /\ Null \notin Dev
    BY <1>3, LoaderAssumption, UnwindAssumption DEF There
  <2> QED BY <2>1, <1>1 DEF DevSlots, LoaderType
<1>6. (IsLoaded(plugin[t]) /\ There({}, {plugin[t].n}, {}, {}))'
  BY <1>1, <1>3, <1>4, <1>5 DEF There, IsLoaded, Kept, Good
<1>7. FreshInv'
  BY <1>1, <1>2, <1>4 DEF LInv, FreshInv, LoadPc
<1> QED BY <1>1, <1>2, <1>6, <1>7, GoesOn DEF LoadPc, Uninstalling, Creating

LEMMA UnregisterModuleInfoStep ==
  ASSUME LoaderType, LInv, NEW t \in Threads, UnregisterModuleInfo(t)
  PROVE  LInv'
<1> DEFINE p == plugin[t]
<1>1. /\ On(t, "forget", "read") /\ ro' = [ro EXCEPT !.nrr = @ \ {p.n}]
      /\ UNCHANGED <<image, holder, loaded, plugin, count, heap, outcome>>
  BY DEF UnregisterModuleInfo, unwindVars
<1>2. /\ holder = t /\ holder # Null /\ loaded = None /\ count \in Number
      /\ pc[t] = "forget" /\ pc'[t] = "read"
      /\ \A u \in Threads \ {t} : pc'[u] = pc[u] /\ pc'[u] \notin LoadPc
  BY <1>1, OnlyOne DEF LoadPc
<1>3. IsLoaded(p) /\ There({}, {p.n}, {}, {})
  BY <1>2 DEF LInv, UninstallInv, Uninstalling
<1>4. ro'.nro = ro.nro /\ ro'.nrr = ro.nrr \ {p.n}
  BY <1>1 DEF LoaderType
<1>5. Good' = {}
  BY <1>1, <1>3, <1>4 DEF There, Good
<1>6. There({}, {}, {}, {})'
  BY <1>1, <1>3, <1>4, <1>5 DEF There, IsLoaded, Kept, DevSlots
<1>7. FreshInv'
  BY <1>1, <1>2, <1>4 DEF LInv, FreshInv, LoadPc
<1> QED BY <1>1, <1>2, <1>6, <1>7, GoesOn DEF LoadPc, Uninstalling, Creating

\* What is allocated for the plugin that is on its way is nobody else's.
LEMMA Freed ==
  ASSUME count \in Number, outcome[count] # "loaded", NEW buffers,
         heap = Kept \cup ({count} \X buffers)
  PROVE  heap \ ({count} \X buffers) = Kept
BY DEF Kept

LEMMA FailsStep ==
  ASSUME LoaderType, LInv, NEW t \in Threads, NEW from \in LoadPc, NEW buffers,
         Fails(t, from, buffers), There({}, {}, {}, {})',
         \A n \in Number : n > count => outcome'[n] = outcome[n]
  PROVE  LInv'
<1>1. /\ On(t, from, After(t)) /\ holder' = Null
      /\ UNCHANGED <<image, loaded, count, ro>>
  BY DEF Fails, Released, unwindVars
<1>2. /\ loaded = None /\ pc'[t] = After(t)
      /\ \A u \in Threads \ {t} : pc'[u] = pc[u] /\ pc'[u] \notin LoadPc
  BY <1>1, OnlyOne
<1>3. \A u \in Threads : pc'[u] \notin LoadPc
  BY <1>2 DEF After, LoadPc
<1>4. FreeInv'
  BY <1>1, <1>2 DEF FreeInv
<1>5. \A n \in Number : n > count' => outcome'[n] = "none" /\ n \notin ro'.nrr
  BY <1>1 DEF LInv, FreshInv
<1> QED BY <1>1, <1>3, <1>4, <1>5, IsOver

LEMMA ReadFileStep ==
  ASSUME LoaderType, LInv, NEW t \in Threads, ReadFile(t)
  PROVE  LInv'
<1>1. CASE Fails(t, "read", {}) /\ UNCHANGED outcome
  <2>1. /\ On(t, "read", After(t)) /\ heap' = heap /\ UNCHANGED <<image, count, ro>>
    BY <1>1 DEF Fails, unwindVars, Its
  <2>2. There({}, {}, {}, {})
    BY <2>1 DEF LInv, NewInv, Creating, On
  <2>3. There({}, {}, {}, {})'
    BY <1>1, <2>1, <2>2 DEF There, Kept, Good, DevSlots
  <2> QED BY <1>1, <2>3, FailsStep DEF LoadPc
<1>2. CASE /\ On(t, "read", "size")
           /\ plugin' = [plugin EXCEPT ![t] = [n |-> count, slot |-> 0]]
           /\ heap' = heap \cup {<<count, "nro">>}
           /\ Aside /\ UNCHANGED <<unwindVars, holder, loaded, count, ro, outcome>>
  <2>1. On(t, "read", "size") /\ UNCHANGED <<image, holder, loaded, count, ro, outcome>>
    BY <1>2 DEF unwindVars
  <2>2. /\ holder = t /\ holder # Null /\ loaded = None /\ count \in Number
        /\ pc[t] = "read" /\ pc'[t] = "size"
        /\ \A u \in Threads \ {t} : pc'[u] = pc[u] /\ pc'[u] \notin LoadPc
    BY <2>1, OnlyOne DEF LoadPc
  <2>3. There({}, {}, {}, {}) /\ plugin'[t].n = count'
    BY <1>2, <2>2 DEF LInv, NewInv, Creating, LoaderType
  <2>4. There({}, {}, {}, {"nro"})'
    BY <1>2, <2>1, <2>3 DEF There, Kept, Good, DevSlots
  <2>5. FreshInv'
    BY <2>1, <2>2 DEF LInv, FreshInv, LoadPc
  <2> QED BY <2>1, <2>2, <2>3, <2>4, <2>5, GoesOn DEF LoadPc, Uninstalling, Creating
<1> QED BY <1>1, <1>2 DEF ReadFile

LEMMA GetBufferSizeStep ==
  ASSUME LoaderType, LInv, NEW t \in Threads, GetBufferSize(t)
  PROVE  LInv'
<1>1. CASE Fails(t, "size", {"nro"}) /\ UNCHANGED outcome
  <2>1. /\ On(t, "size", After(t)) /\ heap' = heap \ Its(t, {"nro"})
        /\ UNCHANGED <<image, count, ro>>
    BY <1>1 DEF Fails, unwindVars
  <2>2. /\ There({}, {}, {}, {"nro"}) /\ plugin[t].n = count
        /\ count \in Number /\ outcome[count] = "none"
    BY <2>1, OnlyOne DEF LInv, NewInv, Creating, FreshInv, LoadPc, On
  <2>3. heap' = Kept
    BY <2>1, <2>2, Freed DEF There, Its
  <2>4. There({}, {}, {}, {})'
    BY <1>1, <2>1, <2>2, <2>3 DEF There, Kept, Good, DevSlots
  <2> QED BY <1>1, <2>4, FailsStep DEF LoadPc
<1>2. CASE /\ On(t, "size", "register") /\ heap' = heap \cup Its(t, {"nrr"})
           /\ Aside /\ UNCHANGED <<unwindVars, holder, loaded, plugin, count, ro, outcome>>
  <2>1. On(t, "size", "register") /\ UNCHANGED <<image, holder, loaded, plugin, count, ro, outcome>>
    BY <1>2 DEF unwindVars
  <2>2. /\ holder = t /\ holder # Null /\ loaded = None /\ count \in Number
        /\ pc[t] = "size" /\ pc'[t] = "register"
        /\ \A u \in Threads \ {t} : pc'[u] = pc[u] /\ pc'[u] \notin LoadPc
    BY <2>1, OnlyOne DEF LoadPc
  <2>3. There({}, {}, {}, {"nro"}) /\ plugin[t].n = count
    BY <2>2 DEF LInv, NewInv, Creating
  <2>4. There({}, {}, {}, {"nro", "nrr"})'
    BY <1>2, <2>1, <2>3 DEF There, Kept, Good, DevSlots, Its
  <2>5. FreshInv'
    BY <2>1, <2>2 DEF LInv, FreshInv, LoadPc
  <2> QED BY <2>1, <2>2, <2>3, <2>4, <2>5, GoesOn DEF LoadPc, Uninstalling, Creating
<1> QED BY <1>1, <1>2 DEF GetBufferSize

LEMMA RegisterModuleInfoStep ==
  ASSUME LoaderType, LInv, NEW t \in Threads, RegisterModuleInfo(t)
  PROVE  LInv'
<1>1. CASE Fails(t, "register", Allocated) /\ UNCHANGED outcome
  <2>1. /\ On(t, "register", After(t)) /\ heap' = heap \ Its(t, Allocated)
        /\ UNCHANGED <<image, count, ro>>
    BY <1>1 DEF Fails, unwindVars
  <2>2. /\ There({}, {}, {}, {"nro", "nrr"}) /\ plugin[t].n = count
        /\ count \in Number /\ outcome[count] = "none"
    BY <2>1, OnlyOne DEF LInv, NewInv, Creating, FreshInv, LoadPc, On
  <2>3. heap' = Kept
    BY <2>1, <2>2, Freed DEF There, Its, Allocated
  <2>4. There({}, {}, {}, {})'
    BY <1>1, <2>1, <2>2, <2>3 DEF There, Kept, Good, DevSlots
  <2> QED BY <1>1, <2>4, FailsStep DEF LoadPc
<1>2. CASE /\ On(t, "register", "load") /\ heap' = heap \cup Its(t, {"bss"})
           /\ ro' = [ro EXCEPT !.nrr = @ \cup {plugin[t].n}]
           /\ Aside /\ UNCHANGED <<unwindVars, holder, loaded, plugin, count, outcome>>
  <2>1. On(t, "register", "load") /\ UNCHANGED <<image, holder, loaded, plugin, count, outcome>>
    BY <1>2 DEF unwindVars
  <2>2. /\ holder = t /\ holder # Null /\ loaded = None /\ count \in Number
        /\ pc[t] = "register" /\ pc'[t] = "load"
        /\ \A u \in Threads \ {t} : pc'[u] = pc[u] /\ pc'[u] \notin LoadPc
    BY <2>1, OnlyOne DEF LoadPc
  <2>3. /\ There({}, {}, {}, {"nro", "nrr"}) /\ plugin[t].n = count /\ outcome[count] = "none"
    BY <2>2 DEF LInv, NewInv, Creating, FreshInv, LoadPc
  <2>4. ro'.nro = ro.nro /\ ro'.nrr = ro.nrr \cup {count}
    BY <1>2, <2>3 DEF LoaderType
  <2>5. Good' = {count} /\ DevSlots' = {}
    BY <2>1, <2>2, <2>3, <2>4 DEF There, Good, DevSlots
  <2>6. heap' = Kept' \cup ({count'} \X Buffer)
    BY <1>2, <2>1, <2>3 DEF There, Its, Buffer, Kept
  <2>7. There({}, {count}, {}, Buffer)'
    BY <2>1, <2>3, <2>4, <2>5, <2>6 DEF There
  <2>8. FreshInv'
    BY <2>1, <2>2, <2>3, <2>4 DEF LInv, FreshInv, LoadPc, Number
  <2> QED BY <2>1, <2>2, <2>3, <2>7, <2>8, GoesOn DEF LoadPc, Uninstalling, Creating
<1> QED BY <1>1, <1>2 DEF RegisterModuleInfo

LEMMA LoadModuleStep ==
  ASSUME LoaderType, LInv, NEW t \in Threads, LoadModule(t)
  PROVE  LInv'
<1>0. CASE pc[t] # "load"
  BY <1>0 DEF LoadModule, Fails, On
<1> SUFFICES ASSUME pc[t] = "load" PROVE LInv'
  BY <1>0
<1>1. /\ There({}, {count}, {}, Buffer) /\ plugin[t].n = count
      /\ holder = t /\ count \in Number /\ outcome[count] = "none"
  BY LoaderAssumption DEF LInv, HolderInv, NewInv, Creating, FreshInv, LoadPc
<1>2. CASE Fails(t, "load", Buffer) /\ outcome' = [outcome EXCEPT ![plugin[t].n] = "failed"]
  <2>1. /\ On(t, "load", After(t)) /\ heap' = heap \ Its(t, Buffer)
        /\ UNCHANGED <<image, count, ro>>
    BY <1>2 DEF Fails, unwindVars
  <2>2. outcome'[count] = "failed" /\ \A n \in Number \ {count} : outcome'[n] = outcome[n]
    BY <1>1, <1>2 DEF LoaderType
  <2>3. heap' = Kept
    BY <1>1, <2>1, Freed DEF There, Its
  <2>4. Kept' = Kept /\ Good' = {} /\ DevSlots' = {}
    <3>1. Kept' = Kept
      BY <1>1, <2>2 DEF Kept
    <3>2. \A n \in ro.nrr : n \in Number /\ (n # count => outcome[n] = "failed")
      BY <1>1 DEF There, Good, LoaderType
    <3>3. Good' = {}
      BY <2>1, <2>2, <3>2 DEF Good
    <3> QED BY <1>1, <2>1, <3>1, <3>3 DEF There, DevSlots
  <2>5. There({}, {}, {}, {})'
    BY <1>1, <2>1, <2>3, <2>4 DEF There
  <2> QED BY <1>1, <1>2, <2>2, <2>5, FailsStep DEF LoadPc, Number
<1>3. ASSUME On(t, "load", "install"),
             NEW k \in SlotsOf(Null), NEW b \in Dev,
             image' = [image EXCEPT ![k] = b], plugin' = [plugin EXCEPT ![t].slot = k],
             ro' = [ro EXCEPT !.nro = @ \cup {plugin[t].n}],
             outcome' = [outcome EXCEPT ![plugin[t].n] = "loaded"],
             UNCHANGED <<holder, loaded, count, heap>>
      PROVE  LInv'
  <2>2. /\ holder = t /\ holder # Null /\ loaded = None /\ count \in Number
        /\ pc[t] = "load" /\ pc'[t] = "install"
        /\ \A u \in Threads \ {t} : pc'[u] = pc[u] /\ pc'[u] \notin LoadPc
    BY <1>3, OnlyOne DEF LoadPc
  <2>3. outcome'[count] = "loaded" /\ \A n \in Number \ {count} : outcome'[n] = outcome[n]
    BY <1>1, <1>3 DEF LoaderType
  <2>4. plugin'[t].n = count /\ plugin'[t].slot = k
    BY <1>1, <1>3 DEF LoaderType, Loaded
  <2>5. ro'.nro = {count} /\ ro'.nrr = ro.nrr
    BY <1>1, <1>3 DEF LoaderType, There
  <2>6. Good' = {count}
    BY <1>1, <2>3, <2>5, <2>2 DEF There, Good, LoaderType
  <2>7. DevSlots' = {k}
    BY <1>1, <1>3 DEF There, DevSlots, SlotsOf, LoaderType
  <2>8. heap' = Kept' \cup ({count'} \X {})
    BY <1>1, <1>3, <2>3 DEF There, Kept
  <2>9. IsLoaded(plugin[t])' /\ There({count}, {count}, {plugin[t].slot}, {})'
    BY <1>3, <2>2, <2>3, <2>4, <2>5, <2>6, <2>7, <2>8 DEF There, IsLoaded, Number
  <2>10. FreshInv'
    BY <1>3, <2>2, <2>3, <2>5 DEF LInv, FreshInv, LoadPc, Number
  <2> QED BY <1>3, <2>2, <2>4, <2>9, <2>10, GoesOn DEF LoadPc, Uninstalling, Creating
<1> QED BY <1>2, <1>3 DEF LoadModule

LEMMA InstallStep ==
  ASSUME LoaderType, LInv, NEW t \in Threads, Install(t)
  PROVE  LInv'
<1>1. CASE On(t, "install", "install") /\ UNCHANGED <<image, reload>>
  <2>1. pc' = pc
    BY <1>1 DEF On, LoaderType
  <2> QED BY <1>1, <2>1, Bystanders DEF DevSlots
<1>2. CASE /\ On(t, "install", After(t)) /\ holder' = Null
           /\ loaded' = plugin[t] /\ plugin' = [plugin EXCEPT ![t] = None]
           /\ UNCHANGED <<image, count, heap, ro, outcome>>
  <2>2. /\ pc[t] = "install" /\ pc'[t] = After(t)
        /\ \A u \in Threads \ {t} : pc'[u] = pc[u] /\ pc'[u] \notin LoadPc
    BY <1>2, OnlyOne DEF LoadPc
  <2>3. \A u \in Threads : pc'[u] \notin LoadPc
    BY <2>2 DEF After, LoadPc
  <2>4. /\ IsLoaded(plugin[t]) /\ There({count}, {count}, {plugin[t].slot}, {})
        /\ plugin[t].n = count
    BY <2>2 DEF LInv, NewInv, Creating
  <2>5. FreeInv'
    BY <1>2, <2>4 DEF FreeInv, IsLoaded, There, Kept, Good, DevSlots
  <2>6. \A n \in Number : n > count' => outcome'[n] = "none" /\ n \notin ro'.nrr
    BY <1>2 DEF LInv, FreshInv
  <2> QED BY <1>2, <2>3, <2>5, <2>6, IsOver
<1> QED BY <1>1, <1>2 DEF Install, Released, unwindVars

-----------------------------------------------------------------------------
(* Types, and the bound on the loads.                                      *)

LEMMA InitHolds == Init => IInv
<1> SUFFICES ASSUME Init PROVE IInv
  OBVIOUS
<1> USE LoaderAssumption, UnwindAssumption
<1>1. image \in [Slot -> Image \cup {Null}] /\ DevSlots = {}
  <2>1. \A k \in Slot : image[k] \in Resident \cup {Game, Null}
    BY DEF Init, UnwindInit
  <2>2. image \in [Slot -> Resident \cup {Game, Null}]
    BY <2>1 DEF Init, UnwindInit
  <2> QED BY <2>1, <2>2 DEF DevSlots
<1>2. LoaderType
  <2>1. None \in Loaded /\ pc \in [Threads -> Pc]
    BY DEF Init, None, Loaded, Slot, Pc
  <2>2. timer = 0 /\ polls = Period /\ count = 0 /\ overlap \in BOOLEAN
    BY DEF Init
  <2>4. timer \in 0..W - 1 /\ polls \in 0..Period /\ count \in 0..MaxLoads
    BY <2>2
  <2>3. /\ plugin \in [Threads -> Loaded] /\ outcome \in [Number -> {"none", "failed", "loaded"}]
        /\ loaded \in Loaded /\ ro \in [nrr : SUBSET Number, nro : SUBSET Number]
    BY <2>1 DEF Init
  <2> QED BY <1>1, <2>1, <2>2, <2>3, <2>4 DEF Init, LoaderType
<1>3. \A t \in Threads : pc[t] \notin LoadPc
  BY DEF Init, LoadPc
<1>4. There({}, {}, {}, {})
  <2>1. Kept = {} /\ Good = {}
    BY DEF Init, Kept, Good
  <2> QED BY <1>1, <2>1 DEF Init, There
<1>5. HolderInv /\ FreeInv /\ FreshInv
  BY <1>3, <1>4 DEF Init, HolderInv, FreeInv, FreshInv, LoadPc
<1>6. UninstallInv /\ NewInv
  BY <1>3 DEF UninstallInv, NewInv, Uninstalling, Creating, LoadPc
<1>7. CountInv
  <2>1. Waiting \subseteq {Poller}
    BY DEF Init, Waiting
  <2>2. IsFiniteSet({Poller}) /\ Cardinality({Poller}) = 1
    BY FS_Singleton
  <2>3. Cardinality(Waiting) \in Nat /\ Cardinality(Waiting) <= 1
    BY <2>1, <2>2, FS_Subset, FS_CardinalityType
  <2> QED BY <2>3 DEF Init, CountInv
<1> QED BY <1>2, <1>5, <1>6, <1>7 DEF IInv, LInv

LEMMA WaitingFinite == IsFiniteSet(Waiting) /\ Cardinality(Waiting) \in Nat
<1>1. IsFiniteSet(Threads)
  BY LoaderAssumption, FS_AddElement
<1> QED BY <1>1, FS_Subset, FS_CardinalityType DEF Waiting

LEMMA CountStep ==
  ASSUME LoaderType, CountInv, Next
  PROVE  CountInv'
<1> USE WaitingFinite
<1>1. ASSUME NEW t \in Threads, HidHook(t) PROVE CountInv'
  <2>1. PICK next \in {"decrement", "idle", "lock"} :
          /\ next = "lock" => Pressed
          /\ pc' = [pc EXCEPT ![t] = next] /\ pc[t] = "idle" /\ count' = count
    BY <1>1 DEF HidHook, reload
  <2>2. CASE next = "lock"
    <3>1. Waiting' = Waiting \cup {t} /\ t \notin Waiting
      BY <2>1, <2>2 DEF Waiting, LoaderType
    <3>2. Cardinality(Waiting') = Cardinality(Waiting) + 1
      BY <3>1, FS_AddElement
    <3>3. count + Cardinality(Waiting) < MaxLoads
      BY <2>1, <2>2 DEF Pressed, Waiting
    <3> QED BY <2>1, <3>2, <3>3, LoaderAssumption DEF CountInv, LoaderType
  <2>3. CASE next # "lock"
    <3>1. Waiting' = Waiting
      BY <2>1, <2>3 DEF Waiting, LoaderType
    <3> QED BY <2>1, <3>1 DEF CountInv
  <2> QED BY <2>2, <2>3
<1>2. ASSUME PollControllers PROVE CountInv'
  <2>1. Pressed /\ pc' = [pc EXCEPT ![Poller] = "lock"] /\ pc[Poller] = "idle" /\ count' = count
    BY <1>2 DEF PollControllers, reload
  <2>2. Waiting' = Waiting \cup {Poller} /\ Poller \notin Waiting
    BY <2>1 DEF Waiting, LoaderType
  <2>3. Cardinality(Waiting') = Cardinality(Waiting) + 1
    BY <2>2, FS_AddElement
  <2>4. count + Cardinality(Waiting) < MaxLoads
    BY <2>1 DEF Pressed, Waiting
  <2> QED BY <2>1, <2>3, <2>4, LoaderAssumption DEF CountInv, LoaderType
<1>3. ASSUME NEW t \in Threads, Lock(t) PROVE CountInv'
  <2>1. /\ pc[t] = "lock" /\ count' = count + 1
        /\ pc' = [pc EXCEPT ![t] = IF loaded = None THEN "read" ELSE "unregister"]
    BY <1>3 DEF Lock, On
  <2>2. Waiting' = Waiting \ {t} /\ t \in Waiting
    BY <2>1 DEF Waiting, LoaderType
  <2>3. Cardinality(Waiting') = Cardinality(Waiting) - 1
    BY <2>2, FS_RemoveElement
  <2> QED BY <2>1, <2>3, LoaderAssumption DEF CountInv, LoaderType
<1>4. ASSUME NEW t \in Threads, Decrement(t) \/ StorePeriod(t) \/ Loads(t) PROVE CountInv'
  <2>1. /\ count' = count /\ pc[t] # "lock"
        /\ \E to \in Pc \ {"lock"} : pc' = [pc EXCEPT ![t] = to]
    BY <1>4
    DEF Decrement, StorePeriod, Loads, Unregister, UnloadModule, UnregisterModuleInfo, ReadFile,
        GetBufferSize, RegisterModuleInfo, LoadModule, Install, Fails, On, After, Pc, reload
  <2>2. Waiting' = Waiting
    BY <2>1 DEF Waiting, LoaderType
  <2> QED BY <2>1, <2>2 DEF CountInv
<1>5. ASSUME Players PROVE CountInv'
  BY <1>5 DEF Players, loaderVars, CountInv, Waiting
<1> QED BY <1>1, <1>2, <1>3, <1>4, <1>5 DEF Next

LEMMA Within ==
  ASSUME LoaderType, CountInv, NEW t \in Threads, pc[t] = "lock"
  PROVE  count < MaxLoads
<1>1. t \in Waiting
  BY DEF Waiting
<1>2. Cardinality(Waiting) # 0
  BY <1>1, WaitingFinite, FS_EmptySet
<1> QED BY <1>2, WaitingFinite, LoaderAssumption DEF CountInv, LoaderType

-----------------------------------------------------------------------------
(* Every step.                                                             *)

LEMMA SlotIsZero == 0 \in Slot
BY UnwindAssumption DEF Slot

LEMMA FailsType ==
  ASSUME LoaderType, NEW t \in Threads, NEW from, NEW buffers, Fails(t, from, buffers),
         outcome' \in [Number -> {"none", "failed", "loaded"}]
  PROVE  LoaderType'
<1>1. None \in Loaded /\ pc' \in [Threads -> Pc]
  BY LoaderAssumption, SlotIsZero DEF Fails, On, After, None, Loaded, Pc, LoaderType
<1>2. plugin' \in [Threads -> Loaded]
  BY <1>1 DEF Fails, LoaderType
<1> QED BY <1>1, <1>2 DEF Fails, Released, Aside, unwindVars, LoaderType

LEMMA TypeStep ==
  ASSUME IInv, Next
  PROVE  LoaderType'
<1> USE LoaderAssumption DEF LoaderType, IInv
<1>1. ASSUME NEW t \in Threads, HidHook(t) PROVE LoaderType'
  <2>1. \E next \in Pc : pc' = [pc EXCEPT ![t] = next]
    BY <1>1 DEF HidHook, Pc
  <2>2. polls' \in 0..Period /\ overlap' \in BOOLEAN
    BY <1>1 DEF HidHook, Polled
  <2> QED BY <1>1, <2>1, <2>2 DEF HidHook, unwindVars, reload
<1>2. ASSUME NEW t \in Threads, Decrement(t) PROVE LoaderType'
  <2>1. timer' \in 0..W - 1
    BY <1>2 DEF Decrement, Decremented
  <2> QED BY <1>2, <2>1 DEF Decrement, unwindVars, reload, Pc
<1>3. ASSUME NEW t \in Threads, StorePeriod(t) PROVE LoaderType'
  BY <1>3 DEF StorePeriod, unwindVars, reload, Pc
<1>4. ASSUME PollControllers PROVE LoaderType'
  BY <1>4 DEF PollControllers, unwindVars, reload, Pc
<1>5. ASSUME NEW t \in Threads, Lock(t) PROVE LoaderType'
  <2>1. count' \in 0..MaxLoads
    BY <1>5, Within DEF Lock, On
  <2>2. None \in Loaded /\ pc' \in [Threads -> Pc]
    BY <1>5, SlotIsZero DEF Lock, On, None, Loaded, Pc
  <2> QED BY <1>5, <2>1, <2>2 DEF Lock, Aside, unwindVars
<1>6. ASSUME NEW t \in Threads, Loads(t) PROVE LoaderType'
  <2>1. ASSUME Unregister(t) PROVE LoaderType'
    BY <2>1 DEF Unregister, On, Aside, reload, Pc
  <2>2. ASSUME UnloadModule(t) PROVE LoaderType'
    BY <2>2 DEF UnloadModule, On, Aside, Pc
  <2>3. ASSUME UnregisterModuleInfo(t) PROVE LoaderType'
    BY <2>3 DEF UnregisterModuleInfo, On, Aside, unwindVars, Pc
  <2>4. ASSUME ReadFile(t) PROVE LoaderType'
    <3>1. CASE Fails(t, "read", {}) /\ UNCHANGED outcome
      BY <3>1, FailsType
    <3>2. CASE ~Fails(t, "read", {})
      <4>1. /\ On(t, "read", "size")
            /\ plugin' = [plugin EXCEPT ![t] = [n |-> count, slot |-> 0]]
            /\ heap' = heap \cup {<<count, "nro">>}
            /\ Aside /\ UNCHANGED <<unwindVars, holder, loaded, count, ro, outcome>>
        BY <2>4, <3>2 DEF ReadFile
      <4>2. count \in Number
        BY <4>1, OnlyOne DEF LoadPc
      <4>3. plugin' \in [Threads -> Loaded] /\ heap' \subseteq Number \X Buffer
        BY <4>1, <4>2, SlotIsZero DEF Loaded, Buffer
      <4> QED BY <4>1, <4>3 DEF On, Aside, unwindVars, Pc
    <3> QED BY <2>4, <3>1, <3>2 DEF ReadFile
  <2>5. ASSUME GetBufferSize(t) PROVE LoaderType'
    <3>1. CASE Fails(t, "size", {"nro"}) /\ UNCHANGED outcome
      BY <3>1, FailsType
    <3>2. CASE ~Fails(t, "size", {"nro"})
      <4>1. /\ On(t, "size", "register") /\ heap' = heap \cup Its(t, {"nrr"})
            /\ Aside /\ UNCHANGED <<unwindVars, holder, loaded, plugin, count, ro, outcome>>
        BY <2>5, <3>2 DEF GetBufferSize
      <4>2. plugin[t].n = count /\ count \in Number
        BY <4>1, OnlyOne DEF LoadPc, LInv, NewInv, Creating, On
      <4> QED BY <4>1, <4>2 DEF On, Its, Buffer, Aside, unwindVars, Pc
    <3> QED BY <2>5, <3>1, <3>2 DEF GetBufferSize
  <2>6. ASSUME RegisterModuleInfo(t) PROVE LoaderType'
    <3>1. CASE Fails(t, "register", Allocated) /\ UNCHANGED outcome
      BY <3>1, FailsType
    <3>2. CASE ~Fails(t, "register", Allocated)
      <4>1. /\ On(t, "register", "load") /\ heap' = heap \cup Its(t, {"bss"})
            /\ ro' = [ro EXCEPT !.nrr = @ \cup {plugin[t].n}]
            /\ Aside /\ UNCHANGED <<unwindVars, holder, loaded, plugin, count, outcome>>
        BY <2>6, <3>2 DEF RegisterModuleInfo
      <4>2. plugin[t].n = count /\ count \in Number
        BY <4>1, OnlyOne DEF LoadPc, LInv, NewInv, Creating, On
      <4> QED BY <4>1, <4>2 DEF On, Its, Buffer, Aside, unwindVars, Pc
    <3> QED BY <2>6, <3>1, <3>2 DEF RegisterModuleInfo
  <2>7. ASSUME LoadModule(t) PROVE LoaderType'
    <3> DEFINE failed == /\ Fails(t, "load", Buffer)
                         /\ outcome' = [outcome EXCEPT ![plugin[t].n] = "failed"]
    <3>1. CASE failed
      BY <3>1, FailsType
    <3>2. CASE ~failed
      <4>1. PICK k \in SlotsOf(Null), b \in Dev :
              /\ image' = [image EXCEPT ![k] = b] /\ plugin' = [plugin EXCEPT ![t].slot = k]
        BY <2>7, <3>2 DEF LoadModule
      <4>2. /\ On(t, "load", "install") /\ ro' = [ro EXCEPT !.nro = @ \cup {plugin[t].n}]
            /\ outcome' = [outcome EXCEPT ![plugin[t].n] = "loaded"]
            /\ Aside /\ UNCHANGED <<holder, loaded, count, heap>>
        BY <2>7, <3>2 DEF LoadModule
      <4>3. plugin[t].n = count /\ count \in Number
        BY <4>2, OnlyOne DEF LoadPc, LInv, NewInv, Creating, On
      <4>4. plugin' \in [Threads -> Loaded]
        BY <4>1 DEF Loaded, SlotsOf
      <4>5. image' \in [Slot -> Image \cup {Null}]
        BY <4>1 DEF SlotsOf
      <4> QED BY <4>2, <4>3, <4>4, <4>5 DEF On, Aside, Pc
    <3> QED BY <3>1, <3>2
  <2>8. ASSUME Install(t) PROVE LoaderType'
    <3>1. None \in Loaded /\ image' = image
      BY <2>8, SlotIsZero DEF Install, None, Loaded, unwindVars
    <3> QED BY <2>8, <3>1 DEF Install, On, After, Released, Aside, reload, Pc
  <2> QED BY <1>6, <2>1, <2>2, <2>3, <2>4, <2>5, <2>6, <2>7, <2>8 DEF Loads
<1>7. ASSUME Players PROVE LoaderType'
  <2>1. image' = image
    BY <1>7 DEF Players, PluginRegisters, Throw, Unwinds, StepReplace, MakeInfo, CustomEhPersonality
  <2> QED BY <1>7, <2>1 DEF Players, loaderVars
<1> QED BY <1>1, <1>2, <1>3, <1>4, <1>5, <1>6, <1>7 DEF Next

LEMMA ReloadStep ==
  ASSUME IInv, Next
  PROVE  LInv'
<1> USE DEF IInv
<1>1. ASSUME NEW t \in Threads, HidHook(t) \/ Decrement(t) \/ StorePeriod(t) PROVE LInv'
  <2>1. /\ UNCHANGED <<image, reload>>
        /\ \E to \in Pc \ LoadPc : pc' = [pc EXCEPT ![t] = to]
        /\ pc[t] \in Pc \ LoadPc
    BY <1>1 DEF HidHook, Decrement, StorePeriod, unwindVars, Pc, LoadPc
  <2> QED BY <2>1, Bystanders DEF LoaderType, DevSlots
<1>2. ASSUME PollControllers PROVE LInv'
  <2>1. /\ UNCHANGED <<image, reload>> /\ pc' = [pc EXCEPT ![Poller] = "lock"]
        /\ pc[Poller] = "idle"
    BY <1>2 DEF PollControllers, unwindVars
  <2> QED BY <2>1, Bystanders DEF LoaderType, DevSlots, LoadPc
<1>3. ASSUME Players PROVE LInv'
  <2>1. UNCHANGED <<image, pc, reload>>
    BY <1>3
    DEF Players, PluginRegisters, Throw, Unwinds, StepReplace, MakeInfo, CustomEhPersonality,
        loaderVars, reload
  <2> QED BY <2>1, Bystanders DEF DevSlots
<1>4. ASSUME NEW t \in Threads, Lock(t) PROVE LInv'
  BY <1>4, Within, LockStep DEF Lock, On
<1>5. ASSUME NEW t \in Threads, Loads(t) PROVE LInv'
  BY <1>5, UnregisterStep, UnloadModuleStep, UnregisterModuleInfoStep, ReadFileStep,
     GetBufferSizeStep, RegisterModuleInfoStep, LoadModuleStep, InstallStep DEF Loads
<1> QED BY <1>1, <1>2, <1>3, <1>4, <1>5 DEF Next

LEMMA Stutter == ASSUME IInv, UNCHANGED vars PROVE IInv'
<1>1. UNCHANGED <<image, reload, mode, timer, pc, polls, overlap>>
  BY DEF vars, unwindVars, loaderVars, reload
<1>2. LInv'
  BY <1>1, Bystanders DEF IInv, DevSlots
<1> QED BY <1>1, <1>2 DEF IInv, LoaderType, CountInv, Waiting, reload

-----------------------------------------------------------------------------
(* Theorems.                                                               *)

\* What is true at each point of a reload, of the thread that reloads, of RO
\* and of the buffers (loader.rs:66-203), whatever the game throws and however
\* many threads ask for one: the inductive invariant.
THEOREM ReloadInvariant == Spec => []IInv
<1>1. IInv /\ [Next]_vars => IInv'
  BY TypeStep, CountStep, ReloadStep, Stutter DEF IInv
<1> QED BY InitHolds, <1>1, PTL DEF Spec

\* Only one development plugin is loaded at a time, and between reloads it is
\* the one LOADED_DEVELOPMENT_PLUGIN holds (loader.rs:181-203).
THEOREM OneDevelopmentPluginHolds == Spec => []OneDevelopmentPlugin
<1>1. ASSUME IInv PROVE OneDevelopmentPlugin
  <2>1. ASSUME holder = Null
        PROVE  /\ ro.nro = {loaded.n} \ {0} /\ Good = ro.nro
               /\ DevSlots = (IF loaded = None THEN {} ELSE {loaded.slot})
    <3>1. CASE loaded = None /\ There({}, {}, {}, {})
      BY <3>1 DEF There, None
    <3>2. CASE IsLoaded(loaded) /\ There({loaded.n}, {loaded.n}, {loaded.slot}, {})
      BY <3>2 DEF There, None, IsLoaded
    <3> QED BY <1>1, <2>1, <3>1, <3>2 DEF IInv, LInv, FreeInv
  <2>2. \E n : ro.nro \subseteq {n}
    <3>1. CASE holder = Null
      BY <2>1, <3>1
    <3>2. CASE holder # Null
      <4>1. PICK t \in Threads : holder = t /\ pc[t] \in LoadPc
        BY <1>1, <3>2 DEF IInv, LoaderType, LInv, HolderInv
      <4>2. \/ ro.nro = {} \/ ro.nro = {count} \/ ro.nro = {plugin[t].n}
        BY <1>1, <4>1
        DEF IInv, LInv, UninstallInv, NewInv, Uninstalling, Creating, There, LoadPc
      <4> QED BY <4>2
    <3> QED BY <3>1, <3>2
  <2>3. Cardinality(ro.nro) <= 1
    <3>1. PICK n : ro.nro \subseteq {n}
      BY <2>2
    <3>2. IsFiniteSet({n}) /\ Cardinality({n}) = 1
      BY FS_Singleton
    <3> QED BY <3>1, <3>2, FS_Subset, FS_CardinalityType
  <2> QED BY <2>1, <2>3 DEF OneDevelopmentPlugin, Good, DevSlots
<1> QED BY <1>1, ReloadInvariant, PTL

\* Between reloads the buffers of the plugins that RO took are allocated and no
\* others, and nothing that RO uses is freed, but the NRR of a module it
\* refused to load (loader.rs:79-151).
THEOREM BuffersAccountedHolds == Spec => []BuffersAccounted
<1>1. ASSUME IInv PROVE BuffersAccounted
  <2>1. holder = Null => heap = Kept
    BY <1>1 DEF IInv, LInv, FreeInv, There, Kept
  <2> DEFINE Accounted(buffers) ==
        /\ heap = Kept \cup ({count} \X buffers)
        /\ \A n \in ro.nro : outcome[n] = "loaded"
        /\ \A n \in Good : outcome[n] = "loaded" \/ (n = count /\ "nrr" \in buffers)
  <2>2. \E buffers : Accounted(buffers)
    <3>1. CASE holder = Null
      <4>1. heap = Kept \cup ({count} \X {})
        BY <2>1, <3>1 DEF Kept
      <4>2. \A n \in ro.nro \cup Good : outcome[n] = "loaded"
        BY <1>1, <3>1 DEF IInv, LInv, FreeInv, There, IsLoaded
      <4>3. Accounted({})
        BY <4>1, <4>2
      <4> QED BY <4>3
    <3>2. CASE holder # Null
      <4>1. PICK t \in Threads : holder = t /\ pc[t] \in LoadPc
        BY <1>1, <3>2 DEF IInv, LoaderType, LInv, HolderInv
      <4>2. CASE pc[t] \in {"unregister", "unload", "forget"}
        <5>1. Accounted({})
          BY <1>1, <4>2 DEF IInv, LInv, UninstallInv, Uninstalling, There, IsLoaded
        <5> QED BY <5>1
      <4>3. CASE pc[t] \in {"read", "size", "register"}
        <5>1. \E buffers : There({}, {}, {}, buffers)
          BY <1>1, <4>3 DEF IInv, LInv, NewInv, Creating
        <5>2. PICK buffers : There({}, {}, {}, buffers)
          BY <5>1
        <5>3. Accounted(buffers)
          BY <5>2 DEF There
        <5> QED BY <5>3
      <4>4. CASE pc[t] = "load"
        <5>1. Accounted(Buffer)
          BY <1>1, <4>4 DEF IInv, LInv, NewInv, Creating, There, Buffer
        <5> QED BY <5>1
      <4>5. CASE pc[t] = "install"
        <5>1. Accounted({})
          BY <1>1, <4>5 DEF IInv, LInv, NewInv, Creating, There, IsLoaded
        <5> QED BY <5>1
      <4> QED BY <4>1, <4>2, <4>3, <4>4, <4>5 DEF LoadPc
    <3> QED BY <3>1, <3>2
  <2>3. ro.nro \subseteq Number /\ ro.nrr \subseteq Number
    BY <1>1 DEF IInv, LoaderType
  <2>4. ro.nro \X Buffer \subseteq heap
    BY <2>2, <2>3 DEF Kept
  <2>5. \A n \in ro.nrr : <<n, "nrr">> \in heap \/ outcome[n] = "failed"
    BY <2>2, <2>3 DEF Kept, Good, Buffer
  <2> QED BY <2>1, <2>4, <2>5 DEF BuffersAccounted, Kept
<1> QED BY <1>1, ReloadInvariant, PTL

-----------------------------------------------------------------------------
(* The timer.                                                              *)

LEMMA CountsDown == \A n \in 1..W - 1 : Decremented(n) = n - 1
<1> SUFFICES ASSUME NEW n \in 1..W - 1 PROVE (n - 1) % W = n - 1
  BY DEF Decremented
<1>1. n - 1 \in 0..W - 1 /\ W \in Nat \ {0}
  BY LoaderAssumption
<1> QED BY <1>1

LEMMA TimerInit == Init => TimerInv
BY LoaderAssumption DEF Init, TimerInv

LEMMA TimerStep ==
  ASSUME LoaderType, TimerInv, Next
  PROVE  TimerInv'
<1> USE LoaderAssumption
<1>1. ASSUME NEW t \in Threads, HidHook(t) PROVE TimerInv'
  <2>1. PICK next \in {"decrement", "idle", "lock"} :
          /\ next = "decrement" <=> timer # 0
          /\ pc' = [pc EXCEPT ![t] = next]
    BY <1>1 DEF HidHook, Waits
  <2>2. /\ mode = "hook" /\ mode' = mode /\ timer' = timer /\ t # Poller /\ pc[t] = "idle"
        /\ pc'[t] = next /\ \A u \in Threads \ {t} : pc'[u] = pc[u]
        /\ polls' = (IF polls < Period THEN polls + 1 ELSE polls)
        /\ overlap' = (overlap \/ \E u \in Threads \ {t} : pc[u] # "idle")
    BY <1>1, <2>1 DEF HidHook, Polled, LoaderType
  <2>3. CASE overlap'
    BY <2>2, <2>3 DEF TimerInv
  <2>4. CASE ~overlap'
    <3>1. ~overlap /\ (\A u \in Threads : pc[u] = "idle") /\ timer = Period - polls
      BY <2>2, <2>4 DEF TimerInv
    <3>2. \A u \in Threads \ {t} : pc'[u] = "idle"
      BY <2>2, <3>1
    <3>3. CASE timer = 0
      <4>1. polls' = Period /\ timer' = 0 /\ next # "decrement"
        BY <2>1, <2>2, <3>1, <3>3 DEF LoaderType
      <4> QED BY <2>2, <3>2, <4>1 DEF TimerInv
    <3>4. CASE timer # 0
      <4>1. polls' = polls + 1 /\ timer' = Period - polls' + 1 /\ next = "decrement"
        BY <2>1, <2>2, <3>1, <3>4 DEF LoaderType
      <4> QED BY <2>2, <3>2, <4>1 DEF TimerInv
    <3> QED BY <3>3, <3>4
  <2> QED BY <2>3, <2>4
<1>2. ASSUME NEW t \in Threads, Decrement(t) PROVE TimerInv'
  <2>1. /\ pc[t] = "decrement" /\ pc'[t] = "idle" /\ \A u \in Threads \ {t} : pc'[u] = pc[u]
        /\ timer' = Decremented(timer) /\ UNCHANGED <<mode, polls, overlap>>
    BY <1>2 DEF Decrement, LoaderType
  <2>2. mode = "hook"
    BY <2>1 DEF TimerInv, LoaderType
  <2>3. CASE overlap
    BY <2>1, <2>2, <2>3 DEF TimerInv
  <2>4. CASE ~overlap
    <3>1. timer = Period - polls + 1 /\ \A u \in Threads : pc'[u] = "idle"
      BY <2>1, <2>4 DEF TimerInv
    <3>2. timer' = Period - polls
      BY <2>1, <3>1, CountsDown DEF LoaderType
    <3> QED BY <2>1, <2>2, <3>1, <3>2 DEF TimerInv
  <2> QED BY <2>3, <2>4
<1>3. ASSUME NEW t \in Threads, StorePeriod(t) PROVE TimerInv'
  <2>1. /\ pc[t] = "store" /\ pc'[t] = "idle" /\ \A u \in Threads \ {t} : pc'[u] = pc[u]
        /\ timer' = Period /\ polls' = 0 /\ UNCHANGED <<mode, overlap>>
    BY <1>3 DEF StorePeriod, LoaderType
  <2>2. mode = "hook"
    BY <2>1 DEF TimerInv, LoaderType
  <2>3. ~overlap => \A u \in Threads : pc'[u] = "idle"
    BY <2>1 DEF TimerInv
  <2> QED BY <2>1, <2>2, <2>3 DEF TimerInv
<1>4. ASSUME PollControllers PROVE TimerInv'
  <2>1. /\ mode = "poll" /\ pc[Poller] = "idle" /\ pc'[Poller] = "lock"
        /\ \A u \in Threads \ {Poller} : pc'[u] = pc[u]
        /\ UNCHANGED <<mode, timer, polls, overlap>>
    BY <1>4 DEF PollControllers, LoaderType
  <2> QED BY <2>1 DEF TimerInv
<1>5. ASSUME NEW t \in Threads, Lock(t) \/ Loads(t) PROVE TimerInv'
  <2>1. /\ UNCHANGED <<mode, timer, polls, overlap>>
        /\ \E to \in LoadPc \cup {After(t)} : pc' = [pc EXCEPT ![t] = to]
        /\ pc[t] \in LoadPc \cup {"lock"}
    BY <1>5
    DEF Lock, Loads, Unregister, UnloadModule, UnregisterModuleInfo, ReadFile, GetBufferSize,
        RegisterModuleInfo, LoadModule, Install, Fails, On, Aside, LoadPc
  <2>2. PICK to \in LoadPc \cup {After(t)} :
          pc'[t] = to /\ \A u \in Threads \ {t} : pc'[u] = pc[u]
    BY <2>1 DEF LoaderType
  <2>3. pc[t] \notin {"idle", "decrement"} /\ to \notin {"decrement"}
    BY <2>1, <2>2 DEF LoadPc, After
  <2>4. mode = "poll" => t = Poller /\ to \notin {"decrement", "store"}
    BY <2>2, <2>1, <2>3 DEF TimerInv, LoadPc, After
  <2>5. mode = "hook" => t # Poller
    BY <2>3 DEF TimerInv
  <2>6. ~overlap => timer = 0 /\ polls = Period /\ \A u \in Threads \ {t} : pc'[u] = "idle"
    BY <2>2, <2>3 DEF TimerInv
  <2> QED BY <2>1, <2>2, <2>3, <2>4, <2>5, <2>6 DEF TimerInv
<1>6. ASSUME Players PROVE TimerInv'
  BY <1>6 DEF Players, loaderVars, TimerInv
<1> QED BY <1>1, <1>2, <1>3, <1>4, <1>5, <1>6 DEF Next

\* Until polls of two threads have overlapped, TIMER counts down the polls since
\* the last reload, and the keys are not looked at before it is over
\* (lib.rs:87-102), for any period and any width of the counter.
THEOREM DebouncedHolds == Spec => []Debounced
<1>1. LoaderType /\ TimerInv /\ [Next]_vars => TimerInv'
  <2>1. ASSUME TimerInv, UNCHANGED vars PROVE TimerInv'
    BY <2>1 DEF vars, loaderVars, TimerInv
  <2> QED BY <2>1, TimerStep
<1>2. IInv => LoaderType
  BY DEF IInv
<1>3. TimerInv => Debounced
  <2> SUFFICES ASSUME TimerInv, ~overlap
               PROVE  /\ (\A t \in Threads : pc[t] = "idle") => timer = Period - polls
                      /\ \A t \in InputThread : pc[t] = "lock" => polls = Period
    BY DEF Debounced
  <2> QED BY DEF TimerInv
<1> QED BY TimerInit, <1>1, <1>2, <1>3, ReloadInvariant, PTL DEF Spec

HIDE DEF Threads

-----------------------------------------------------------------------------
(* Unwinding: the inductive invariant.                                     *)

Frames    == [address : 0..Slots * SlotSize - 1, catches : BOOLEAN]
UnwindPc  == {"idle", "step", "mark", "personality", "pad", "install", "landed", "dead"}
Unwinding == [pc : UnwindPc, phase : 1..2, frames : Seq(Frames), at : Nat,
              found : Nat, pad : 0..Slots * SlotSize, disturbed : BOOLEAN]
UnwindType ==
  /\ unwinding \in [Thread -> Unwinding] /\ state \in {"running", "aborted", "faulted"}
  /\ \A t \in Thread : /\ unwinding[t].at \in 0..Len(unwinding[t].frames)
                       /\ unwinding[t].found \in 0..Len(unwinding[t].frames)

\* Every region is of a slot, and none of a slot of the game.
RegionInv ==
  \A m \in customEhMem : \E k \in Slot :
    m.base = k * SlotSize /\ m.end \in m.base + 1..m.base + SlotSize /\ image[k] # Game

\* The frames that a walk passes by, and the one where it stops.
GameFrame(f) == image[SlotOf(f.address)] = Game
Passed(f)    == GameFrame(f) /\ ~f.catches
StopsAt(u, i) == /\ i \in 1..Len(u.frames) /\ ~Passed(u.frames[i])
                 /\ \A j \in 1..i - 1 : Passed(u.frames[j])

InPersonality == {"mark", "personality", "pad", "install"}
WalkInv(u) ==
  /\ u.pc # "idle" => \E i \in 1..Len(u.frames) : GameFrame(u.frames[i]) /\ u.frames[i].catches
  /\ u.pc = "step" => u.at < Len(u.frames) /\ \A i \in 1..u.at : Passed(u.frames[i])
  /\ u.pc \in InPersonality \cup {"landed"} => StopsAt(u, u.at)
  /\ u.pc \in InPersonality => ~GameFrame(u.frames[u.at])
  /\ u.pc \in (InPersonality \ {"mark"}) \cup {"landed"} => u.phase = 2
  /\ u.phase = 2 => StopsAt(u, u.found)

\* An undisturbed unwinding: its frames are in functions of images that are
\* there, and those of plugins are known.
Known(f) ==
  LET b == image[SlotOf(f.address)]
  IN b \in Image /\ InFunction(b, Cell(f.address)) /\ (b # Game => Registered(f))
KnownInv(u) == ~u.disturbed => \A i \in 1..Len(u.frames) : Known(u.frames[i])
PadInv(u) ==
  LET f == u.frames[u.at]
  IN u.pc \in (InPersonality \ {"mark"}) \cup {"landed"} /\ ~u.disturbed
     /\ ~GameFrame(f) /\ Pads(f) # {} => u.pad = FirstOf(Pads(f))
DeadInv(u) == u.pc = "dead" => state # "running" /\ (u.disturbed \/ ~Marked(u))

ThreadInv(t) == LET u == unwinding[t]
                IN WalkInv(u) /\ KnownInv(u) /\ PadInv(u) /\ DeadInv(u)
UnwindInv == UnwindType /\ RegionInv /\ \A t \in Thread : ThreadInv(t)

-----------------------------------------------------------------------------
(* Addresses.                                                              *)

\* An address of a slot and a cell, and back.
LEMMA AddressOf ==
  ASSUME NEW k \in Slot, NEW c \in 0..SlotSize - 1
  PROVE  /\ SlotOf(k * SlotSize + c) = k /\ Cell(k * SlotSize + c) = c
         /\ k * SlotSize + c \in 0..Slots * SlotSize - 1
         /\ k * SlotSize \in Nat
<1>1. k \in Nat /\ c \in Nat /\ SlotSize \in Nat \ {0} /\ c < SlotSize /\ k <= Slots - 1
      /\ Slots \in Nat
  BY UnwindAssumption DEF Slot
<1>2. (k * SlotSize + c) \div SlotSize = k /\ (k * SlotSize + c) % SlotSize = c
  BY <1>1
<1>3. PICK d \in Nat : Slots = k + 1 + d
  <2>1. Slots - k - 1 \in Nat /\ Slots = k + 1 + (Slots - k - 1)
    BY <1>1
  <2> QED BY <2>1
<1>4. Slots * SlotSize = k * SlotSize + SlotSize + d * SlotSize
  BY <1>1, <1>3
<1>5. d * SlotSize >= 0 /\ k * SlotSize \in Nat /\ Slots * SlotSize \in Nat
  BY <1>1
<1>6. k * SlotSize + c <= Slots * SlotSize - 1
  BY <1>1, <1>4, <1>5
<1> QED
  BY <1>1, <1>2, <1>5, <1>6 DEF SlotOf, Cell

LEMMA SlotAndCell ==
  ASSUME NEW x \in Nat
  PROVE  /\ SlotOf(x) \in Nat /\ Cell(x) \in 0..SlotSize - 1
         /\ SlotOf(x) * SlotSize \in Nat
         /\ x = SlotOf(x) * SlotSize + Cell(x)
BY UnwindAssumption DEF SlotOf, Cell

\* The addresses in memory are those below its end.
LEMMA InMemory ==
  ASSUME NEW x \in Nat
  PROVE  SlotOf(x) \in Slot <=> x \in 0..Slots * SlotSize - 1
<1>1. /\ SlotOf(x) \in Nat /\ Cell(x) \in 0..SlotSize - 1
      /\ x = SlotOf(x) * SlotSize + Cell(x)
  BY SlotAndCell
<1>2. SlotOf(x) \in Slot => x \in 0..Slots * SlotSize - 1
  <2>1. ASSUME NEW k \in Slot, k = SlotOf(x) PROVE x \in 0..Slots * SlotSize - 1
    BY <1>1, <2>1, AddressOf
  <2> QED
    BY <2>1
<1>3. ASSUME SlotOf(x) \notin Slot PROVE x >= Slots * SlotSize
  <2>1. SlotOf(x) >= Slots /\ Slots \in Nat /\ SlotSize \in Nat
    BY <1>1, <1>3, UnwindAssumption DEF Slot
  <2>2. PICK d \in Nat : SlotOf(x) = Slots + d
    <3>1. SlotOf(x) - Slots \in Nat /\ SlotOf(x) = Slots + (SlotOf(x) - Slots)
      BY <1>1, <2>1
    <3> QED BY <3>1
  <2>3. SlotOf(x) * SlotSize = Slots * SlotSize + d * SlotSize /\ d * SlotSize >= 0
    BY <2>1, <2>2
  <2>4. Slots * SlotSize \in Nat /\ d * SlotSize \in Nat
    BY <2>1, <2>2
  <2> QED
    BY <1>1, <2>3, <2>4, UnwindAssumption
<1>4. Slots * SlotSize \in Nat
  BY UnwindAssumption
<1> QED
  BY <1>2, <1>3, <1>4

LEMMA FrameAddress ==
  ASSUME NEW f \in Frames
  PROVE  /\ f.address \in Nat /\ f.catches \in BOOLEAN
         /\ SlotOf(f.address) \in Slot /\ Cell(f.address) \in 0..SlotSize - 1
         /\ f.address = SlotOf(f.address) * SlotSize + Cell(f.address)
<1>1. f.address \in 0..Slots * SlotSize - 1 /\ f.catches \in BOOLEAN
  BY DEF Frames
<1>2. f.address \in Nat
  BY <1>1
<1> QED
  BY <1>1, <1>2, SlotAndCell, InMemory

\* The first of a set of numbers.
LEMMA FirstExists ==
  ASSUME NEW S \in SUBSET Nat, S # {}
  PROVE  FirstOf(S) \in S /\ \A y \in S : FirstOf(S) <= y
<1> DEFINE R == OpToRel(<, Nat)
<1>1. \E x \in S : \A y \in S : ~ (<<y, x>> \in R)
  <2>1. IsWellFoundedOn(R, Nat)
    BY NatLessThanWellFounded
  <2> HIDE DEF R
  <2> QED BY <2>1, WFMin
<1>2. PICK x \in S : \A y \in S : ~ (<<y, x>> \in R)
  BY <1>1
<1>3. x \in Nat /\ \A y \in S : y \in Nat
  OBVIOUS
<1>4. \A y \in S : ~ (y < x)
  BY <1>2, <1>3 DEF OpToRel
<1>5. \A y \in S : x <= y
  BY <1>3, <1>4
<1>6. \E z \in S : \A y \in S : z <= y
  BY <1>5
<1> QED
  BY <1>6 DEF FirstOf

LEMMA FirstIs ==
  ASSUME NEW S \in SUBSET Int, NEW x \in S, \A y \in S : x <= y
  PROVE  FirstOf(S) = x
<1>1. \E z \in S : \A y \in S : z <= y
  OBVIOUS
<1>2. FirstOf(S) \in S /\ \A y \in S : FirstOf(S) <= y
  BY <1>1 DEF FirstOf
<1>3. FirstOf(S) \in Int /\ x \in Int /\ x <= FirstOf(S) /\ FirstOf(S) <= x
  BY <1>2
<1> QED
  BY <1>3

-----------------------------------------------------------------------------
(* Regions and frames.                                                     *)

\* What CUSTOM_EH_MEM knows is no code of the game.
LEMMA CustomIsNoGame ==
  ASSUME RegionInv, NEW x \in Nat, IsCustomEhMem(x)
  PROVE  image[SlotOf(x)] # Game
<1>1. PICK m \in customEhMem : m.base <= x /\ x < m.end
  BY DEF IsCustomEhMem
<1>2. PICK k \in Slot : /\ m.base = k * SlotSize /\ image[k] # Game
                       /\ m.end \in m.base + 1..m.base + SlotSize
  BY DEF RegionInv
<1>3. k * SlotSize \in Nat /\ SlotSize \in Nat
  BY UnwindAssumption DEF Slot
<1>4. x - k * SlotSize \in 0..SlotSize - 1 /\ x = k * SlotSize + (x - k * SlotSize)
  BY <1>1, <1>2, <1>3
<1>5. SlotOf(x) = k
  BY <1>4, AddressOf
<1> QED
  BY <1>2, <1>5

\* A frame of a plugin that is known lies in a region, with all of its function.
LEMMA KnownText ==
  ASSUME NEW f \in Frames, Known(f)
  PROVE  LET b == image[SlotOf(f.address)]
         IN /\ b \in Image /\ b # Null
            /\ Code[b].text \in 1..SlotSize /\ Code[b].markers \subseteq 0..Code[b].text - 1
            /\ Cell(f.address) < Code[b].text
            /\ Function(b, Cell(f.address)).last \in 0..Code[b].text - 1
<1> DEFINE b == image[SlotOf(f.address)]
<1>1. /\ b \in Image /\ b # Null /\ Code[b].text \in 1..SlotSize
      /\ Code[b].markers \subseteq 0..Code[b].text - 1
      /\ \A g \in Code[b].functions :
           g.first \in 0..Code[b].text - 1 /\ g.last \in 0..Code[b].text - 1
  BY UnwindAssumption, CodeAssumption DEF Known
<1>2. \E g \in Code[b].functions : Cell(f.address) \in g.first..g.last
  BY DEF Known, InFunction
<1>3. Function(b, Cell(f.address)) \in Code[b].functions
  BY <1>2 DEF Function
<1>4. Cell(f.address) < Code[b].text
  BY <1>1, <1>2, UnwindAssumption, FrameAddress
<1> QED
  BY <1>1, <1>3, <1>4

LEMMA KnownIsCustom ==
  ASSUME NEW f \in Frames, Known(f), ~GameFrame(f),
         NEW c \in 0..Code[image[SlotOf(f.address)]].text - 1
  PROVE  IsCustomEhMem(SlotOf(f.address) * SlotSize + c)
<1> DEFINE k == SlotOf(f.address)
           m == QueryMemory(f.address)
<1>1. k \in Slot /\ Code[image[k]].text \in 1..SlotSize
  BY FrameAddress, KnownText
<1>2. m \in customEhMem
  BY DEF Known, GameFrame, Registered
<1>3. m.base = k * SlotSize /\ m.end = k * SlotSize + Code[image[k]].text
  BY DEF QueryMemory
<1>4. k * SlotSize \in Nat
  BY <1>1, UnwindAssumption DEF Slot
<1> HIDE DEF k, m
<1>5. m.base <= k * SlotSize + c /\ k * SlotSize + c < m.end
  BY <1>1, <1>3, <1>4, UnwindAssumption DEF k
<1> QED
  BY <1>2, <1>5 DEF IsCustomEhMem, k

\* The cells of the pads of a known frame, and where byte_search finds the first.
LEMMA ByteSearchFinds ==
  ASSUME NEW f \in Frames, Known(f), ~GameFrame(f), Pads(f) # {}
  PROVE  /\ ByteSearch(f.address) \in Nat
         /\ ByteSearch(f.address) + 1 = FirstOf(Pads(f))
         /\ IsCustomEhMem(FirstOf(Pads(f))) /\ Mapped(FirstOf(Pads(f)))
<1> DEFINE k == SlotOf(f.address)
           c == Cell(f.address)
           b == image[k]
           P == PadsOf(b, c)
           p == FirstOf(P)
           start == f.address
           stops == {x \in start..start + Reach - 1 : ~Mapped(x) \/ IsMarker(x)}
<1>1. /\ k \in Slot /\ k \in Nat /\ c \in 0..SlotSize - 1 /\ start = k * SlotSize + c
      /\ k * SlotSize \in Nat /\ start \in Nat /\ Reach \in Nat /\ SlotSize \in Nat \ {0}
  BY FrameAddress, UnwindAssumption, SlotAndCell DEF Slot
<1>2. /\ b \in Image /\ b # Null
      /\ Code[b].text \in 1..SlotSize /\ Code[b].markers \subseteq 0..Code[b].text - 1
      /\ Function(b, c).last \in 0..Code[b].text - 1
  BY KnownText
<1>3. P # {} /\ P \in SUBSET Nat
  BY <1>2 DEF Pads, PadsOf
<1>4. p \in P /\ \A y \in P : p <= y
  BY <1>3, FirstExists
<1>5. /\ p \in Code[b].markers /\ p >= c /\ p < c + Reach /\ p < Function(b, c).last
      /\ p \in Nat /\ p + 1 <= Code[b].text - 1 /\ p <= SlotSize - 1 /\ p + 1 <= SlotSize - 1
  <2>1. p \in Code[b].markers /\ p >= c /\ p < c + Reach /\ p < Function(b, c).last /\ p \in Nat
    BY <1>3, <1>4 DEF PadsOf
  <2> HIDE DEF p, b, c, k
  <2> QED BY <1>2, <2>1, UnwindAssumption
<1> DEFINE q == k * SlotSize + p
<1>6. \A x \in 0..SlotSize - 1 : SlotOf(k * SlotSize + x) = k /\ Cell(k * SlotSize + x) = x
  BY <1>1, AddressOf
<1>7. \A x \in 0..SlotSize - 1 : Mapped(k * SlotSize + x)
  BY <1>1, <1>2, <1>6 DEF Mapped
<1>8. q \in stops
  <2>1. Mapped(q) /\ IsMarker(q)
    BY <1>5, <1>6, <1>7, UnwindAssumption DEF IsMarker
  <2>2. q \in start..start + Reach - 1
    <3> HIDE DEF p, k, c
    <3> QED BY <1>1, <1>5
  <2> HIDE DEF q
  <2> QED BY <2>1, <2>2
<1>9. \A y \in stops : q <= y
  <2> SUFFICES ASSUME NEW y \in stops, y < q PROVE FALSE
    BY <1>1, <1>5
  <2> DEFINE x == y - k * SlotSize
  <2>0. y \in start..start + Reach - 1 /\ (~Mapped(y) \/ IsMarker(y))
    OBVIOUS
  <2>1. x \in Nat /\ x >= c /\ x < c + Reach /\ x < p /\ x \in 0..SlotSize - 1
        /\ y = k * SlotSize + x
    <3> HIDE DEF k, c, p, stops
    <3> QED BY <1>1, <1>5, <2>0
  <2>2. Mapped(y) /\ SlotOf(y) = k /\ Cell(y) = x
    <3> HIDE DEF k, c, p, stops, x
    <3> QED BY <1>6, <1>7, <2>1
  <2>3. x \in Code[b].markers
    BY <2>0, <2>2 DEF IsMarker
  <2>4. x < Function(b, c).last
    <3> HIDE DEF k, c, p, stops, x, b
    <3> QED BY <1>2, <1>5, <2>1
  <2>5. x \in P
    <3> HIDE DEF k, c, p, stops, x, b
    <3> QED BY <2>1, <2>3, <2>4 DEF PadsOf
  <2> HIDE DEF k, c, p, stops, x, P
  <2> QED BY <1>4, <1>5, <2>1, <2>5
<1>10. FirstOf(stops) = q /\ stops # {}
  <2>1. stops \in SUBSET Int
    BY <1>1
  <2> HIDE DEF stops, q
  <2> QED BY <1>8, <1>9, <2>1, FirstIs
<1>11. ByteSearch(f.address) = q /\ q \in Nat /\ Mapped(q)
  <2>1. Mapped(q) /\ q \in Nat
    BY <1>1, <1>5, <1>7
  <2> HIDE DEF q
  <2> QED BY <1>10, <2>1 DEF ByteSearch
<1>12. FirstOf(Pads(f)) = q + 1
  <2>1. Pads(f) = {k * SlotSize + x + 1 : x \in P}
    BY DEF Pads
  <2> HIDE DEF P, p, k
  <2>2. q + 1 \in Pads(f) /\ Pads(f) \in SUBSET Int /\ \A y \in Pads(f) : q + 1 <= y
    BY <1>1, <1>3, <1>4, <2>1
  <2> HIDE DEF q
  <2> QED BY <2>2, FirstIs
<1>13. q + 1 = k * SlotSize + (p + 1) /\ p + 1 \in 0..Code[b].text - 1 /\ p + 1 \in 0..SlotSize - 1
  <2> HIDE DEF p, k, b
  <2> QED BY <1>1, <1>2, <1>5
<1>14. IsCustomEhMem(q + 1) /\ Mapped(q + 1)
  <2> HIDE DEF p, q
  <2> QED BY <1>7, <1>13, KnownIsCustom
<1> QED
  BY <1>11, <1>12, <1>14

\* What byte_search answers: a fault, nothing, or a place in memory.
LEMMA ByteSearchType ==
  ASSUME NEW start \in Nat
  PROVE  ByteSearch(start) \in {Null, -1} \cup 0..Slots * SlotSize - 1
<1> DEFINE stops == {x \in start..start + Reach - 1 : ~Mapped(x) \/ IsMarker(x)}
<1>1. ASSUME stops # {}, Mapped(FirstOf(stops)) PROVE FirstOf(stops) \in 0..Slots * SlotSize - 1
  <2>1. stops \in SUBSET Nat
    BY UnwindAssumption
  <2> HIDE DEF stops
  <2>2. FirstOf(stops) \in Nat
    BY <1>1, <2>1, FirstExists
  <2> QED BY <1>1, <2>2, InMemory DEF Mapped
<1> QED BY <1>1 DEF ByteSearch

\* A walk stops where the exception should land.
LEMMA StopsAtHandler ==
  ASSUME NEW u \in Unwinding, NEW i, StopsAt(u, i)
  PROVE  Handler(u) = i
<1> DEFINE S == {j \in DOMAIN u.frames : u.frames[j].catches \/ InPlugin(u.frames[j])}
<1>1. u.frames \in Seq(Frames) /\ DOMAIN u.frames = 1..Len(u.frames) /\ Len(u.frames) \in Nat
  BY DEF Unwinding
<1>2. S = {j \in 1..Len(u.frames) : ~Passed(u.frames[j])}
  BY <1>1 DEF Passed, InPlugin, GameFrame
<1>3. i \in S /\ \A y \in S : i <= y
  BY <1>1, <1>2 DEF StopsAt
<1>4. S \in SUBSET Int
  BY <1>1
<1> HIDE DEF S
<1>5. FirstOf(S) = i
  BY <1>3, <1>4, FirstIs
<1> QED
  BY <1>5 DEF Handler, S

-----------------------------------------------------------------------------
(* The steps of a walk: neither the images nor the regions change.         *)

\* What a step makes of a thread's unwinding is as good after it.
LEMMA Carried ==
  ASSUME UNCHANGED <<image, customEhMem>>, NEW t \in Thread,
         NEW v, v = unwinding'[t], WalkInv(v), KnownInv(v), PadInv(v),
         v.pc = "dead" => state' # "running" /\ (v.disturbed \/ ~Marked(v))
  PROVE  ThreadInv(t)'
<1>1. \A f : GameFrame(f)' <=> GameFrame(f)
  BY DEF GameFrame
<1>2. \A f : /\ Passed(f)' <=> Passed(f)
             /\ Known(f)' <=> Known(f)
             /\ Pads(f)' = Pads(f)
             /\ InPlugin(f)' <=> InPlugin(f)
  BY <1>1 DEF Passed, Known, Registered, QueryMemory, Pads, InPlugin
<1>3. WalkInv(unwinding[t])'
  BY <1>1, <1>2 DEF WalkInv, StopsAt
<1>4. KnownInv(unwinding[t])' /\ PadInv(unwinding[t])'
  BY <1>1, <1>2 DEF KnownInv, PadInv
<1>5. Marked(unwinding[t])' <=> Marked(v)
  <2> DEFINE S == {i \in DOMAIN v.frames : v.frames[i].catches \/ InPlugin(v.frames[i])}
  <2>1. Handler(unwinding[t])' = Handler(v)
    <3>1. {i \in DOMAIN unwinding'[t].frames :
             unwinding'[t].frames[i].catches \/ InPlugin(unwinding[t].frames[i])'} = S
      BY <1>2
    <3> QED BY <3>1 DEF Handler
  <2> QED BY <1>2, <2>1 DEF Marked
<1> QED
  BY <1>3, <1>4, <1>5 DEF ThreadInv, DeadInv

\* A step that leaves all that alone.
LEMMA Same ==
  ASSUME UnwindInv, UNCHANGED <<image, customEhMem, unwinding>>,
         state' = state \/ (state = "running" /\ state' \in {"aborted", "faulted"})
  PROVE  UnwindInv'
<1>1. ASSUME NEW t \in Thread PROVE ThreadInv(t)'
  <2> PICK v : v = unwinding[t]
    OBVIOUS
  <2>1. v = unwinding'[t] /\ WalkInv(v) /\ KnownInv(v) /\ PadInv(v)
        /\ (v.pc = "dead" => state # "running" /\ (v.disturbed \/ ~Marked(v)))
    BY DEF UnwindInv, ThreadInv, DeadInv
  <2> QED BY <2>1, Carried
<1> QED BY <1>1 DEF UnwindInv, UnwindType, RegionInv

\* Nothing but the unwinding of the thread, and the state.
LEMMA Alone ==
  ASSUME UnwindInv, NEW t \in Thread, NEW v \in Unwinding,
         v.at \in 0..Len(v.frames), v.found \in 0..Len(v.frames),
         unwinding' = [unwinding EXCEPT ![t] = v],
         UNCHANGED <<image, customEhMem>>, state = "running",
         state' \in {"running", "aborted", "faulted"},
         WalkInv(v), KnownInv(v), PadInv(v),
         v.pc = "dead" => state' # "running" /\ (v.disturbed \/ ~Marked(v))
  PROVE  UnwindInv'
<1>1. UnwindType'
  BY DEF UnwindInv, UnwindType
<1>2. RegionInv'
  BY DEF UnwindInv, RegionInv
<1>3. ASSUME NEW o \in Thread PROVE ThreadInv(o)'
  <2>1. CASE o = t
    <3>1. v = unwinding'[t]
      BY DEF UnwindInv, UnwindType
    <3> QED BY <2>1, <3>1, Carried
  <2>2. CASE o # t
    <3>1. unwinding'[o] = unwinding[o]
      BY <2>2 DEF UnwindInv, UnwindType
    <3>2. ThreadInv(o)
      BY DEF UnwindInv
    <3> DEFINE w == unwinding[o]
    <3>3. w = unwinding'[o] /\ WalkInv(w) /\ KnownInv(w) /\ PadInv(w) /\ w.pc # "dead"
      BY <3>1, <3>2 DEF ThreadInv, DeadInv
    <3> HIDE DEF w
    <3> QED BY <3>3, Carried
  <2> QED BY <2>1, <2>2
<1> QED BY <1>1, <1>2, <1>3 DEF UnwindInv

\* An unwinding whose thread dies.
LEMMA Dying ==
  ASSUME UnwindInv, NEW t \in Thread, NEW v \in Unwinding, NEW u, u = unwinding[t],
         v.pc = "dead", v.frames = u.frames, v.phase = u.phase, v.found = u.found,
         v.disturbed = u.disturbed, v.at \in 0..Len(v.frames), u.pc # "idle",
         v.disturbed \/ ~Marked(v),
         unwinding' = [unwinding EXCEPT ![t] = v],
         UNCHANGED <<image, customEhMem>>, state = "running", state' \in {"aborted", "faulted"}
  PROVE  UnwindInv'
<1>1. u \in Unwinding /\ u.found \in 0..Len(u.frames) /\ WalkInv(u) /\ KnownInv(u)
  BY DEF UnwindInv, UnwindType, ThreadInv
<1>2. WalkInv(v)
  BY <1>1 DEF WalkInv, StopsAt, InPersonality
<1>3. KnownInv(v) /\ PadInv(v)
  BY <1>1 DEF KnownInv, PadInv, InPersonality
<1> QED BY <1>1, <1>2, <1>3, Alone

\* What is known of the frame that a walk is at.
LEMMA AtFrame ==
  ASSUME UnwindInv, NEW t \in Thread, NEW u, u = unwinding[t],
         NEW i \in 1..Len(u.frames), NEW f, f = u.frames[i]
  PROVE  /\ u \in Unwinding /\ u.frames \in Seq(Frames) /\ Len(u.frames) \in Nat
         /\ u.at \in 0..Len(u.frames) /\ u.found \in 0..Len(u.frames)
         /\ f \in Frames /\ f.address \in Nat
         /\ ~u.disturbed => Known(f)
         /\ ~u.disturbed /\ ~GameFrame(f) => IsCustomEhMem(f.address)
<1>1. /\ u \in Unwinding /\ u.frames \in Seq(Frames) /\ Len(u.frames) \in Nat
      /\ u.at \in 0..Len(u.frames) /\ u.found \in 0..Len(u.frames) /\ KnownInv(u)
  BY DEF UnwindInv, UnwindType, Unwinding, ThreadInv
<1>2. f \in Frames
  BY <1>1
<1>3. ~u.disturbed => Known(f)
  BY <1>1 DEF KnownInv
<1>4. ASSUME ~u.disturbed, ~GameFrame(f) PROVE IsCustomEhMem(f.address)
  <2>1. /\ Known(f) /\ Cell(f.address) \in 0..SlotSize - 1
        /\ f.address = SlotOf(f.address) * SlotSize + Cell(f.address)
        /\ Cell(f.address) < Code[image[SlotOf(f.address)]].text
        /\ Code[image[SlotOf(f.address)]].text \in 1..SlotSize
    BY <1>2, <1>3, <1>4, FrameAddress, KnownText
  <2>2. Cell(f.address) \in 0..Code[image[SlotOf(f.address)]].text - 1
    BY <2>1, UnwindAssumption
  <2>3. IsCustomEhMem(SlotOf(f.address) * SlotSize + Cell(f.address))
    BY <1>2, <1>4, <2>1, <2>2, KnownIsCustom
  <2> QED BY <2>1, <2>3
<1> QED BY <1>1, <1>2, <1>3, <1>4, FrameAddress

\* The changes that the steps make to an unwinding.
Moved(u, n, to) == [u EXCEPT !.at = n, !.pc = to]
Again(u, n)     == [u EXCEPT !.phase = 2, !.found = n, !.at = 0]
Turned(u, to)   == [u EXCEPT !.pc = to]
Padded(u, x)    == [u EXCEPT !.pad = x, !.pc = "personality"]

LEMMA MovedFields ==
  ASSUME NEW u \in Unwinding, NEW to \in UnwindPc, NEW n \in Nat, NEW v, v = Moved(u, n, to)
  PROVE  /\ v \in Unwinding /\ v.frames = u.frames /\ v.pc = to /\ v.at = n
         /\ v.phase = u.phase /\ v.found = u.found /\ v.disturbed = u.disturbed
<1>1. u = [pc |-> u.pc, phase |-> u.phase, frames |-> u.frames, at |-> u.at,
           found |-> u.found, pad |-> u.pad, disturbed |-> u.disturbed]
  BY DEF Unwinding
<1>2. v = [pc |-> to, phase |-> u.phase, frames |-> u.frames, at |-> n,
           found |-> u.found, pad |-> u.pad, disturbed |-> u.disturbed]
  BY <1>1 DEF Moved
<1> QED BY <1>2 DEF Unwinding

LEMMA AgainFields ==
  ASSUME NEW u \in Unwinding, NEW n \in Nat
  PROVE  /\ Again(u, n) \in Unwinding
         /\ Again(u, n).frames = u.frames /\ Again(u, n).pc = u.pc /\ Again(u, n).at = 0
         /\ Again(u, n).phase = 2 /\ Again(u, n).found = n
         /\ Again(u, n).disturbed = u.disturbed
<1>1. u = [pc |-> u.pc, phase |-> u.phase, frames |-> u.frames, at |-> u.at,
           found |-> u.found, pad |-> u.pad, disturbed |-> u.disturbed]
  BY DEF Unwinding
<1> PICK v : v = Again(u, n)
  OBVIOUS
<1>2. v = [pc |-> u.pc, phase |-> 2, frames |-> u.frames, at |-> 0,
           found |-> n, pad |-> u.pad, disturbed |-> u.disturbed]
  BY <1>1 DEF Again
<1> QED BY <1>2 DEF Unwinding, UnwindPc

LEMMA TurnedFields ==
  ASSUME NEW u \in Unwinding, NEW to \in UnwindPc, NEW v, v = Turned(u, to)
  PROVE  /\ v \in Unwinding /\ v.frames = u.frames /\ v.pc = to /\ v.at = u.at /\ v.pad = u.pad
         /\ v.phase = u.phase /\ v.found = u.found /\ v.disturbed = u.disturbed
<1>1. u = [pc |-> u.pc, phase |-> u.phase, frames |-> u.frames, at |-> u.at,
           found |-> u.found, pad |-> u.pad, disturbed |-> u.disturbed]
  BY DEF Unwinding
<1>2. v = [pc |-> to, phase |-> u.phase, frames |-> u.frames, at |-> u.at,
           found |-> u.found, pad |-> u.pad, disturbed |-> u.disturbed]
  BY <1>1 DEF Turned
<1> QED BY <1>2 DEF Unwinding

LEMMA PaddedFields ==
  ASSUME NEW u \in Unwinding, NEW x \in 0..Slots * SlotSize, NEW v, v = Padded(u, x)
  PROVE  /\ v \in Unwinding /\ v.frames = u.frames /\ v.pc = "personality" /\ v.at = u.at
         /\ v.pad = x /\ v.phase = u.phase /\ v.found = u.found /\ v.disturbed = u.disturbed
<1>1. u = [pc |-> u.pc, phase |-> u.phase, frames |-> u.frames, at |-> u.at,
           found |-> u.found, pad |-> u.pad, disturbed |-> u.disturbed]
  BY DEF Unwinding
<1>2. v = [pc |-> "personality", phase |-> u.phase, frames |-> u.frames, at |-> u.at,
           found |-> u.found, pad |-> x, disturbed |-> u.disturbed]
  BY <1>1 DEF Padded
<1> QED BY <1>2 DEF Unwinding, UnwindPc

LEMMA StepReplaceStep ==
  ASSUME UnwindInv, NEW t \in Thread, StepReplace(t)
  PROVE  UnwindInv'
<1> PICK u : u = unwinding[t]
  OBVIOUS
<1>1. /\ state = "running" /\ u.pc = "step" /\ UNCHANGED <<image, customEhMem>>
      /\ u \in Unwinding /\ WalkInv(u) /\ KnownInv(u) /\ u.found \in 0..Len(u.frames)
      /\ unwinding \in [Thread -> Unwinding]
  BY DEF StepReplace, At, UnwindInv, UnwindType, ThreadInv
<1>2. /\ u.at \in Nat /\ u.found \in Nat /\ Len(u.frames) \in Nat /\ u.frames \in Seq(Frames)
      /\ u.phase \in 1..2 /\ u.at < Len(u.frames)
  BY <1>1 DEF WalkInv, Unwinding
<1> PICK n : n = u.at + 1
  OBVIOUS
<1> PICK f : f = u.frames[n]
  OBVIOUS
<1>3. n \in 1..Len(u.frames) /\ n \in Nat /\ n \in 0..Len(u.frames)
  BY <1>2
<1>4. f \in Frames /\ f.address \in Nat
  BY <1>3, AtFrame
<1>5. \A i \in 1..u.at : Passed(u.frames[i])
  BY <1>1 DEF WalkInv
<1>6. ASSUME ~Passed(f), NEW v, v.frames = u.frames PROVE StopsAt(v, n)
  BY <1>2, <1>3, <1>5, <1>6 DEF StopsAt
<1>7. ASSUME NEW v, v = Moved(u, n, "mark"), IsCustomEhMem(f.address),
             unwinding' = [unwinding EXCEPT ![t] = v], UNCHANGED state
      PROVE  UnwindInv'
  <2>1. /\ v \in Unwinding /\ v.frames = u.frames /\ v.pc = "mark" /\ v.at = n
        /\ v.phase = u.phase /\ v.found = u.found /\ v.disturbed = u.disturbed
    <3>1. u \in Unwinding /\ n \in Nat /\ "mark" \in UnwindPc /\ v = Moved(u, n, "mark")
      BY <1>1, <1>3, <1>7 DEF UnwindPc
    <3> QED BY <3>1, MovedFields
  <2>2. ~GameFrame(f)
    BY <1>4, <1>7, CustomIsNoGame DEF UnwindInv, GameFrame
  <2>3. StopsAt(v, v.at) /\ ~GameFrame(v.frames[v.at])
    BY <1>6, <2>1, <2>2 DEF Passed
  <2>4. WalkInv(v)
    BY <1>1, <2>1, <2>3 DEF WalkInv, InPersonality, StopsAt
  <2>5. KnownInv(v) /\ PadInv(v)
    BY <1>1, <2>1 DEF KnownInv, PadInv, InPersonality
  <2> QED BY <1>1, <1>3, <1>7, <2>1, <2>4, <2>5, Alone
<1>8. ASSUME NEW v, v = Moved(u, n, "step"), GameFrame(f), ~f.catches,
             unwinding' = [unwinding EXCEPT ![t] = v], UNCHANGED state
      PROVE  UnwindInv'
  <2>1. /\ v \in Unwinding /\ v.frames = u.frames /\ v.pc = "step" /\ v.at = n
        /\ v.phase = u.phase /\ v.found = u.found /\ v.disturbed = u.disturbed
    <3>1. u \in Unwinding /\ n \in Nat /\ "step" \in UnwindPc /\ v = Moved(u, n, "step")
      BY <1>1, <1>3, <1>8 DEF UnwindPc
    <3> QED BY <3>1, MovedFields
  <2>2. \A i \in 1..n : Passed(u.frames[i])
    BY <1>2, <1>5, <1>8 DEF Passed
  <2>3. PICK i \in 1..Len(u.frames) : ~Passed(u.frames[i])
    BY <1>1 DEF WalkInv, Passed
  <2>4. n < Len(u.frames)
    BY <1>2, <1>3, <2>2, <2>3
  <2>5. WalkInv(v)
    BY <1>1, <2>1, <2>2, <2>4 DEF WalkInv, InPersonality, StopsAt
  <2>6. KnownInv(v) /\ PadInv(v)
    BY <1>1, <2>1 DEF KnownInv, PadInv, InPersonality
  <2> QED BY <1>1, <1>3, <1>8, <2>1, <2>5, <2>6, Alone
<1>9. ASSUME NEW v, v = Again(u, n),
             GameFrame(f), f.catches, unwinding' = [unwinding EXCEPT ![t] = v], UNCHANGED state
      PROVE  UnwindInv'
  <2>1. /\ v \in Unwinding /\ v.frames = u.frames /\ v.pc = "step" /\ v.at = 0
        /\ v.phase = 2 /\ v.found = n /\ v.disturbed = u.disturbed
    <3>1. u \in Unwinding /\ n \in Nat /\ v = Again(u, n)
      BY <1>1, <1>3, <1>9
    <3>2. /\ Again(u, n) \in Unwinding
          /\ Again(u, n).frames = u.frames /\ Again(u, n).pc = u.pc /\ Again(u, n).at = 0
          /\ Again(u, n).phase = 2 /\ Again(u, n).found = n
          /\ Again(u, n).disturbed = u.disturbed
      BY <3>1, AgainFields
    <3> QED BY <1>1, <3>1, <3>2
  <2>2. StopsAt(v, v.found) /\ v.at < Len(v.frames) /\ v.at \in 0..Len(v.frames)
    <3>1. ~Passed(f)
      BY <1>9 DEF Passed
    <3>2. StopsAt(v, n)
      BY <1>6, <2>1, <3>1
    <3> QED BY <1>2, <1>3, <2>1, <3>2
  <2>3. WalkInv(v)
    BY <1>1, <2>1, <2>2 DEF WalkInv, InPersonality
  <2>4. KnownInv(v) /\ PadInv(v)
    BY <1>1, <2>1 DEF KnownInv, PadInv, InPersonality
  <2> QED BY <1>1, <1>3, <1>9, <2>1, <2>2, <2>3, <2>4, Alone
<1>10. ASSUME NEW v, v = Moved(u, n, "landed"), u.phase = 2,
              GameFrame(f), f.catches, unwinding' = [unwinding EXCEPT ![t] = v], UNCHANGED state
       PROVE  UnwindInv'
  <2>1. /\ v \in Unwinding /\ v.frames = u.frames /\ v.pc = "landed" /\ v.at = n
        /\ v.phase = 2 /\ v.found = u.found /\ v.disturbed = u.disturbed
    <3>1. u \in Unwinding /\ n \in Nat /\ "landed" \in UnwindPc /\ v = Moved(u, n, "landed")
      BY <1>1, <1>3, <1>10 DEF UnwindPc
    <3> QED BY <3>1, <1>10, MovedFields
  <2>2. StopsAt(v, v.at)
    BY <1>6, <1>10, <2>1 DEF Passed
  <2>3. WalkInv(v)
    BY <1>1, <1>10, <2>1, <2>2 DEF WalkInv, InPersonality, StopsAt
  <2>4. KnownInv(v) /\ PadInv(v)
    BY <1>1, <1>10, <2>1 DEF KnownInv, PadInv, InPersonality
  <2> QED BY <1>1, <1>3, <1>10, <2>1, <2>3, <2>4, Alone
<1>11. ASSUME NEW v, v = Moved(u, n, "dead"), ~IsCustomEhMem(f.address),
              ~GameFrame(f), unwinding' = [unwinding EXCEPT ![t] = v], state' = "aborted"
       PROVE  UnwindInv'
  <2>1. /\ v \in Unwinding /\ v.frames = u.frames /\ v.pc = "dead" /\ v.at = n
        /\ v.phase = u.phase /\ v.found = u.found /\ v.disturbed = u.disturbed
    <3>1. u \in Unwinding /\ n \in Nat /\ "dead" \in UnwindPc /\ v = Moved(u, n, "dead")
      BY <1>1, <1>3, <1>11 DEF UnwindPc
    <3> QED BY <3>1, MovedFields
  <2>2. v.disturbed
    BY <1>3, <1>11, <2>1, AtFrame
  <2> QED BY <1>1, <1>3, <1>11, <2>1, <2>2, Dying
<1>12. \A to : [unwinding EXCEPT ![t].at = @ + 1, ![t].pc = to]
               = [unwinding EXCEPT ![t] = Moved(u, n, to)]
  BY <1>1 DEF Moved
<1>13. [unwinding EXCEPT ![t].phase = 2, ![t].found = n, ![t].at = 0]
       = [unwinding EXCEPT ![t] = Again(u, n)]
  BY <1>1 DEF Again
<1>14. \/ IsCustomEhMem(f.address) /\ UNCHANGED state
          /\ unwinding' = [unwinding EXCEPT ![t] = Moved(u, n, "mark")]
       \/ /\ GameFrame(f) /\ ~f.catches /\ UNCHANGED state
          /\ unwinding' = [unwinding EXCEPT ![t] = Moved(u, n, "step")]
       \/ /\ GameFrame(f) /\ f.catches /\ UNCHANGED state
          /\ unwinding' = [unwinding EXCEPT ![t] = Again(u, n)]
       \/ /\ GameFrame(f) /\ f.catches /\ u.phase = 2 /\ UNCHANGED state
          /\ unwinding' = [unwinding EXCEPT ![t] = Moved(u, n, "landed")]
       \/ /\ ~IsCustomEhMem(f.address) /\ ~GameFrame(f) /\ state' = "aborted"
          /\ unwinding' = [unwinding EXCEPT ![t] = Moved(u, n, "dead")]
  BY <1>12, <1>13, Zenon DEF StepReplace, GameFrame
<1> QED BY <1>7, <1>8, <1>9, <1>10, <1>11, <1>14

\* A frame of a plugin where a walk has stopped: what is known of it, and that
\* the exception should land there.
LEMMA AtPlugin ==
  ASSUME UnwindInv, NEW t \in Thread, NEW u, u = unwinding[t], u.pc \in InPersonality,
         NEW f, f = u.frames[u.at]
  PROVE  /\ u \in Unwinding /\ u.at \in 1..Len(u.frames) /\ u.at \in Nat /\ Len(u.frames) \in Nat
         /\ u.found \in 0..Len(u.frames) /\ f \in Frames /\ f.address \in Nat
         /\ WalkInv(u) /\ KnownInv(u) /\ PadInv(u) /\ StopsAt(u, u.at) /\ ~GameFrame(f)
         /\ ~u.disturbed => Known(f) /\ IsCustomEhMem(f.address)
<1>1. /\ WalkInv(u) /\ KnownInv(u) /\ PadInv(u) /\ u \in Unwinding
      /\ u.found \in 0..Len(u.frames)
  BY DEF UnwindInv, ThreadInv, UnwindType
<1>2. StopsAt(u, u.at) /\ ~GameFrame(f)
  BY <1>1 DEF WalkInv
<1>3. u.at \in 1..Len(u.frames)
  BY <1>2 DEF StopsAt
<1>4. f \in Frames /\ f.address \in Nat /\ Len(u.frames) \in Nat
  BY <1>3, AtFrame
<1>5. ~u.disturbed => Known(f) /\ IsCustomEhMem(f.address)
  BY <1>2, <1>3, AtFrame
<1> QED BY <1>1, <1>2, <1>3, <1>4, <1>5

LEMMA NotMarked ==
  ASSUME NEW v \in Unwinding, NEW i, StopsAt(v, i), NEW f, f = v.frames[i], Pads(f) = {},
         ~GameFrame(f)
  PROVE  ~Marked(v)
<1>1. Handler(v) = i
  BY StopsAtHandler
<1> QED BY <1>1 DEF Marked, InPlugin, GameFrame

\* A walk of a thread that is in a plugin's frame, and dies.
LEMMA DyingInPlugin ==
  ASSUME UnwindInv, NEW t \in Thread, NEW u, u = unwinding[t], u.pc \in InPersonality,
         NEW f, f = u.frames[u.at], u.disturbed \/ Pads(f) = {},
         unwinding' = [unwinding EXCEPT ![t] = Turned(u, "dead")],
         UNCHANGED <<image, customEhMem>>, state = "running", state' \in {"aborted", "faulted"}
  PROVE  UnwindInv'
<1>1. /\ u \in Unwinding /\ u.at \in 0..Len(u.frames) /\ StopsAt(u, u.at) /\ ~GameFrame(f)
      /\ "dead" \in UnwindPc
  BY AtPlugin DEF UnwindPc
<1> PICK v : v = Turned(u, "dead")
  OBVIOUS
<1>2. /\ v \in Unwinding /\ v.frames = u.frames /\ v.pc = "dead" /\ v.at = u.at
      /\ v.phase = u.phase /\ v.found = u.found /\ v.disturbed = u.disturbed
  BY <1>1, TurnedFields
<1>3. StopsAt(v, v.at) /\ f = v.frames[v.at]
  BY <1>1, <1>2 DEF StopsAt
<1>4. v.disturbed \/ ~Marked(v)
  BY <1>1, <1>2, <1>3, NotMarked
<1>5. u.pc # "idle"
  BY DEF InPersonality
<1> QED BY <1>1, <1>2, <1>4, <1>5, Dying

LEMMA MakeInfoStep ==
  ASSUME UnwindInv, NEW t \in Thread, MakeInfo(t)
  PROVE  UnwindInv'
<1> PICK u : u = unwinding[t]
  OBVIOUS
<1> PICK f : f = u.frames[u.at]
  OBVIOUS
<1> PICK pc_end : pc_end = ByteSearch(f.address)
  OBVIOUS
<1>1. /\ state = "running" /\ u.pc = "mark" /\ UNCHANGED <<image, customEhMem>>
      /\ u.pc \in InPersonality
  BY DEF MakeInfo, At, InPersonality
<1>2. /\ u \in Unwinding /\ u.at \in 1..Len(u.frames) /\ u.at \in Nat /\ Len(u.frames) \in Nat
      /\ u.found \in 0..Len(u.frames) /\ f \in Frames /\ f.address \in Nat
      /\ WalkInv(u) /\ KnownInv(u) /\ PadInv(u) /\ StopsAt(u, u.at) /\ ~GameFrame(f)
      /\ ~u.disturbed => Known(f) /\ IsCustomEhMem(f.address)
  BY <1>1, AtPlugin
<1>3. pc_end \in {Null, -1} \cup 0..Slots * SlotSize - 1
  BY <1>2, ByteSearchType
<1>4. ASSUME ~u.disturbed, Pads(f) # {}
      PROVE  pc_end \in Nat /\ pc_end + 1 = FirstOf(Pads(f))
  BY <1>2, <1>4, ByteSearchFinds
<1>5. Null \notin Int
  BY UnwindAssumption
<1>6. ASSUME pc_end \in {Null, -1}, state' \in {"aborted", "faulted"},
             unwinding' = [unwinding EXCEPT ![t] = Turned(u, "dead")]
      PROVE  UnwindInv'
  <2>1. u.disturbed \/ Pads(f) = {}
    BY <1>4, <1>5, <1>6
  <2> QED BY <1>1, <1>6, <2>1, DyingInPlugin
<1>7. ASSUME u.phase = 1, NEW v, v = Turned(Again(u, u.at), "step"), UNCHANGED state,
             unwinding' = [unwinding EXCEPT ![t] = v]
      PROVE  UnwindInv'
  <2> PICK w : w = Again(u, u.at)
    OBVIOUS
  <2>1. /\ w \in Unwinding /\ w.frames = u.frames /\ w.at = 0
        /\ w.phase = 2 /\ w.found = u.at /\ w.disturbed = u.disturbed
    BY <1>2, AgainFields
  <2>2. "step" \in UnwindPc /\ v = Turned(w, "step")
    BY <1>7 DEF UnwindPc
  <2>3. /\ v \in Unwinding /\ v.frames = u.frames /\ v.pc = "step" /\ v.at = 0
        /\ v.phase = 2 /\ v.found = u.at /\ v.disturbed = u.disturbed
    BY <2>1, <2>2, TurnedFields
  <2>4. StopsAt(v, v.found) /\ v.at < Len(v.frames) /\ v.at \in 0..Len(v.frames)
        /\ v.found \in 0..Len(v.frames)
    BY <1>2, <2>3 DEF StopsAt
  <2>5. WalkInv(v)
    BY <1>1, <1>2, <2>3, <2>4 DEF WalkInv, InPersonality
  <2>6. KnownInv(v) /\ PadInv(v)
    BY <1>2, <2>3 DEF KnownInv, PadInv, InPersonality
  <2> QED BY <1>1, <1>7, <2>3, <2>4, <2>5, <2>6, Alone
<1>8. ASSUME u.phase = 2, pc_end \notin {Null, -1}, UNCHANGED state,
             NEW x, x = pc_end + 1, NEW v, v = Padded(u, x),
             unwinding' = [unwinding EXCEPT ![t] = v]
      PROVE  UnwindInv'
  <2>1. x \in 0..Slots * SlotSize
    BY <1>3, <1>8, UnwindAssumption
  <2>2. /\ v \in Unwinding /\ v.frames = u.frames /\ v.pc = "personality" /\ v.at = u.at
        /\ v.pad = x /\ v.phase = 2 /\ v.found = u.found /\ v.disturbed = u.disturbed
    BY <1>2, <1>8, <2>1, PaddedFields
  <2>3. WalkInv(v)
    BY <1>1, <1>2, <1>8, <2>2 DEF WalkInv, InPersonality, StopsAt
  <2>4. KnownInv(v)
    BY <1>2, <2>2 DEF KnownInv
  <2>5. PadInv(v)
    BY <1>4, <1>8, <2>2 DEF PadInv
  <2>6. v.at \in 0..Len(v.frames) /\ v.found \in 0..Len(v.frames) /\ v.pc # "dead"
    BY <1>2, <2>2
  <2> QED BY <1>1, <1>8, <2>2, <2>3, <2>4, <2>5, <2>6, Alone
<1>9. \/ /\ pc_end \in {Null, -1} /\ state' \in {"aborted", "faulted"}
         /\ unwinding' = [unwinding EXCEPT ![t] = Turned(u, "dead")]
      \/ /\ u.phase = 1 /\ UNCHANGED state
         /\ unwinding' = [unwinding EXCEPT ![t] = Turned(Again(u, u.at), "step")]
      \/ /\ u.phase = 2 /\ pc_end \notin {Null, -1} /\ UNCHANGED state
         /\ unwinding' = [unwinding EXCEPT ![t] = Padded(u, pc_end + 1)]
  <2>1. [unwinding EXCEPT ![t].pc = "dead"] = [unwinding EXCEPT ![t] = Turned(u, "dead")]
    BY DEF UnwindInv, UnwindType, Turned
  <2>2. [u EXCEPT !.phase = 2, !.found = u.at, !.at = 0, !.pc = "step"]
        = Turned(Again(u, u.at), "step")
    BY DEF Turned, Again
  <2>3. [u EXCEPT !.pad = pc_end + 1, !.pc = "personality"] = Padded(u, pc_end + 1)
    BY DEF Padded
  <2>4. u.phase \in {1, 2}
    BY <1>2 DEF Unwinding
  <2>5. \/ /\ pc_end \in {Null, -1} /\ state' \in {"aborted", "faulted"}
           /\ unwinding' = [unwinding EXCEPT ![t].pc = "dead"]
        \/ /\ pc_end \notin {Null, -1} /\ UNCHANGED state
           /\ unwinding' = [unwinding EXCEPT ![t] =
                IF u.phase = 1
                THEN [u EXCEPT !.phase = 2, !.found = u.at, !.at = 0, !.pc = "step"]
                ELSE [u EXCEPT !.pad = pc_end + 1, !.pc = "personality"]]
    BY Zenon DEF MakeInfo, Dies, Goes, Frame
  <2> QED BY <2>1, <2>2, <2>3, <2>4, <2>5
<1> QED BY <1>6, <1>7, <1>8, <1>9

LEMMA CustomEhPersonalityStep ==
  ASSUME UnwindInv, NEW t \in Thread, CustomEhPersonality(t)
  PROVE  UnwindInv'
<1> PICK u : u = unwinding[t]
  OBVIOUS
<1> PICK f : f = u.frames[u.at]
  OBVIOUS
<1>1. /\ state = "running" /\ u.pc \in {"personality", "pad", "install"}
      /\ UNCHANGED <<image, customEhMem>> /\ u.pc \in InPersonality
  BY DEF CustomEhPersonality, At, InPersonality
<1>2. /\ u \in Unwinding /\ u.at \in 1..Len(u.frames) /\ u.at \in Nat /\ Len(u.frames) \in Nat
      /\ u.found \in 0..Len(u.frames) /\ f \in Frames /\ f.address \in Nat
      /\ WalkInv(u) /\ KnownInv(u) /\ PadInv(u) /\ StopsAt(u, u.at) /\ ~GameFrame(f)
      /\ ~u.disturbed => Known(f) /\ IsCustomEhMem(f.address)
  BY <1>1, AtPlugin
<1>3. ASSUME ~u.disturbed, Pads(f) # {} PROVE IsCustomEhMem(u.pad) /\ Mapped(u.pad)
  <2>1. u.pad = FirstOf(Pads(f))
    BY <1>1, <1>2, <1>3 DEF PadInv, InPersonality
  <2> QED BY <1>2, <1>3, <2>1, ByteSearchFinds
<1>4. ASSUME NEW to \in {"pad", "install", "landed"}, NEW v, v = Turned(u, to),
             unwinding' = [unwinding EXCEPT ![t] = v], UNCHANGED state
      PROVE  UnwindInv'
  <2>1. to \in UnwindPc
    BY DEF UnwindPc
  <2>2. /\ v \in Unwinding /\ v.frames = u.frames /\ v.pc = to /\ v.at = u.at /\ v.pad = u.pad
        /\ v.phase = u.phase /\ v.found = u.found /\ v.disturbed = u.disturbed
    BY <1>2, <1>4, <2>1, TurnedFields
  <2>3. WalkInv(v)
    BY <1>1, <1>2, <2>2 DEF WalkInv, InPersonality, StopsAt
  <2>4. KnownInv(v)
    BY <1>2, <2>2 DEF KnownInv
  <2>5. PadInv(v)
    BY <1>1, <1>2, <2>2 DEF PadInv, InPersonality
  <2>6. v.at \in 0..Len(v.frames) /\ v.found \in 0..Len(v.frames) /\ v.pc # "dead"
    BY <1>2, <2>2
  <2> QED BY <1>1, <1>4, <2>2, <2>3, <2>4, <2>5, <2>6, Alone
<1>5. ASSUME unwinding' = [unwinding EXCEPT ![t] = Turned(u, "dead")],
             state' \in {"aborted", "faulted"}, u.disturbed \/ Pads(f) = {}
      PROVE  UnwindInv'
  BY <1>1, <1>5, DyingInPlugin
<1>6. \A to : [unwinding EXCEPT ![t].pc = to] = [unwinding EXCEPT ![t] = Turned(u, to)]
  BY DEF UnwindInv, UnwindType, Turned
<1>7. \/ \E to \in {"pad", "install", "landed"} :
           unwinding' = [unwinding EXCEPT ![t].pc = to] /\ UNCHANGED state
      \/ /\ unwinding' = [unwinding EXCEPT ![t].pc = "dead"] /\ state' \in {"aborted", "faulted"}
         /\ ~IsCustomEhMem(f.address) \/ ~IsCustomEhMem(u.pad) \/ ~Mapped(u.pad)
  BY Zenon DEF CustomEhPersonality, Dies, Goes, Frame
<1> QED BY <1>2, <1>3, <1>4, <1>5, <1>6, <1>7

LEMMA ElementOf == ASSUME NEW S, NEW s \in Seq(S) PROVE \A i \in 1..Len(s) : s[i] \in S
OBVIOUS

\* The stacks that a throw finds, and the unwinding it starts.
LEMMA StackFrames ==
  ASSUME NEW s \in Stacks
  PROVE  /\ DOMAIN s = 1..Len(s) /\ Len(s) \in Nat /\ Len(s) > 0
         /\ s[Len(s)].image = Game /\ s[Len(s)].catches
         /\ \A i \in 1..Len(s) :
              /\ s[i].image \in Image /\ s[i].cell \in 0..SlotSize - 1 /\ s[i].catches \in BOOLEAN
              /\ InFunction(s[i].image, s[i].cell)
<1>1. /\ s \in Seq([image : Image, cell : 0..SlotSize - 1, catches : BOOLEAN])
      /\ Len(s) > 0 /\ s[Len(s)].image = Game /\ s[Len(s)].catches
      /\ \A i \in DOMAIN s : InFunction(s[i].image, s[i].cell)
  BY CodeAssumption, Zenon DEF Last
<1>2. DOMAIN s = 1..Len(s) /\ Len(s) \in Nat
  BY <1>1
<1>3. \A i \in 1..Len(s) : s[i] \in [image : Image, cell : 0..SlotSize - 1, catches : BOOLEAN]
  BY <1>1, ElementOf, Zenon
<1> QED BY <1>1, <1>2, <1>3

Thrown(frames, disturbed) ==
  [Idle EXCEPT !.pc = "step", !.frames = frames, !.disturbed = disturbed]
LEMMA ThrownFields ==
  ASSUME NEW frames \in Seq(Frames), NEW disturbed \in BOOLEAN, NEW v, v = Thrown(frames, disturbed)
  PROVE  /\ v \in Unwinding /\ v.pc = "step" /\ v.frames = frames /\ v.phase = 1
         /\ v.at = 0 /\ v.found = 0 /\ v.disturbed = disturbed
<1>1. v = [pc |-> "step", phase |-> 1, frames |-> frames, at |-> 0, found |-> 0, pad |-> 0,
           disturbed |-> disturbed]
  BY DEF Idle, Thrown
<1>2. 0 \in 0..Slots * SlotSize
  BY UnwindAssumption
<1> QED BY <1>1, <1>2 DEF Unwinding, UnwindPc

LEMMA ThrowStep ==
  ASSUME UnwindInv, image \in [Slot -> Image \cup {Null}], NEW t \in Thread, Throw(t)
  PROVE  UnwindInv'
<1>1. PICK s \in Stacks :
        /\ \A i \in DOMAIN s : SlotsOf(s[i].image) # {}
        /\ LET frames == [i \in DOMAIN s |->
                 [address |-> (CHOOSE k \in SlotsOf(s[i].image) : TRUE) * SlotSize + s[i].cell,
                  catches |-> s[i].catches]]
           IN unwinding' = [unwinding EXCEPT ![t] =
                [Idle EXCEPT !.pc = "step", !.frames = frames,
                   !.disturbed = \E f \in Range(frames) : InPlugin(f) /\ ~Registered(f)]]
  BY DEF Throw
<1> DEFINE slot(i) == CHOOSE k \in SlotsOf(s[i].image) : TRUE
           frame(i) == [address |-> slot(i) * SlotSize + s[i].cell, catches |-> s[i].catches]
<1> PICK frames : frames = [i \in DOMAIN s |-> frame(i)]
  OBVIOUS
<1>2. /\ state = "running" /\ UNCHANGED <<image, customEhMem, state>>
      /\ unwinding' = [unwinding EXCEPT ![t] =
           [Idle EXCEPT !.pc = "step", !.frames = frames,
              !.disturbed = \E f \in Range(frames) : InPlugin(f) /\ ~Registered(f)]]
  BY <1>1 DEF Throw
<1>3. /\ DOMAIN s = 1..Len(s) /\ Len(s) \in Nat /\ Len(s) > 0
      /\ s[Len(s)].image = Game /\ s[Len(s)].catches
  BY StackFrames
<1>4. ASSUME NEW i \in 1..Len(s)
      PROVE  /\ frame(i) \in Frames /\ image[SlotOf(frame(i).address)] = s[i].image
             /\ Cell(frame(i).address) = s[i].cell /\ frame(i).catches = s[i].catches
             /\ s[i].image \in Image /\ InFunction(s[i].image, s[i].cell)
  <2>1. /\ s[i].image \in Image /\ s[i].cell \in 0..SlotSize - 1 /\ s[i].catches \in BOOLEAN
        /\ InFunction(s[i].image, s[i].cell)
    BY StackFrames
  <2>2. slot(i) \in SlotsOf(s[i].image)
    BY <1>1, <1>3
  <2>3. slot(i) \in Slot /\ image[slot(i)] = s[i].image
    BY <2>2 DEF SlotsOf
  <2> HIDE DEF slot
  <2>4. /\ SlotOf(slot(i) * SlotSize + s[i].cell) = slot(i)
        /\ Cell(slot(i) * SlotSize + s[i].cell) = s[i].cell
        /\ slot(i) * SlotSize + s[i].cell \in 0..Slots * SlotSize - 1
    BY <2>1, <2>3, AddressOf
  <2> QED BY <2>1, <2>3, <2>4 DEF Frames
<1> HIDE DEF frame
<1>5. frames \in Seq(Frames) /\ Len(frames) = Len(s) /\ \A i \in 1..Len(s) : frames[i] = frame(i)
  <2>1. DOMAIN frames = 1..Len(s) /\ frames \in [1..Len(s) -> Frames]
    BY <1>3, <1>4
  <2> QED BY <1>3, <2>1
<1> PICK disturbed \in BOOLEAN :
      /\ ~disturbed => \A f \in Range(frames) : InPlugin(f) => Registered(f)
      /\ unwinding' = [unwinding EXCEPT ![t] = Thrown(frames, disturbed)]
  <2>1. \E d \in BOOLEAN : d = \E f \in Range(frames) : InPlugin(f) /\ ~Registered(f)
    OBVIOUS
  <2> QED BY <1>2, <2>1, Zenon DEF Thrown
<1> PICK v : v = Thrown(frames, disturbed)
  OBVIOUS
<1>6. /\ v \in Unwinding /\ v.pc = "step" /\ v.frames = frames /\ v.phase = 1
      /\ v.at = 0 /\ v.found = 0 /\ v.disturbed = disturbed
  BY <1>5, ThrownFields
<1>7. WalkInv(v)
  <2>1. GameFrame(frames[Len(s)]) /\ frames[Len(s)].catches /\ Len(s) \in 1..Len(frames)
    BY <1>3, <1>4, <1>5 DEF GameFrame
  <2>2. v.at < Len(v.frames) /\ \A i \in 1..v.at : Passed(v.frames[i])
    BY <1>3, <1>5, <1>6
  <2>3. \E i \in 1..Len(v.frames) : GameFrame(v.frames[i]) /\ v.frames[i].catches
    BY <1>6, <2>1
  <2> QED BY <1>6, <2>2, <2>3 DEF WalkInv, InPersonality
<1>8. KnownInv(v)
  <2> SUFFICES ASSUME ~disturbed, NEW i \in 1..Len(s) PROVE Known(frames[i])
    BY <1>5, <1>6, Zenon DEF KnownInv
  <2>1. frames[i] \in Range(frames)
    BY <1>3, <1>5 DEF Range
  <2> QED BY <1>4, <1>5, <2>1 DEF Known, InPlugin
<1>9. PadInv(v)
  BY <1>6 DEF PadInv, InPersonality
<1>10. unwinding' = [unwinding EXCEPT ![t] = v]
  OBVIOUS
<1>11. v.at \in 0..Len(v.frames) /\ v.found \in 0..Len(v.frames) /\ v.pc # "dead"
  <2>1. Len(frames) \in Nat
    BY <1>3, <1>5
  <2> QED BY <1>6, <2>1
<1>12. state' \in {"running", "aborted", "faulted"}
  BY <1>2
<1> QED BY <1>2, <1>6, <1>7, <1>8, <1>9, <1>10, <1>11, <1>12, Alone

-----------------------------------------------------------------------------
(* What else happens to images and regions.                                *)

\* The unwindings that a change leaves undisturbed find their images, and those
\* of plugins known, as before.
LEMMA Undisturbed ==
  ASSUME UnwindInv, state = "running", NEW t \in Thread, NEW u, u = unwinding[t],
         NEW v, v = unwinding'[t], v = [u EXCEPT !.disturbed = v.disturbed],
         \A k \in Slot : image'[k] = Game <=> image[k] = Game,
         ~v.disturbed =>
           /\ ~u.disturbed
           /\ \A i \in 1..Len(u.frames) :
                /\ image'[SlotOf(u.frames[i].address)] = image[SlotOf(u.frames[i].address)]
                /\ Registered(u.frames[i]) => Registered(u.frames[i])'
  PROVE  ThreadInv(t)'
<1>1. u \in Unwinding /\ WalkInv(u) /\ KnownInv(u) /\ PadInv(u) /\ u.pc # "dead"
  BY DEF UnwindInv, UnwindType, ThreadInv, DeadInv
<1>2. /\ v.pc = u.pc /\ v.phase = u.phase /\ v.frames = u.frames /\ v.at = u.at
      /\ v.found = u.found /\ v.pad = u.pad
  BY <1>1 DEF Unwinding
<1>3. u.frames \in Seq(Frames) /\ Len(u.frames) \in Nat
  BY <1>1 DEF Unwinding
<1>4. \A i \in 1..Len(u.frames) : GameFrame(u.frames[i])' <=> GameFrame(u.frames[i])
  <2> SUFFICES ASSUME NEW i \in 1..Len(u.frames)
               PROVE  GameFrame(u.frames[i])' <=> GameFrame(u.frames[i])
    OBVIOUS
  <2>1. SlotOf(u.frames[i].address) \in Slot
    BY <1>3, FrameAddress
  <2> QED BY <2>1 DEF GameFrame
<1>5. \A i \in 1..Len(u.frames) : Passed(u.frames[i])' <=> Passed(u.frames[i])
  BY <1>4 DEF Passed
<1>6. u.at \in 0..Len(u.frames) /\ u.at \in Nat
  BY DEF UnwindInv, UnwindType, Unwinding
<1>7. \A i : StopsAt(v, i)' <=> StopsAt(u, i)
  <2> SUFFICES ASSUME NEW i, i \in 1..Len(u.frames) PROVE StopsAt(v, i)' <=> StopsAt(u, i)
    BY <1>2 DEF StopsAt
  <2>1. \A j \in 1..i - 1 : j \in 1..Len(u.frames)
    BY <1>3
  <2> QED BY <1>2, <1>5, <2>1 DEF StopsAt
<1>8. WalkInv(unwinding[t])'
  <2>1. v.pc # "idle" =>
          \E i \in 1..Len(v.frames) : GameFrame(v.frames[i])' /\ v.frames[i].catches
    BY <1>1, <1>2, <1>4 DEF WalkInv
  <2>2. v.pc = "step" => v.at < Len(v.frames) /\ \A i \in 1..v.at : Passed(v.frames[i])'
    <3>1. \A j \in 1..u.at : j \in 1..Len(u.frames)
      BY <1>3, <1>6
    <3> QED BY <1>1, <1>2, <1>5, <3>1 DEF WalkInv
  <2>3. /\ v.pc \in InPersonality \cup {"landed"} => StopsAt(v, v.at)'
        /\ v.phase = 2 => StopsAt(v, v.found)'
        /\ v.pc \in (InPersonality \ {"mark"}) \cup {"landed"} => v.phase = 2
    BY <1>1, <1>2, <1>7 DEF WalkInv
  <2>4. v.pc \in InPersonality => ~GameFrame(v.frames[v.at])'
    BY <1>1, <1>2, <1>4 DEF WalkInv, StopsAt
  <2> QED BY <2>1, <2>2, <2>3, <2>4 DEF WalkInv
<1>9. KnownInv(unwinding[t])'
  <2>1. ASSUME ~v.disturbed, NEW i \in 1..Len(u.frames) PROVE Known(u.frames[i])'
    BY <1>1, <2>1 DEF KnownInv, Known
  <2> QED BY <1>2, <2>1 DEF KnownInv
<1>10. PadInv(unwinding[t])'
  <2>1. ASSUME ~v.disturbed, v.pc \in (InPersonality \ {"mark"}) \cup {"landed"},
               ~GameFrame(v.frames[v.at])', Pads(v.frames[v.at])' # {}
        PROVE  v.pad = FirstOf(Pads(v.frames[v.at])')
    <3>1. u.at \in 1..Len(u.frames)
      BY <1>1, <1>2, <2>1 DEF WalkInv, StopsAt
    <3>2. Pads(u.frames[u.at])' = Pads(u.frames[u.at]) /\ ~GameFrame(u.frames[u.at])
      BY <1>2, <1>4, <2>1, <3>1 DEF Pads
    <3>3. u.pad = FirstOf(Pads(u.frames[u.at]))
      BY <1>1, <1>2, <2>1, <3>2 DEF PadInv
    <3> QED BY <1>2, <3>2, <3>3
  <2> QED BY <2>1 DEF PadInv, FirstOf
<1>11. DeadInv(unwinding[t])'
  BY <1>1, <1>2 DEF DeadInv
<1> QED BY <1>8, <1>9, <1>10, <1>11 DEF ThreadInv

LEMMA BasesApart ==
  ASSUME NEW j \in Slot, NEW k \in Slot, j * SlotSize = k * SlotSize
  PROVE  j = k
<1>1. 0 \in 0..SlotSize - 1 /\ j * SlotSize \in Nat /\ k * SlotSize \in Nat
  BY UnwindAssumption DEF Slot
<1>2. SlotOf(j * SlotSize + 0) = j /\ SlotOf(k * SlotSize + 0) = k
  BY <1>1, AddressOf
<1> QED BY <1>1, <1>2

LEMMA DisturbedFields ==
  ASSUME NEW u \in Unwinding, NEW v \in {u, [u EXCEPT !.disturbed = TRUE]}
  PROVE  /\ v \in Unwinding /\ v.frames = u.frames /\ v.at = u.at /\ v.found = u.found
         /\ v = [u EXCEPT !.disturbed = v.disturbed] /\ (u.disturbed => v.disturbed)
<1>1. u = [pc |-> u.pc, phase |-> u.phase, frames |-> u.frames, at |-> u.at,
           found |-> u.found, pad |-> u.pad, disturbed |-> u.disturbed]
  BY DEF Unwinding
<1>2. ASSUME v = [u EXCEPT !.disturbed = TRUE]
      PROVE  v = [pc |-> u.pc, phase |-> u.phase, frames |-> u.frames, at |-> u.at,
                  found |-> u.found, pad |-> u.pad, disturbed |-> TRUE]
  BY <1>1, <1>2
<1>3. CASE v = u
  <2>1. u = [u EXCEPT !.disturbed = u.disturbed]
    BY DEF Unwinding
  <2> QED BY <1>3, <2>1
<1>4. CASE v = [u EXCEPT !.disturbed = TRUE]
  <2>1. v.disturbed = TRUE /\ v.frames = u.frames /\ v.at = u.at /\ v.found = u.found
    BY <1>2, <1>4
  <2>2. v \in Unwinding
    BY <1>2, <1>4 DEF Unwinding
  <2> QED BY <1>4, <2>1, <2>2
<1> QED BY <1>3, <1>4

\* A change to the image or to the regions of a slot that is not the game's.
LEMMA SlotChanges ==
  ASSUME UnwindInv, NEW k \in Slot, image[k] # Game, image'[k] # Game,
         unwinding' = Disturbed(k), state = "running", UNCHANGED state,
         \A j \in Slot \ {k} : image'[j] = image[j],
         \A m : m.base # k * SlotSize => (m \in customEhMem' <=> m \in customEhMem),
         \A m \in customEhMem' : m.base = k * SlotSize => m.end \in m.base + 1..m.base + SlotSize
  PROVE  UnwindInv'
<1>1. RegionInv'
  <2> SUFFICES ASSUME NEW m \in customEhMem'
               PROVE  \E j \in Slot : /\ m.base = j * SlotSize /\ image'[j] # Game
                                      /\ m.end \in m.base + 1..m.base + SlotSize
    BY DEF RegionInv
  <2>1. CASE m.base = k * SlotSize
    BY <2>1
  <2>2. CASE m.base # k * SlotSize
    <3>1. PICK j \in Slot : /\ m.base = j * SlotSize /\ image[j] # Game
                            /\ m.end \in m.base + 1..m.base + SlotSize
      BY <2>2 DEF UnwindInv, RegionInv
    <3> QED BY <2>2, <3>1
  <2> QED BY <2>1, <2>2
<1>2. ASSUME NEW t \in Thread
      PROVE  /\ ThreadInv(t)' /\ unwinding'[t] \in Unwinding
             /\ unwinding'[t].at \in 0..Len(unwinding'[t].frames)
             /\ unwinding'[t].found \in 0..Len(unwinding'[t].frames)
  <2> PICK u : u = unwinding[t]
    OBVIOUS
  <2> PICK v : v = unwinding'[t]
    OBVIOUS
  <2>1. /\ u \in Unwinding /\ u.frames \in Seq(Frames)
        /\ u.at \in 0..Len(u.frames) /\ u.found \in 0..Len(u.frames)
    BY DEF UnwindInv, UnwindType, Unwinding
  <2>2. v = IF \E f \in Range(u.frames) : SlotOf(f.address) = k
            THEN [u EXCEPT !.disturbed = TRUE] ELSE u
    BY DEF Disturbed
  <2>3. /\ v \in Unwinding /\ v.frames = u.frames /\ v.at = u.at /\ v.found = u.found
        /\ v = [u EXCEPT !.disturbed = v.disturbed] /\ (u.disturbed => v.disturbed)
    <3>1. v \in {u, [u EXCEPT !.disturbed = TRUE]}
      BY <2>2
    <3> QED BY <2>1, <3>1, DisturbedFields
  <2>4. ASSUME ~v.disturbed, NEW i \in 1..Len(u.frames)
        PROVE  /\ image'[SlotOf(u.frames[i].address)] = image[SlotOf(u.frames[i].address)]
               /\ Registered(u.frames[i]) => Registered(u.frames[i])'
    <3> PICK f : f = u.frames[i]
      OBVIOUS
    <3>1. f \in Frames /\ f \in Range(u.frames)
      BY <2>1 DEF Range
    <3>2. SlotOf(f.address) # k
      <4>1. [u EXCEPT !.disturbed = TRUE].disturbed
        BY <2>1 DEF Unwinding
      <4> QED BY <2>2, <2>4, <3>1, <4>1
    <3> PICK j : j = SlotOf(f.address)
      OBVIOUS
    <3>3. j \in Slot
      BY <3>1, FrameAddress
    <3>4. image'[j] = image[j] /\ j * SlotSize # k * SlotSize
      BY <3>2, <3>3, BasesApart
    <3>5. Registered(f) => Registered(f)'
      <4> PICK m : m = QueryMemory(f.address)
        OBVIOUS
      <4>1. m = QueryMemory(f.address)' /\ m.base # k * SlotSize
        BY <3>4 DEF QueryMemory
      <4> QED BY <4>1 DEF Registered
    <3> QED BY <3>4, <3>5
  <2>5. \A j \in Slot : image'[j] = Game <=> image[j] = Game
    OBVIOUS
  <2>6. ThreadInv(t)'
    BY <2>3, <2>4, <2>5, Undisturbed
  <2> QED BY <2>1, <2>3, <2>6
<1>3. UnwindType'
  <2>1. unwinding' \in [Thread -> Unwinding]
    BY <1>2 DEF Disturbed
  <2> QED BY <1>2, <2>1 DEF UnwindInv, UnwindType
<1> QED BY <1>1, <1>2, <1>3 DEF UnwindInv

\* An image that is mapped where there was none.
LEMMA SlotFilled ==
  ASSUME UnwindInv, image \in [Slot -> Image \cup {Null}], NEW k \in Slot, image[k] = Null,
         NEW b \in Image \ {Game}, image' = [image EXCEPT ![k] = b],
         UNCHANGED <<customEhMem, unwinding, state>>, state = "running"
  PROVE  UnwindInv'
<1>1. \A j \in Slot : image'[j] = Game <=> image[j] = Game
  BY UnwindAssumption
<1>2. RegionInv'
  BY <1>1 DEF UnwindInv, RegionInv
<1>3. ASSUME NEW t \in Thread PROVE ThreadInv(t)'
  <2> PICK u : u = unwinding[t]
    OBVIOUS
  <2>1. u \in Unwinding /\ u.frames \in Seq(Frames) /\ KnownInv(u)
    BY DEF UnwindInv, UnwindType, Unwinding, ThreadInv
  <2>2. u = unwinding'[t] /\ u = [u EXCEPT !.disturbed = u.disturbed]
    BY <2>1 DEF Unwinding
  <2>3. ASSUME ~u.disturbed, NEW i \in 1..Len(u.frames)
        PROVE  /\ image'[SlotOf(u.frames[i].address)] = image[SlotOf(u.frames[i].address)]
               /\ Registered(u.frames[i]) => Registered(u.frames[i])'
    <3> PICK f : f = u.frames[i]
      OBVIOUS
    <3>1. Known(f) /\ f \in Frames
      BY <2>1, <2>3 DEF KnownInv
    <3>2. SlotOf(f.address) # k /\ SlotOf(f.address) \in Slot
      BY <3>1, FrameAddress, UnwindAssumption DEF Known
    <3>3. image'[SlotOf(f.address)] = image[SlotOf(f.address)]
      BY <3>2
    <3> QED BY <3>3 DEF Registered, QueryMemory
  <2> QED BY <1>1, <2>2, <2>3, Undisturbed
<1> QED BY <1>2, <1>3 DEF UnwindInv, UnwindType

-----------------------------------------------------------------------------
(* The steps of Loader.                                                    *)

LEMMA PluginRegistersStep ==
  ASSUME UnwindInv, image \in [Slot -> Image \cup {Null}], NEW k \in Slot, PluginRegisters(k)
  PROVE  UnwindInv'
<1> PICK mem : mem = QueryMemory(k * SlotSize)
  OBVIOUS
<1>1. SlotOf(k * SlotSize) = k /\ k * SlotSize \in Nat
  <2>1. 0 \in 0..SlotSize - 1 /\ k * SlotSize \in Nat
    BY UnwindAssumption DEF Slot
  <2>2. SlotOf(k * SlotSize + 0) = k
    BY <2>1, AddressOf
  <2> QED BY <2>1, <2>2
<1>2. /\ state = "running" /\ image[k] \in Image /\ image[k] # Game /\ UNCHANGED <<image, state>>
      /\ \/ UNCHANGED <<customEhMem, unwinding>>
         \/ customEhMem' = customEhMem \cup {mem} /\ unwinding' = Disturbed(k)
  BY <1>1 DEF PluginRegisters, RegisterSkylinePlugin
<1>3. CASE UNCHANGED <<customEhMem, unwinding>>
  BY <1>2, <1>3, Same
<1>4. CASE customEhMem' = customEhMem \cup {mem} /\ unwinding' = Disturbed(k)
  <2>1. mem.base = k * SlotSize /\ mem.end = k * SlotSize + Code[image[k]].text
    BY <1>1 DEF QueryMemory
  <2>2. mem.end \in mem.base + 1..mem.base + SlotSize
    <3>1. Code[image[k]].text \in 1..SlotSize
      BY <1>2, CodeAssumption
    <3> PICK text : text = Code[image[k]].text
      OBVIOUS
    <3> QED BY <1>1, <2>1, <3>1, UnwindAssumption
  <2>3. \A m \in customEhMem : m.end \in m.base + 1..m.base + SlotSize
    BY DEF UnwindInv, RegionInv
  <2> QED BY <1>2, <1>4, <2>1, <2>2, <2>3, SlotChanges
<1> QED BY <1>2, <1>3, <1>4

LEMMA ReloadStepUnwinds ==
  ASSUME IInv, UnwindInv, NEW t \in Threads, Loads(t)
  PROVE  UnwindInv'
<1> PICK k : k = plugin[t].slot
  OBVIOUS
<1>1. /\ k \in Slot /\ image \in [Slot -> Image \cup {Null}]
      /\ Game \notin Dev /\ Null \notin Dev /\ Null # Game /\ Dev \subseteq Image \ {Game}
  BY LoaderAssumption, UnwindAssumption DEF IInv, LoaderType, Loaded
<1>2. pc[t] \in {"unregister", "unload"} => image[k] \in Dev
  BY DEF IInv, LInv, UninstallInv, Uninstalling, There, DevSlots
<1>3. CASE Unregister(t)
  <2>1. /\ state = "running" /\ pc[t] = "unregister" /\ UNCHANGED <<image, state>>
        /\ customEhMem' = Unregistered(k * SlotSize)
        /\ unwinding' = Disturbed(SlotOf(k * SlotSize))
    BY <1>3 DEF Unregister, On, UnregisterSkylinePlugin
  <2>2. SlotOf(k * SlotSize) = k
    <3>1. 0 \in 0..SlotSize - 1 /\ k * SlotSize \in Nat
      BY <1>1, UnwindAssumption DEF Slot
    <3>2. SlotOf(k * SlotSize + 0) = k
      BY <1>1, <3>1, AddressOf
    <3> QED BY <3>1, <3>2
  <2>3. \A m : m \in customEhMem' <=> m \in customEhMem /\ m.base # k * SlotSize
    BY <2>1 DEF Unregistered
  <2> QED BY <1>1, <1>2, <2>1, <2>2, <2>3, SlotChanges
<1>4. CASE UnloadModule(t)
  <2>1. /\ state = "running" /\ pc[t] = "unload" /\ UNCHANGED <<customEhMem, state>>
        /\ image' = [image EXCEPT ![k] = Null] /\ unwinding' = Disturbed(k)
    BY <1>4 DEF UnloadModule, On
  <2>2. image'[k] = Null /\ \A j \in Slot \ {k} : image'[j] = image[j]
    BY <1>1, <2>1
  <2>3. \A m \in customEhMem : m.end \in m.base + 1..m.base + SlotSize
    BY DEF UnwindInv, RegionInv
  <2> QED BY <1>1, <1>2, <2>1, <2>2, <2>3, SlotChanges
<1>5. CASE LoadModule(t)
  <2>1. CASE UNCHANGED unwindVars
    BY <2>1, Same DEF unwindVars
  <2>2. CASE ~UNCHANGED unwindVars
    <3>1. PICK j \in SlotsOf(Null), b \in Dev : image' = [image EXCEPT ![j] = b]
      BY <1>5, <2>2 DEF LoadModule, Fails
    <3>2. state = "running" /\ UNCHANGED <<customEhMem, unwinding, state>>
      BY <1>5, <2>2 DEF LoadModule, Fails, On
    <3>3. j \in Slot /\ image[j] = Null /\ b \in Image \ {Game}
      BY <1>1, <3>1 DEF SlotsOf
    <3> QED BY <1>1, <3>1, <3>2, <3>3, SlotFilled
  <2> QED BY <2>1, <2>2
<1>6. CASE Install(t)
  <2>1. UNCHANGED <<image, customEhMem, unwinding>> /\ state = "running"
        /\ state' \in {"running", "aborted"}
    BY <1>6 DEF Install, On, unwindVars
  <2> QED BY <2>1, Same
<1>7. CASE UnregisterModuleInfo(t) \/ ReadFile(t) \/ GetBufferSize(t) \/ RegisterModuleInfo(t)
  <2>1. UNCHANGED unwindVars
    BY <1>7 DEF UnregisterModuleInfo, ReadFile, GetBufferSize, RegisterModuleInfo, Fails
  <2> QED BY <2>1, Same DEF unwindVars
<1> QED BY <1>3, <1>4, <1>5, <1>6, <1>7 DEF Loads

LEMMA UnwindStep ==
  ASSUME IInv, UnwindInv, [Next]_vars
  PROVE  UnwindInv'
<1>1. image \in [Slot -> Image \cup {Null}]
  BY DEF IInv, LoaderType
<1>2. ASSUME UNCHANGED unwindVars PROVE UnwindInv'
  BY <1>2, Same DEF unwindVars
<1>3. ASSUME NEW t \in Threads, HidHook(t) \/ Decrement(t) \/ StorePeriod(t) \/ Lock(t)
      PROVE  UnwindInv'
  BY <1>2, <1>3 DEF HidHook, Decrement, StorePeriod, Lock
<1>4. ASSUME PollControllers PROVE UnwindInv'
  BY <1>2, <1>4 DEF PollControllers
<1>5. ASSUME Players PROVE UnwindInv'
  BY <1>1, <1>5, PluginRegistersStep, ThrowStep, StepReplaceStep, MakeInfoStep,
     CustomEhPersonalityStep DEF Players, Unwinds
<1>6. ASSUME UNCHANGED vars PROVE UnwindInv'
  BY <1>2, <1>6 DEF vars
<1> QED BY <1>3, <1>4, <1>5, <1>6, ReloadStepUnwinds DEF Next

LEMMA UnwindInitial == Init => UnwindInv
<1> SUFFICES ASSUME Init PROVE UnwindInv
  OBVIOUS
<1>1. customEhMem = {} /\ unwinding = [t \in Thread |-> Idle] /\ state = "running"
  BY DEF Init, UnwindInit
<1>2. /\ Idle \in Unwinding /\ Idle.pc = "idle" /\ Idle.frames = <<>> /\ Idle.at = 0
      /\ Idle.found = 0 /\ Idle.phase = 1
  <2>1. 0 \in 0..Slots * SlotSize
    BY UnwindAssumption
  <2>2. <<>> \in Seq(Frames)
    OBVIOUS
  <2> QED BY <2>1, <2>2 DEF Idle, Unwinding, UnwindPc
<1>3. UnwindType
  <2>1. Len(<<>>) = 0
    OBVIOUS
  <2> QED BY <1>1, <1>2, <2>1 DEF UnwindType
<1>4. RegionInv
  BY <1>1 DEF RegionInv
<1>5. ASSUME NEW t \in Thread PROVE ThreadInv(t)
  <2> PICK u : u = unwinding[t]
    OBVIOUS
  <2>1. u.pc = "idle" /\ u.frames = <<>> /\ u.phase = 1
    BY <1>1, <1>2
  <2>2. Len(u.frames) = 0
    BY <2>1
  <2>3. WalkInv(u)
    BY <2>1 DEF WalkInv, InPersonality
  <2>4. KnownInv(u) /\ PadInv(u) /\ DeadInv(u)
    BY <2>1, <2>2 DEF KnownInv, PadInv, DeadInv, InPersonality
  <2> QED BY <2>3, <2>4 DEF ThreadInv
<1> QED BY <1>3, <1>4, <1>5 DEF UnwindInv

-----------------------------------------------------------------------------
(* Theorems.                                                               *)

\* What is true at each point of a walk of the stack (unwind.rs:98-215): the
\* regions are of plugins' slots; the frames that were gone by are those of the
\* game that catch nothing; the one where a walk has stopped is the first other
\* one; and of an unwinding that nobody disturbed every frame of a plugin is in
\* a region, and its pad is that of its function.
THEOREM UnwindInvariant == Spec => []UnwindInv
<1>1. Init => UnwindInv
  BY UnwindInitial
<1>2. IInv /\ UnwindInv /\ [Next]_vars => UnwindInv'
  BY UnwindStep
<1> QED BY <1>1, <1>2, ReloadInvariant, PTL DEF Spec

\* Every variable of the loader and of the unwinding keeps its type.
THEOREM TypeCorrect == Spec => []TypeOK
<1>1. ASSUME IInv, UnwindInv PROVE TypeOK
  <2>1. UnwindTypeOK
    <3>1. \A t \in Thread : unwinding[t] \in Unwinding
      BY <1>1 DEF UnwindInv, UnwindType
    <3>2. \A m \in customEhMem : m.base \in Nat /\ m.end \in m.base + 1..m.base + SlotSize
      BY <1>1, UnwindAssumption DEF UnwindInv, RegionInv, Slot
    <3>3. \A t \in Thread : LET u == unwinding[t] IN
            /\ u.pc \in UnwindPc /\ u.phase \in 1..2 /\ u.pad \in 0..Slots * SlotSize
            /\ u.disturbed \in BOOLEAN
      BY <3>1 DEF Unwinding
    <3> QED BY <1>1, <3>2, <3>3
        DEF UnwindTypeOK, UnwindInv, UnwindType, IInv, LoaderType, UnwindPc
  <2>2. \A p \in {loaded} \cup Range(plugin) : p.n \in 0..MaxLoads /\ p.slot \in Slot
    BY <1>1 DEF IInv, LoaderType, Loaded, Range
  <2> QED BY <1>1, <2>1, <2>2 DEF TypeOK, IInv, LoaderType, Pc
<1> QED BY <1>1, ReloadInvariant, UnwindInvariant, PTL

\* An exception lands in the innermost frame that catches or is a plugin's, in
\* the pad of its own function (unwind.rs:108-176), for any code, stacks and
\* threads, and whatever is registered and reloaded meanwhile.
THEOREM ExceptionsLand == Spec => []LandsInHandler
<1>1. ASSUME UnwindInv PROVE LandsInHandler
  <2> SUFFICES ASSUME NEW t \in Thread, NEW u, u = unwinding[t],
                      u.pc = "landed", ~u.disturbed, Marked(u)
               PROVE  /\ u.at = Handler(u) /\ u.found = Handler(u)
                      /\ InPlugin(Frame(t)) => u.pad = FirstOf(Pads(Frame(t)))
    BY DEF LandsInHandler
  <2>1. u \in Unwinding /\ WalkInv(u) /\ PadInv(u)
    BY <1>1 DEF UnwindInv, UnwindType, ThreadInv
  <2>2. StopsAt(u, u.at) /\ StopsAt(u, u.found)
    BY <2>1 DEF WalkInv, InPersonality
  <2>3. u.at = Handler(u) /\ u.found = Handler(u)
    BY <2>1, <2>2, StopsAtHandler
  <2>4. Frame(t) = u.frames[u.at]
    BY DEF Frame
  <2>5. ASSUME InPlugin(u.frames[u.at]) PROVE u.pad = FirstOf(Pads(u.frames[u.at]))
    BY <2>1, <2>3, <2>5 DEF Marked, PadInv, InPlugin, GameFrame
  <2> QED BY <2>3, <2>4, <2>5
<1> QED BY <1>1, UnwindInvariant, PTL

\* A process dies of an unwinding only if a plugin's function on the stack has no
\* marker, or a plugin on the stack was not registered all along
\* (unwind.rs:118-215).
THEOREM OnlyDisturbedDie == Spec => []DiesOnlyIfDisturbed
<1>1. UnwindInv => DiesOnlyIfDisturbed
  BY DEF UnwindInv, ThreadInv, DeadInv, DiesOnlyIfDisturbed
<1> QED BY <1>1, UnwindInvariant, PTL
=============================================================================
