---------------------------- MODULE ScriptSlots ----------------------------
(***************************************************************************)
(* What a script registry promises, whatever the threads that call it do:  *)
(* each script of each agent is a slot with one holder at most.  A free    *)
(* slot goes to whoever asks; a low priority holder gives way to the next  *)
(* one to ask; any other holder keeps its slot until its owner leaves, and *)
(* only the guest ever leaves.                                             *)
(***************************************************************************)
CONSTANTS
  Key,      \* the slots
  Holder,   \* what may hold one: records with at least the fields owner, low
  Guest,    \* the owner that may leave
  Null

VARIABLE slot

Init == slot = [k \in Key |-> Null]

\* The holder of one slot changes, the others stay.
Take(k) == slot'[k] \in Holder /\ slot' = [slot EXCEPT ![k] = slot'[k]]

Claim(k)    == slot[k] = Null /\ Take(k)
Override(k) == slot[k] # Null /\ slot[k].low /\ Take(k)

Leave ==
  slot' = [k \in Key |-> IF slot[k] # Null /\ slot[k].owner = Guest
                         THEN Null ELSE slot[k]]

Next == (\E k \in Key : Claim(k) \/ Override(k)) \/ Leave

Spec == Init /\ [][Next]_slot

\* A slot held with high priority is lost only to the departure of its owner:
\* the promise behind "already replaced with high priority" (acmd.rs).
HighPriorityStep ==
  \A k \in Key : slot[k] # Null /\ ~slot[k].low /\ slot'[k] # slot[k]
    => slot[k].owner = Guest /\ slot'[k] = Null
HighPriorityHeld == [][HighPriorityStep]_slot
=============================================================================
