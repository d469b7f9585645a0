---------------------------- MODULE VMAllocator -----------------------------
(***************************************************************************)
(* What the pool of virtual machines promises, without its channel, its    *)
(* timers and its counters: a VM is free, held by one user, with the       *)
(* keeper of the pool who inspects free ones, or gone for ever, and a new  *)
(* one is made only when none is free.                                     *)
(***************************************************************************)
EXTENDS Integers

CONSTANTS Users,    \* who asks for VMs
          Initial,  \* the number of VMs at the start
          None      \* no VM

VARIABLES free,  \* the VMs that may be handed out
          held,  \* held[u]: the VM of user u, or None
          kept,  \* the VM that the keeper inspects, or None
          made   \* how many VMs have been made; they are numbered

allocatorVars == <<free, held, kept, made>>

Init ==
    /\ free = 1..Initial
    /\ held = [u \in Users |-> None]
    /\ kept = None
    /\ made = Initial

Obtain(u) ==
    /\ held[u] = None
    /\ \/ \E v \in free : /\ held' = [held EXCEPT ![u] = v]
                          /\ free' = free \ {v}
                          /\ UNCHANGED <<kept, made>>
       \/ /\ free = {}
          /\ made' = made + 1
          /\ held' = [held EXCEPT ![u] = made + 1]
          /\ UNCHANGED <<free, kept>>

(* The VM is free again, or never seen any more.                           *)
Release(u) ==
    /\ held[u] # None
    /\ held' = [held EXCEPT ![u] = None]
    /\ free' = free \/ free' = free \cup {held[u]}
    /\ UNCHANGED <<kept, made>>

Inspect ==
    /\ kept = None
    /\ \E v \in free : kept' = v /\ free' = free \ {v}
    /\ UNCHANGED <<held, made>>

Decide ==
    /\ kept # None
    /\ kept' = None
    /\ free' = free \/ free' = free \cup {kept}
    /\ UNCHANGED <<held, made>>

Next == Inspect \/ Decide \/ \E u \in Users : Obtain(u) \/ Release(u)

Spec == Init /\ [][Next]_allocatorVars
=============================================================================
