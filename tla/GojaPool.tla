------------------------------ MODULE GojaPool ------------------------------
(***************************************************************************)
(* The pool of Goja virtual machines of internal/vm/vm_pool.go.            *)
(*                                                                         *)
(* Every member of Calls is one call of GojaPool.Execute, made by a        *)
(* goroutine of its own; the janitor is the goroutine started by           *)
(* InitGojaPool that runs cleanup().  A VM object is an index into heap,   *)
(* so createVM appends to heap and an index is never used twice.           *)
(*                                                                         *)
(* The deferred calls of Execute run last-in first-out: timer.Stop, then   *)
(* Put.  timer.Stop does not wait for a callback that has already been     *)
(* started, so the callback of a call may reach the VM after Put.          *)
(***************************************************************************)
EXTENDS Integers, Sequences, FiniteSets

CONSTANTS Calls,     \* the calls of Execute
          Looping,   \* the calls whose script never ends by itself
          MinSize,   \* MIN_VM_POOL_SIZE
          MaxSize,   \* MAX_VM_POOL_SIZE
          UsageCap,  \* the usage count above which Put evicts (10000)
          NoVM       \* held by nobody

ASSUME PoolAssumption ==
    /\ Looping \subseteq Calls
    /\ MinSize \in Nat
    /\ MaxSize \in Nat
    /\ MinSize <= MaxSize
    /\ UsageCap \in Nat
    /\ NoVM \notin Nat

VARIABLES
    pool,     \* the buffered channel vms
    heap,     \* heap[v]: the fields of VM v that the code reads
    pc,       \* where each call of Execute is
    vm,       \* vm[c]: the VM call c obtained from Get
    timer,    \* the timeout timer of each call
    outcome,  \* what RunString returned to each call
    stats,    \* GojaPool.stats
    dropped,  \* history: VMs cleanup failed to put back, counted nowhere
    janitor   \* the local state of cleanup()

vars == <<pool, heap, pc, vm, timer, outcome, stats, dropped, janitor>>

-----------------------------------------------------------------------------
(* lastUsed is the zero time until the first reuse; "stale" is a time more *)
(* than 30 minutes ago.                                                    *)
GojaVM == [usageCount : Nat,
           lastUsed   : {"zero", "recent", "stale"},
           interrupt  : BOOLEAN]

NewVM == [usageCount |-> 0, lastUsed |-> "zero", interrupt |-> FALSE]

VMs == 1..Len(heap)

Interrupt(r, flag) == [r EXCEPT !.interrupt = flag]

(* The calls that have obtained a VM and have not given it up.             *)
InUse(c) == pc[c] \in {"running", "returned", "stopped", "cleared"}

Full == Len(pool) >= MaxSize

(* Mutant: the limit is off by one.                                        *)
WornOutLate(v) == heap[v].usageCount > UsageCap + 1

WornOut(v) == heap[v].usageCount > UsageCap

InitGojaPool ==
    /\ pool = [i \in 1..MinSize |-> i]
    /\ heap = [i \in 1..MinSize |-> NewVM]
    /\ stats = [created |-> 0, reused |-> 0, evicted |-> 0]
    /\ dropped = 0
    /\ janitor = [pc |-> "wait", i |-> 0, vm |-> NoVM]

Init ==
    /\ InitGojaPool
    /\ pc = [c \in Calls |-> "idle"]
    /\ vm = [c \in Calls |-> NoVM]
    /\ timer = [c \in Calls |-> "off"]
    /\ outcome = [c \in Calls |-> "none"]

-----------------------------------------------------------------------------
(* Execute obtains a VM with Get and arms the timer, then runs the script. *)

Acquired(c, v) ==
    /\ pc' = [pc EXCEPT ![c] = "running"]
    /\ vm' = [vm EXCEPT ![c] = v]
    /\ timer' = [timer EXCEPT ![c] = "armed"]
    /\ UNCHANGED <<outcome, dropped, janitor>>

Touched(r) == [usageCount |-> r.usageCount + 1, lastUsed |-> "recent",
               interrupt |-> r.interrupt]

GetReused(c) ==
    /\ pc[c] = "idle"
    /\ pool # <<>>
    /\ pool' = Tail(pool)
    /\ stats' = [stats EXCEPT !.reused = @ + 1]
    /\ heap' = [heap EXCEPT ![Head(pool)] = Touched(@)]
    /\ Acquired(c, Head(pool))

GetCreated(c) ==
    /\ pc[c] = "idle"
    /\ pool = <<>>
    /\ stats' = [stats EXCEPT !.created = @ + 1]
    /\ heap' = Append(heap, NewVM)
    /\ Acquired(c, Len(heap) + 1)
    /\ UNCHANGED pool

Returned(c, result) ==
    /\ pc[c] = "running"
    /\ pc' = [pc EXCEPT ![c] = "returned"]
    /\ outcome' = [outcome EXCEPT ![c] = result]
    /\ UNCHANGED <<pool, heap, vm, timer, stats, dropped, janitor>>

(* The script ends by itself, with a value or an exception.  An interrupt  *)
(* that arrives after its last instruction goes unnoticed.                 *)
RunToEnd(c) == c \notin Looping /\ Returned(c, "finished")

(* The interpreter notices the interrupt flag between two instructions.    *)
RunInterrupted(c) ==
    pc[c] = "running" /\ heap[vm[c]].interrupt /\ Returned(c, "timeout")

StopTimer(c) ==
    /\ pc[c] = "returned"
    /\ pc' = [pc EXCEPT ![c] = "stopped"]
    /\ timer' = [timer EXCEPT ![c] = IF @ = "armed" THEN "cancelled" ELSE @]
    /\ UNCHANGED <<pool, heap, vm, outcome, stats, dropped, janitor>>

-----------------------------------------------------------------------------
(* The timer of a call: the runtime starts the callback five seconds after *)
(* AfterFunc, and the callback, a goroutine of its own, interrupts the VM. *)

TimerFires(c) ==
    /\ timer[c] = "armed"
    /\ timer' = [timer EXCEPT ![c] = "fired"]
    /\ UNCHANGED <<pool, heap, pc, vm, outcome, stats, dropped, janitor>>

(* Mutant: the callback does not interrupt the runtime.                    *)
TimerCallbackSilent(c) ==
    /\ timer[c] = "fired"
    /\ timer' = [timer EXCEPT ![c] = "interrupted"]
    /\ UNCHANGED <<pool, heap, pc, vm, outcome, stats, dropped, janitor>>

(* Mutant: the callback gives the VM back to the channel as well.          *)
TimerCallbackPuts(c) ==
    /\ timer[c] = "fired"
    /\ timer' = [timer EXCEPT ![c] = "interrupted"]
    /\ heap' = [heap EXCEPT ![vm[c]] = Interrupt(@, TRUE)]
    /\ pool' = IF Full THEN pool ELSE Append(pool, vm[c])
    /\ UNCHANGED <<pc, vm, outcome, stats, dropped, janitor>>

TimerCallback(c) ==
    /\ timer[c] = "fired"
    /\ timer' = [timer EXCEPT ![c] = "interrupted"]
    /\ heap' = [heap EXCEPT ![vm[c]] = Interrupt(@, TRUE)]
    /\ UNCHANGED <<pool, pc, vm, outcome, stats, dropped, janitor>>

-----------------------------------------------------------------------------
(* Put: a worn-out VM is evicted; any other has its interrupt cleared and  *)
(* goes back to the channel, or is evicted when the channel is full.       *)

PutWornOut(c) ==
    /\ pc[c] = "stopped"
    /\ WornOut(vm[c])
    /\ pc' = [pc EXCEPT ![c] = "done"]
    /\ stats' = [stats EXCEPT !.evicted = @ + 1]
    /\ UNCHANGED <<pool, heap, vm, timer, outcome, dropped, janitor>>

(* Mutant: ClearInterrupt is forgotten.                                    *)
PutNoClear(c) ==
    /\ pc[c] = "stopped"
    /\ ~WornOut(vm[c])
    /\ pc' = [pc EXCEPT ![c] = "cleared"]
    /\ UNCHANGED <<pool, heap, vm, timer, outcome, stats, dropped, janitor>>

PutClear(c) ==
    /\ pc[c] = "stopped"
    /\ ~WornOut(vm[c])
    /\ pc' = [pc EXCEPT ![c] = "cleared"]
    /\ heap' = [heap EXCEPT ![vm[c]] = Interrupt(@, FALSE)]
    /\ UNCHANGED <<pool, vm, timer, outcome, stats, dropped, janitor>>

(* Mutant: the VM is sent whether or not there is room for it.             *)
PutSendAlways(c) ==
    /\ pc[c] = "cleared"
    /\ pc' = [pc EXCEPT ![c] = "done"]
    /\ pool' = Append(pool, vm[c])
    /\ UNCHANGED <<heap, vm, timer, outcome, stats, dropped, janitor>>

PutSend(c) ==
    /\ pc[c] = "cleared"
    /\ pc' = [pc EXCEPT ![c] = "done"]
    /\ \/ /\ ~Full
          /\ pool' = Append(pool, vm[c])
          /\ UNCHANGED stats
       \/ /\ Full
          /\ stats' = [stats EXCEPT !.evicted = @ + 1]
          /\ UNCHANGED pool
    /\ UNCHANGED <<heap, vm, timer, outcome, dropped, janitor>>

-----------------------------------------------------------------------------
(* cleanup: every tick walks the channel; len(p.vms) is read again before  *)
(* every iteration, and `break' leaves only the select.                    *)

(* Mutant: the walk starts at index 1.                                     *)
CleanupTickFromOne ==
    /\ janitor.pc = "wait"
    /\ janitor' = [pc |-> "loop", i |-> 1, vm |-> NoVM]
    /\ UNCHANGED <<pool, heap, pc, vm, timer, outcome, stats, dropped>>

CleanupTick ==
    /\ janitor.pc = "wait"
    /\ janitor' = [pc |-> "loop", i |-> 0, vm |-> NoVM]
    /\ UNCHANGED <<pool, heap, pc, vm, timer, outcome, stats, dropped>>

CleanupLoop ==
    /\ janitor.pc = "loop"
    /\ janitor' = [janitor EXCEPT
                    !.pc = IF janitor.i < Len(pool) THEN "take" ELSE "wait"]
    /\ UNCHANGED <<pool, heap, pc, vm, timer, outcome, stats, dropped>>

CleanupTake ==
    /\ janitor.pc = "take"
    /\ \/ /\ pool # <<>>
          /\ pool' = Tail(pool)
          /\ janitor' = [pc |-> "hold", i |-> janitor.i, vm |-> Head(pool)]
       \/ /\ pool = <<>>
          /\ janitor' = [pc |-> "loop", i |-> janitor.i + 1, vm |-> NoVM]
          /\ UNCHANGED pool
    /\ UNCHANGED <<heap, pc, vm, timer, outcome, stats, dropped>>

(* time.Since of the zero time is far above 30 minutes.                    *)
Expired(v) == heap[v].lastUsed # "recent"

(* Mutant: the `continue' after the eviction is missing.                   *)
CleanupPutNoContinue ==
    /\ janitor.pc = "hold"
    /\ janitor' = [pc |-> "loop", i |-> janitor.i + 1, vm |-> NoVM]
    /\ stats' = IF Expired(janitor.vm) THEN [stats EXCEPT !.evicted = @ + 1]
                                       ELSE stats
    /\ pool' = IF Full THEN pool ELSE Append(pool, janitor.vm)
    /\ dropped' = IF Full THEN dropped + 1 ELSE dropped
    /\ UNCHANGED <<heap, pc, vm, timer, outcome>>

CleanupPut ==
    /\ janitor.pc = "hold"
    /\ janitor' = [pc |-> "loop", i |-> janitor.i + 1, vm |-> NoVM]
    /\ \/ /\ Expired(janitor.vm)
          /\ stats' = [stats EXCEPT !.evicted = @ + 1]
          /\ UNCHANGED <<pool, dropped>>
       \/ /\ ~Expired(janitor.vm) /\ ~Full
          /\ pool' = Append(pool, janitor.vm)
          /\ UNCHANGED <<stats, dropped>>
       \/ /\ ~Expired(janitor.vm) /\ Full
          /\ dropped' = dropped + 1
          /\ UNCHANGED <<pool, stats>>
    /\ UNCHANGED <<heap, pc, vm, timer, outcome>>

(* Thirty minutes pass since the last reuse of v.  Only cleanup() reads    *)
(* lastUsed, after it took the VM from the channel.                        *)
GoesStale(v) ==
    /\ \E i \in 1..Len(pool) : pool[i] = v
    /\ heap[v].lastUsed = "recent"
    /\ heap' = [heap EXCEPT ![v] = [@ EXCEPT !.lastUsed = "stale"]]
    /\ UNCHANGED <<pool, pc, vm, timer, outcome, stats, dropped, janitor>>

-----------------------------------------------------------------------------
Get(c) == GetReused(c) \/ GetCreated(c)
Run(c) == RunToEnd(c) \/ RunInterrupted(c)
Put(c) == PutWornOut(c) \/ PutClear(c) \/ PutSend(c)
Execute(c) == Get(c) \/ Run(c) \/ StopTimer(c) \/ Put(c)
Timer(c) == TimerFires(c) \/ TimerCallback(c)
Cleanup == CleanupTick \/ CleanupLoop \/ CleanupTake \/ CleanupPut

Next ==
    \/ \E c \in Calls : Execute(c) \/ Timer(c)
    \/ Cleanup
    \/ \E v \in VMs : GoesStale(v)

(* The Go scheduler runs every goroutine, the runtime fires every timer    *)
(* and the ticker, and a script that ends does so; a call need not be made.*)
Fairness ==
    /\ \A c \in Calls : /\ WF_vars(Run(c) \/ StopTimer(c) \/ Put(c))
                        /\ WF_vars(Timer(c))
    /\ WF_vars(Cleanup)

Spec == Init /\ [][Next]_vars
FairSpec == Spec /\ Fairness

-----------------------------------------------------------------------------
(* Every variable has its type; the VM numbers that are stored anywhere    *)
(* are numbers of VMs that createVM made.                                  *)
TypeOK ==
    /\ pool \in Seq(VMs)
    /\ Len(pool) <= MaxSize
    /\ heap \in Seq(GojaVM)
    /\ pc \in [Calls -> {"idle", "running", "returned", "stopped",
                         "cleared", "done"}]
    /\ vm \in [Calls -> VMs \cup {NoVM}]
    /\ timer \in [Calls -> {"off", "armed", "fired", "interrupted",
                            "cancelled"}]
    /\ outcome \in [Calls -> {"none", "finished", "timeout"}]
    /\ stats \in [created : Nat, reused : Nat, evicted : Nat]
    /\ dropped \in Nat
    /\ janitor \in [pc : {"wait", "loop", "take", "hold"}, i : Nat,
                    vm : VMs \cup {NoVM}]

(* The channel never holds a VM twice: Put and cleanup return a VM only    *)
(* after they, and nobody else, took it.                                   *)
NoDuplicate == \A i, j \in 1..Len(pool) : pool[i] = pool[j] => i = j

InPool(v) == \E i \in 1..Len(pool) : pool[i] = v

(* A Goja runtime is not safe for concurrent use: at every moment a VM is  *)
(* in one place only, a slot of the channel, one call of Execute between   *)
(* its Get and the end of its Put, or the hands of cleanup().              *)
ExclusiveVM ==
    /\ NoDuplicate
    /\ \A c \in Calls : InUse(c) => ~InPool(vm[c]) /\ janitor.vm # vm[c]
    /\ \A c, d \in Calls : InUse(c) /\ InUse(d) /\ vm[c] = vm[d] => c = d
    /\ ~InPool(janitor.vm)

Pooled == {v \in VMs : InPool(v)}

Held == [c \in Calls |-> IF InUse(c) THEN vm[c] ELSE NoVM]

Allocator == INSTANCE VMAllocator
    WITH Users <- Calls, Initial <- MinSize, None <- NoVM,
         free <- Pooled, held <- Held, kept <- janitor.vm, made <- Len(heap)

(* The pool is an allocator: whatever the timers, the usage limit and the  *)
(* order of the channel do, every step of Execute and of cleanup() hands   *)
(* over at most one VM, from the one who has it to one who has none, and   *)
(* createVM is called only when no VM is free.                             *)
Allocates == Allocator!Spec

(* The counters of the pool account for every call and every VM: a call    *)
(* reuses or creates, the VMs beyond the initial ones are those created,   *)
(* and every VM is in the channel, in use, with cleanup(), counted as      *)
(* evicted, or one of those that cleanup() lost because the channel had    *)
(* filled up meanwhile.                                                    *)
Accounting ==
    /\ stats.created + stats.reused = Cardinality({c \in Calls : pc[c] # "idle"})
    /\ Len(heap) = MinSize + stats.created
    /\ Len(heap) = Len(pool) + Cardinality({c \in Calls : InUse(c)})
                    + Cardinality({janitor.vm} \ {NoVM})
                    + stats.evicted + dropped

(* The calls that VM v has been handed to.                                 *)
HandedTo(v) == {c \in Calls : vm[c] = v}

(* A VM whose usage count has passed the limit never gets back into the    *)
(* channel, so no initial VM is handed out more than UsageCap + 1 times,   *)
(* and no VM that Get created more than UsageCap + 2 times: Get does not   *)
(* count the use for which it creates a VM.                                *)
WornOutLeaves ==
    /\ \A i \in 1..Len(pool) : heap[pool[i]].usageCount <= UsageCap
    /\ \A v \in VMs :
          Cardinality(HandedTo(v)) <= UsageCap + (IF v <= MinSize THEN 1 ELSE 2)

(* One expired timer ends at most one script: Put clears the interrupt, so *)
(* an interrupt that came too late for its own call is not delivered to    *)
(* call after call that reuses the VM.                                     *)
OneTimeoutPerTimer ==
    Cardinality({c \in Calls : outcome[c] = "timeout"})
        <= Cardinality({c \in Calls : timer[c] = "interrupted"})

(* Every call of Execute that has obtained a VM returns, also when its     *)
(* script loops forever: the timer interrupts it.                          *)
EveryCallReturns == \A c \in Calls : InUse(c) ~> pc[c] = "done"

(* The channel gets rid of the VMs that have not been used for thirty      *)
(* minutes, again and again, although cleanup() walks it with an index     *)
(* that is compared with a length that shrinks as it evicts.               *)
IdleEvicted == []<>(\A v \in VMs : InPool(v) => ~Expired(v))

=============================================================================
