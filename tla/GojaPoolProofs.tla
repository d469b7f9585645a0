--------------------------- MODULE GojaPoolProofs ---------------------------
(***************************************************************************)
(* Proofs about GojaPool, for every number of calls and every pool size.   *)
(***************************************************************************)
EXTENDS GojaPool, FiniteSetTheorems, TLAPS

(* Who holds a VM has one; a call that has not begun has no timer; a VM    *)
(* that Put has cleared was not worn out.                                  *)
Holding ==
    /\ \A c \in Calls : vm[c] = NoVM <=> pc[c] = "idle"
    /\ \A c \in Calls : pc[c] = "idle" => timer[c] = "off"
    /\ janitor.vm = NoVM <=> janitor.pc # "hold"

IInv == TypeOK /\ Holding /\ ExclusiveVM

LEMMA SeqMonotone ==
    ASSUME NEW m \in Nat, NEW n \in Nat, m <= n, NEW s \in Seq(1..m)
    PROVE  s \in Seq(1..n)
  OBVIOUS

LEMMA InitIInv == Init => IInv
  <1> SUFFICES ASSUME Init PROVE IInv
    OBVIOUS
  <1> USE PoolAssumption DEF Init, InitGojaPool
  <1>1. pool \in Seq(1..MinSize) /\ heap \in Seq(GojaVM)
        /\ Len(heap) = MinSize /\ Len(pool) = MinSize
    BY DEF GojaVM, NewVM
  <1>2. TypeOK
    BY <1>1 DEF TypeOK, VMs
  <1>3. Holding
    BY DEF Holding
  <1>4. ExclusiveVM
    BY <1>1 DEF ExclusiveVM, NoDuplicate, InPool, InUse
  <1> QED
    BY <1>2, <1>3, <1>4 DEF IInv

-----------------------------------------------------------------------------
(* What receiving from the channel and sending to it do to its contents.   *)
LEMMA TailFacts ==
    ASSUME NEW S, NEW s \in Seq(S), s # <<>>
    PROVE  /\ Head(s) \in S /\ Head(s) = s[1]
           /\ Tail(s) \in Seq(S) /\ Len(s) >= 1 /\ Len(Tail(s)) = Len(s) - 1
           /\ \A i \in 1..Len(Tail(s)) : Tail(s)[i] = s[i + 1] /\ i + 1 \in 1..Len(s)
  OBVIOUS

LEMMA AppendFacts ==
    ASSUME NEW S, NEW s \in Seq(S), NEW x \in S
    PROVE  /\ Append(s, x) \in Seq(S) /\ Len(Append(s, x)) = Len(s) + 1
           /\ \A i \in 1..Len(s) : Append(s, x)[i] = s[i]
           /\ Append(s, x)[Len(s) + 1] = x
  OBVIOUS

(* A step that changes only the fields of VMs leaves heap well typed.      *)
LEMMA HeapField ==
    ASSUME NEW h \in Seq(GojaVM), NEW v \in 1..Len(h), NEW r \in GojaVM
    PROVE  /\ [h EXCEPT ![v] = r] \in Seq(GojaVM)
           /\ Len([h EXCEPT ![v] = r]) = Len(h)
  OBVIOUS

LEMMA VMRecord ==
    ASSUME NEW r \in GojaVM
    PROVE  /\ Touched(r) \in GojaVM
           /\ \A b \in BOOLEAN : Interrupt(r, b) \in GojaVM
           /\ [r EXCEPT !.lastUsed = "stale"] \in GojaVM
  BY DEF GojaVM, Touched, Interrupt

LEMMA StatsRecord ==
    ASSUME NEW r \in [created : Nat, reused : Nat, evicted : Nat]
    PROVE  /\ [r EXCEPT !.created = @ + 1] \in [created : Nat, reused : Nat, evicted : Nat]
           /\ [r EXCEPT !.reused = @ + 1] \in [created : Nat, reused : Nat, evicted : Nat]
           /\ [r EXCEPT !.evicted = @ + 1] \in [created : Nat, reused : Nat, evicted : Nat]
  OBVIOUS

LEMMA HeapStep ==
    ASSUME TypeOK, NEW v \in VMs, NEW r \in GojaVM,
           heap' = [heap EXCEPT ![v] = r]
    PROVE  /\ heap' \in Seq(GojaVM) /\ VMs' = VMs
           /\ \A w \in VMs : heap'[w] = IF w = v THEN r ELSE heap[w]
  <1>1. heap \in Seq(GojaVM) /\ v \in 1..Len(heap)
    BY DEF TypeOK, VMs
  <1>2. heap' \in Seq(GojaVM) /\ Len(heap') = Len(heap)
    BY <1>1, HeapField
  <1> QED
    BY <1>1, <1>2 DEF VMs

LEMMA VMsFacts ==
    ASSUME TypeOK
    PROVE  /\ \A v \in VMs : heap[v] \in GojaVM /\ v # NoVM /\ v \in Nat
           /\ Len(heap) \in Nat /\ VMs = 1..Len(heap)
  BY PoolAssumption DEF TypeOK, VMs

(* A call obtains a VM, from the channel or a new one.                     *)
LEMMA GetReusedType ==
    ASSUME TypeOK, Holding, NEW c \in Calls, GetReused(c)
    PROVE  TypeOK' /\ Holding'
  <1> DEFINE v == Head(pool)
  <1>1. pool \in Seq(VMs) /\ pool # <<>> /\ pool' = Tail(pool)
    BY DEF TypeOK, GetReused
  <1>2. v \in VMs /\ pool' \in Seq(VMs) /\ Len(pool') = Len(pool) - 1
        /\ Len(pool) \in Nat
    BY <1>1, TailFacts
  <1>3. heap' = [heap EXCEPT ![v] = Touched(heap[v])]
    BY DEF GetReused
  <1>4. heap' \in Seq(GojaVM) /\ VMs' = VMs
    BY <1>2, <1>3, VMRecord, VMsFacts, HeapStep
  <1>5. /\ pc' = [pc EXCEPT ![c] = "running"] /\ vm' = [vm EXCEPT ![c] = v]
        /\ timer' = [timer EXCEPT ![c] = "armed"]
        /\ UNCHANGED <<outcome, dropped, janitor>>
    BY DEF GetReused, Acquired
  <1>6. stats' \in [created : Nat, reused : Nat, evicted : Nat]
    BY StatsRecord DEF GetReused, TypeOK
  <1>7. TypeOK'
    BY <1>2, <1>4, <1>5, <1>6, PoolAssumption DEF TypeOK
  <1>8. Holding'
    BY <1>2, <1>5, VMsFacts DEF TypeOK, Holding
  <1> QED
    BY <1>7, <1>8

LEMMA GetCreatedType ==
    ASSUME TypeOK, Holding, NEW c \in Calls, GetCreated(c)
    PROVE  TypeOK' /\ Holding' /\ VMs' = 1..(Len(heap) + 1) /\ VMs \subseteq VMs'
  <1> DEFINE v == Len(heap) + 1
  <1>1. NewVM \in GojaVM
    BY DEF NewVM, GojaVM
  <1>2. heap' \in Seq(GojaVM) /\ Len(heap') = v
    BY <1>1, AppendFacts DEF TypeOK, GetCreated
  <1>3. VMs' = 1..v /\ VMs \subseteq VMs' /\ v \in VMs' /\ v \in Nat /\ v # NoVM
    BY <1>2, VMsFacts, PoolAssumption DEF VMs
  <1>4. pool' = pool /\ pool' \in Seq(1..v) /\ Len(pool') <= MaxSize
    BY VMsFacts, SeqMonotone DEF TypeOK, GetCreated
  <1>5. /\ pc' = [pc EXCEPT ![c] = "running"] /\ vm' = [vm EXCEPT ![c] = v]
        /\ timer' = [timer EXCEPT ![c] = "armed"]
        /\ UNCHANGED <<outcome, dropped, janitor>>
    BY DEF GetCreated, Acquired
  <1>6. stats' \in [created : Nat, reused : Nat, evicted : Nat]
    BY StatsRecord DEF GetCreated, TypeOK
  <1>7. vm' \in [Calls -> VMs' \cup {NoVM}]
    BY <1>3, <1>5 DEF TypeOK
  <1>8. janitor' \in [pc : {"wait", "loop", "take", "hold"}, i : Nat,
                      vm : VMs' \cup {NoVM}]
    BY <1>3, <1>5 DEF TypeOK
  <1>9. TypeOK'
    BY <1>2, <1>3, <1>4, <1>5, <1>6, <1>7, <1>8 DEF TypeOK
  <1>10. Holding'
    BY <1>3, <1>5 DEF TypeOK, Holding
  <1> QED
    BY <1>3, <1>9, <1>10

(* The other steps of Execute, and the timer.                              *)
LEMMA RunType ==
    ASSUME TypeOK, Holding, NEW c \in Calls,
           Run(c) \/ StopTimer(c) \/ TimerFires(c) \/ PutWornOut(c)
    PROVE  TypeOK' /\ Holding' /\ VMs' = VMs
  <1>1. UNCHANGED <<pool, heap, vm, dropped, janitor>>
    BY DEF Run, RunToEnd, RunInterrupted, Returned, StopTimer, TimerFires, PutWornOut
  <1>2. \/ /\ pc[c] # "idle"
           /\ \E p \in {"returned", "stopped", "done"} : pc' = [pc EXCEPT ![c] = p]
        \/ pc' = pc
    BY DEF Run, RunToEnd, RunInterrupted, Returned, StopTimer, TimerFires, PutWornOut
  <1>3. \/ timer' = timer
        \/ /\ pc[c] # "idle"
           /\ \E t \in {"armed", "fired", "interrupted", "cancelled", "off"} :
                 timer' = [timer EXCEPT ![c] = t]
    BY DEF Run, RunToEnd, RunInterrupted, Returned, StopTimer, TimerFires,
           PutWornOut, TypeOK, Holding
  <1>4. \/ outcome' = outcome
        \/ \E o \in {"finished", "timeout"} : outcome' = [outcome EXCEPT ![c] = o]
    BY DEF Run, RunToEnd, RunInterrupted, Returned, StopTimer, TimerFires, PutWornOut
  <1>5. stats' = stats \/ stats' = [stats EXCEPT !.evicted = @ + 1]
    BY DEF Run, RunToEnd, RunInterrupted, Returned, StopTimer, TimerFires, PutWornOut
  <1>6. stats' \in [created : Nat, reused : Nat, evicted : Nat]
    BY <1>5, StatsRecord DEF TypeOK
  <1>7. VMs' = VMs
    BY <1>1 DEF VMs
  <1>8. pc' \in [Calls -> {"idle", "running", "returned", "stopped", "cleared", "done"}]
    BY <1>2 DEF TypeOK
  <1>9. timer' \in [Calls -> {"off", "armed", "fired", "interrupted", "cancelled"}]
    BY <1>3 DEF TypeOK
  <1>10. outcome' \in [Calls -> {"none", "finished", "timeout"}]
    BY <1>4 DEF TypeOK
  <1>11. TypeOK'
    BY <1>1, <1>6, <1>7, <1>8, <1>9, <1>10 DEF TypeOK
  <1>12. Holding'
    BY <1>1, <1>2, <1>3 DEF TypeOK, Holding
  <1> QED
    BY <1>7, <1>11, <1>12

(* The steps that only write the interrupt flag of the VM of a call.       *)
LEMMA InterruptType ==
    ASSUME TypeOK, Holding, NEW c \in Calls, TimerCallback(c) \/ PutClear(c)
    PROVE  TypeOK' /\ Holding' /\ VMs' = VMs
  <1>1. vm[c] \in VMs /\ pc[c] # "idle"
    BY DEF TimerCallback, PutClear, TypeOK, Holding
  <1>2. \E b \in BOOLEAN : heap' = [heap EXCEPT ![vm[c]] = Interrupt(heap[vm[c]], b)]
    BY DEF TimerCallback, PutClear
  <1>3. heap' \in Seq(GojaVM) /\ VMs' = VMs
    BY <1>1, <1>2, VMRecord, VMsFacts, HeapStep
  <1>4. /\ UNCHANGED <<pool, vm, outcome, stats, dropped, janitor>>
        /\ pc' \in {pc, [pc EXCEPT ![c] = "cleared"]}
        /\ timer' \in {timer, [timer EXCEPT ![c] = "interrupted"]}
    BY DEF TimerCallback, PutClear
  <1>5. TypeOK'
    BY <1>3, <1>4 DEF TypeOK
  <1>6. Holding'
    BY <1>1, <1>4 DEF TypeOK, Holding
  <1> QED
    BY <1>3, <1>5, <1>6

LEMMA PutSendType ==
    ASSUME TypeOK, Holding, NEW c \in Calls, PutSend(c)
    PROVE  TypeOK' /\ Holding' /\ VMs' = VMs
  <1>1. vm[c] \in VMs /\ pc[c] = "cleared"
    BY DEF PutSend, TypeOK, Holding
  <1>2. pool \in Seq(VMs) /\ Len(pool) \in Nat /\ Len(pool) <= MaxSize
    BY DEF TypeOK
  <1>3. pool' = pool \/ (Len(pool) < MaxSize /\ pool' = Append(pool, vm[c]))
    BY <1>2, PoolAssumption DEF PutSend, Full
  <1>4. pool' \in Seq(VMs) /\ Len(pool') <= MaxSize
    BY <1>1, <1>2, <1>3, AppendFacts, PoolAssumption
  <1>5. stats' \in [created : Nat, reused : Nat, evicted : Nat]
    BY StatsRecord DEF PutSend, TypeOK
  <1>6. UNCHANGED <<heap, vm, timer, outcome, dropped, janitor>>
        /\ pc' = [pc EXCEPT ![c] = "done"] /\ VMs' = VMs
    BY DEF PutSend, VMs
  <1>7. TypeOK'
    BY <1>4, <1>5, <1>6 DEF TypeOK
  <1>8. Holding'
    BY <1>1, <1>6 DEF TypeOK, Holding
  <1> QED
    BY <1>6, <1>7, <1>8

LEMMA CleanupType ==
    ASSUME TypeOK, Holding, Cleanup
    PROVE  TypeOK' /\ Holding' /\ VMs' = VMs
  <1>1. UNCHANGED <<heap, pc, vm, timer, outcome>> /\ VMs' = VMs
    BY DEF Cleanup, CleanupTick, CleanupLoop, CleanupTake, CleanupPut, VMs
  <1>2. /\ pool \in Seq(VMs) /\ Len(pool) \in Nat /\ Len(pool) <= MaxSize
        /\ janitor.i \in Nat /\ janitor.vm \in VMs \cup {NoVM}
        /\ dropped \in Nat
    BY DEF TypeOK
  <1>3. stats' \in [created : Nat, reused : Nat, evicted : Nat]
    BY StatsRecord DEF Cleanup, CleanupTick, CleanupLoop, CleanupTake, CleanupPut, TypeOK
  <1>4. dropped' \in Nat
    BY <1>2 DEF Cleanup, CleanupTick, CleanupLoop, CleanupTake, CleanupPut
  <1>5. /\ pool' \in Seq(VMs) /\ Len(pool') <= MaxSize
        /\ janitor' \in [pc : {"wait", "loop", "take", "hold"}, i : Nat,
                         vm : VMs \cup {NoVM}]
        /\ janitor'.vm = NoVM <=> janitor'.pc # "hold"
    <2>1. CASE CleanupTick
      BY <1>2, <2>1 DEF CleanupTick
    <2>2. CASE CleanupLoop
      BY <1>2, <2>2 DEF CleanupLoop, TypeOK, Holding
    <2>3. CASE CleanupTake
      <3>1. CASE pool # <<>>
        <4>1. Head(pool) \in VMs /\ pool' = Tail(pool) /\ Tail(pool) \in Seq(VMs)
              /\ Len(Tail(pool)) = Len(pool) - 1
          BY <1>2, <2>3, <3>1, TailFacts DEF CleanupTake
        <4>2. janitor' = [pc |-> "hold", i |-> janitor.i, vm |-> Head(pool)]
          BY <2>3, <3>1 DEF CleanupTake
        <4> QED
          BY <1>2, <4>1, <4>2, VMsFacts, PoolAssumption
      <3>2. CASE pool = <<>>
        BY <1>2, <2>3, <3>2 DEF CleanupTake
      <3> QED
        BY <3>1, <3>2
    <2>4. CASE CleanupPut
      <3>1. janitor.vm \in VMs
        BY <1>2, <2>4 DEF CleanupPut, Holding
      <3>2. pool' = pool \/ (Len(pool) < MaxSize /\ pool' = Append(pool, janitor.vm))
        BY <1>2, <2>4, PoolAssumption DEF CleanupPut, Full
      <3>3. pool' \in Seq(VMs) /\ Len(pool') <= MaxSize
        BY <1>2, <3>1, <3>2, AppendFacts, PoolAssumption
      <3>4. janitor' = [pc |-> "loop", i |-> janitor.i + 1, vm |-> NoVM]
        BY <2>4 DEF CleanupPut
      <3> QED
        BY <1>2, <3>3, <3>4
    <2> QED
      BY <2>1, <2>2, <2>3, <2>4 DEF Cleanup
  <1>6. TypeOK'
    BY <1>1, <1>3, <1>4, <1>5 DEF TypeOK
  <1>7. Holding'
    BY <1>1, <1>5 DEF Holding
  <1> QED
    BY <1>1, <1>6, <1>7

LEMMA GoesStaleType ==
    ASSUME TypeOK, Holding, NEW v \in VMs, GoesStale(v)
    PROVE  TypeOK' /\ Holding' /\ VMs' = VMs
  <1>1. heap' = [heap EXCEPT ![v] = [heap[v] EXCEPT !.lastUsed = "stale"]]
    BY DEF GoesStale
  <1>2. [heap[v] EXCEPT !.lastUsed = "stale"] \in GojaVM
    BY VMRecord, VMsFacts
  <1>3. heap' \in Seq(GojaVM) /\ VMs' = VMs
    BY <1>1, <1>2, HeapStep
  <1>4. UNCHANGED <<pool, pc, vm, timer, outcome, stats, dropped, janitor>>
    BY DEF GoesStale
  <1> QED
    BY <1>3, <1>4 DEF TypeOK, Holding

LEMMA TypeStep == TypeOK /\ Holding /\ [Next]_vars => TypeOK' /\ Holding'
  <1> SUFFICES ASSUME TypeOK, Holding, [Next]_vars PROVE TypeOK' /\ Holding'
    OBVIOUS
  <1>1. ASSUME NEW c \in Calls, Execute(c) \/ Timer(c) PROVE TypeOK' /\ Holding'
    BY <1>1, GetReusedType, GetCreatedType, RunType, InterruptType, PutSendType
       DEF Execute, Timer, Get, Put
  <1>2. CASE Cleanup
    BY <1>2, CleanupType
  <1>3. ASSUME NEW v \in VMs, GoesStale(v) PROVE TypeOK' /\ Holding'
    BY <1>3, GoesStaleType
  <1>4. CASE UNCHANGED vars
    BY <1>4 DEF vars, TypeOK, VMs, Holding
  <1> QED
    BY <1>1, <1>2, <1>3, <1>4 DEF Next

(* Every reachable state of the pool is well typed: no VM number in the    *)
(* channel or held by anyone is stale, and the channel keeps its capacity. *)
THEOREM TypeCorrect == Spec => []TypeOK
  <1>1. Init => TypeOK /\ Holding
    BY InitIInv DEF IInv
  <1> QED
    BY <1>1, TypeStep, PTL DEF Spec

-----------------------------------------------------------------------------
(* Receiving takes the VM away from the channel, sending a VM that is not  *)
(* in the channel keeps it free of duplicates.                             *)
LEMMA ReceiveFacts ==
    ASSUME TypeOK, NoDuplicate, pool # <<>>, pool' = Tail(pool)
    PROVE  /\ NoDuplicate' /\ InPool(Head(pool))
           /\ \A w : InPool(w)' => InPool(w) /\ w # Head(pool)
  <1>1. /\ Head(pool) = pool[1] /\ Len(pool) >= 1 /\ Len(pool) \in Nat
        /\ Len(pool') = Len(pool) - 1
        /\ \A i \in 1..Len(pool') : pool'[i] = pool[i + 1] /\ i + 1 \in 1..Len(pool)
    BY TailFacts DEF TypeOK
  <1>2. NoDuplicate'
    BY <1>1 DEF NoDuplicate
  <1>3. InPool(Head(pool))
    BY <1>1 DEF InPool
  <1>4. ASSUME NEW i \in 1..Len(pool') PROVE pool'[i] # Head(pool)
    <2>1. pool'[i] = pool[i + 1] /\ i + 1 \in 1..Len(pool) /\ 1 \in 1..Len(pool)
      BY <1>1
    <2> QED
      BY <1>1, <2>1 DEF NoDuplicate
  <1>5. \A w : InPool(w)' => InPool(w) /\ w # Head(pool)
    BY <1>1, <1>4 DEF InPool
  <1> QED
    BY <1>2, <1>3, <1>5

LEMMA SendFacts ==
    ASSUME TypeOK, NoDuplicate, NEW v \in VMs, ~InPool(v), pool' = Append(pool, v)
    PROVE  NoDuplicate' /\ \A w : InPool(w)' => InPool(w) \/ w = v
  <1>1. /\ Len(pool') = Len(pool) + 1 /\ Len(pool) \in Nat
        /\ \A i \in 1..Len(pool) : pool'[i] = pool[i]
        /\ pool'[Len(pool) + 1] = v
    BY AppendFacts DEF TypeOK
  <1> QED
    BY <1>1 DEF NoDuplicate, InPool

(* A step that leaves the channel and the janitor alone and starts no use. *)
LEMMA QuietExclusive ==
    ASSUME ExclusiveVM, UNCHANGED <<pool, janitor, vm>>,
           \A c \in Calls : InUse(c)' => InUse(c)
    PROVE  ExclusiveVM'
  BY DEF ExclusiveVM, NoDuplicate, InPool

LEMMA GetExclusive ==
    ASSUME IInv, NEW c \in Calls, Get(c)
    PROVE  ExclusiveVM'
  <1> USE DEF IInv
  <1>1. CASE GetReused(c)
    <2> DEFINE v == Head(pool)
    <2>1. /\ pool # <<>> /\ pool' = Tail(pool) /\ pc[c] = "idle"
          /\ pc' = [pc EXCEPT ![c] = "running"] /\ vm' = [vm EXCEPT ![c] = v]
          /\ janitor' = janitor
      BY <1>1 DEF GetReused, Acquired
    <2>2. /\ NoDuplicate' /\ InPool(v)
          /\ \A w : InPool(w)' => InPool(w) /\ w # v
      BY <2>1, ReceiveFacts DEF ExclusiveVM
    <2>3. /\ \A d \in Calls \ {c} : /\ InUse(d)' => InUse(d) /\ vm[d] # v
                                   /\ vm'[d] = vm[d]
          /\ vm'[c] = v /\ janitor.vm # v
      BY <2>1, <2>2 DEF ExclusiveVM, InUse, TypeOK
    <2>4. ASSUME NEW d \in Calls, InUse(d)'
          PROVE  ~InPool(vm[d])' /\ (janitor.vm # vm[d])'
      <3>1. CASE d = c
        BY <2>1, <2>2, <2>3, <3>1 DEF InPool
      <3>2. CASE d # c
        <4>1. InUse(d) /\ vm'[d] = vm[d] /\ d \in Calls \ {c}
          BY <2>3, <2>4, <3>2
        <4>2. ~InPool(vm[d]) /\ janitor.vm # vm[d]
          BY <4>1 DEF ExclusiveVM
        <4> QED
          BY <2>1, <2>2, <4>1, <4>2 DEF InPool
      <3> QED
        BY <3>1, <3>2
    <2>5. ASSUME NEW d \in Calls, NEW e \in Calls, InUse(d)', InUse(e)',
                 vm'[d] = vm'[e]
          PROVE  d = e
      <3>1. CASE d # c /\ e # c
        BY <2>3, <2>5, <3>1 DEF ExclusiveVM
      <3>2. CASE d = c \/ e = c
        BY <2>3, <2>5, <3>2
      <3> QED
        BY <3>1, <3>2
    <2> QED
      BY <2>1, <2>2, <2>4, <2>5 DEF ExclusiveVM, InPool
  <1>2. CASE GetCreated(c)
    <2> DEFINE v == Len(heap) + 1
    <2>1. /\ pool' = pool /\ pc' = [pc EXCEPT ![c] = "running"]
          /\ vm' = [vm EXCEPT ![c] = v] /\ janitor' = janitor
      BY <1>2 DEF GetCreated, Acquired
    <2>2. v \notin VMs /\ v # NoVM
      BY VMsFacts, PoolAssumption
    <2>3. ~InPool(v) /\ janitor.vm # v /\ \A d \in Calls : vm[d] # v
      BY <2>2 DEF TypeOK, InPool
    <2>4. /\ \A d \in Calls \ {c} : InUse(d)' = InUse(d) /\ vm'[d] = vm[d]
          /\ vm'[c] = v /\ NoDuplicate' /\ \A w : InPool(w)' = InPool(w)
      BY <2>1 DEF ExclusiveVM, InUse, TypeOK, NoDuplicate, InPool
    <2> QED
      BY <2>1, <2>3, <2>4 DEF ExclusiveVM
  <1> QED
    BY <1>1, <1>2 DEF Get

LEMMA PutSendExclusive ==
    ASSUME IInv, NEW c \in Calls, PutSend(c)
    PROVE  ExclusiveVM'
  <1> USE DEF IInv
  <1>1. vm[c] \in VMs /\ vm[c] # NoVM /\ InUse(c)
    BY VMsFacts DEF PutSend, Holding, TypeOK, InUse
  <1>2. /\ UNCHANGED <<janitor, vm>> /\ pc' = [pc EXCEPT ![c] = "done"]
        /\ pool' = pool \/ pool' = Append(pool, vm[c])
    BY DEF PutSend
  <1>3. ~InUse(c)' /\ \A d \in Calls : InUse(d)' => InUse(d)
    BY <1>2 DEF InUse, TypeOK
  <1>4. CASE pool' = pool
    BY <1>2, <1>3, <1>4, QuietExclusive
  <1>5. CASE pool' = Append(pool, vm[c])
    <2>1. NoDuplicate' /\ \A w : InPool(w)' => InPool(w) \/ w = vm[c]
      BY <1>1, <1>5, SendFacts DEF ExclusiveVM
    <2>2. \A d \in Calls : InUse(d)' => vm[d] # vm[c]
      BY <1>1, <1>3 DEF ExclusiveVM
    <2> QED
      BY <1>1, <1>2, <1>3, <2>1, <2>2 DEF ExclusiveVM
  <1> QED
    BY <1>2, <1>4, <1>5

LEMMA CleanupExclusive ==
    ASSUME IInv, Cleanup
    PROVE  ExclusiveVM'
  <1> USE DEF IInv
  <1>1. UNCHANGED <<pc, vm>>
    BY DEF Cleanup, CleanupTick, CleanupLoop, CleanupTake, CleanupPut
  <1>2. \A c \in Calls : /\ InUse(c)' = InUse(c) /\ vm'[c] = vm[c]
                         /\ InUse(c) => vm[c] # NoVM
    BY <1>1 DEF InUse, Holding
  <1>3. ~InPool(NoVM)
    BY VMsFacts DEF InPool, TypeOK
  <1>4. CASE CleanupTick \/ CleanupLoop
    <2>1. pool' = pool /\ janitor'.vm = NoVM
      BY <1>4 DEF CleanupTick, CleanupLoop, Holding, TypeOK
    <2> QED
      BY <1>2, <1>3, <2>1 DEF ExclusiveVM, NoDuplicate, InPool
  <1>5. CASE CleanupTake
    <2>1. CASE pool # <<>>
      <3>1. pool' = Tail(pool)
            /\ janitor' = [pc |-> "hold", i |-> janitor.i, vm |-> Head(pool)]
        BY <1>5, <2>1 DEF CleanupTake
      <3>2. /\ NoDuplicate' /\ InPool(Head(pool))
            /\ \A w : InPool(w)' => InPool(w) /\ w # Head(pool)
        BY <2>1, <3>1, ReceiveFacts DEF ExclusiveVM
      <3>3. janitor'.vm = Head(pool)
        BY <3>1
      <3> QED
        BY <1>2, <3>2, <3>3 DEF ExclusiveVM
    <2>2. CASE pool = <<>>
      <3>1. pool' = pool /\ janitor'.vm = NoVM
        BY <1>5, <2>2 DEF CleanupTake
      <3> QED
        BY <1>2, <1>3, <3>1 DEF ExclusiveVM, NoDuplicate, InPool
    <2> QED
      BY <2>1, <2>2
  <1>6. CASE CleanupPut
    <2>1. janitor.vm \in VMs /\ janitor'.vm = NoVM
          /\ (pool' = pool \/ pool' = Append(pool, janitor.vm))
      BY <1>6 DEF CleanupPut, Holding, TypeOK
    <2>2. CASE pool' = pool
      BY <1>2, <1>3, <2>1, <2>2 DEF ExclusiveVM, NoDuplicate, InPool
    <2>3. CASE pool' = Append(pool, janitor.vm)
      <3>1. NoDuplicate' /\ \A w : InPool(w)' => InPool(w) \/ w = janitor.vm
        BY <2>1, <2>3, SendFacts DEF ExclusiveVM
      <3>2. janitor.vm # NoVM
        BY <2>1, VMsFacts
      <3> QED
        BY <1>2, <1>3, <2>1, <3>1, <3>2 DEF ExclusiveVM
    <2> QED
      BY <2>1, <2>2, <2>3
  <1> QED
    BY <1>4, <1>5, <1>6 DEF Cleanup

LEMMA OtherExclusive ==
    ASSUME IInv, NEW c \in Calls,
           Run(c) \/ StopTimer(c) \/ Timer(c) \/ PutWornOut(c) \/ PutClear(c)
    PROVE  ExclusiveVM'
  <1>1. UNCHANGED <<pool, janitor, vm>>
    BY DEF Run, RunToEnd, RunInterrupted, Returned, StopTimer, Timer, TimerFires,
           TimerCallback, PutWornOut, PutClear
  <1>2. pc' = pc \/ (InUse(c) /\ \E p : pc' = [pc EXCEPT ![c] = p])
    BY DEF Run, RunToEnd, RunInterrupted, Returned, StopTimer, Timer, TimerFires,
           TimerCallback, PutWornOut, PutClear, InUse
  <1>3. \A d \in Calls : InUse(d)' => InUse(d)
    BY <1>2 DEF InUse, IInv, TypeOK
  <1> QED
    BY <1>1, <1>3, QuietExclusive DEF IInv

LEMMA ExclusiveStep == IInv /\ [Next]_vars => ExclusiveVM'
  <1> SUFFICES ASSUME IInv, [Next]_vars PROVE ExclusiveVM'
    OBVIOUS
  <1>1. ASSUME NEW c \in Calls, Execute(c) \/ Timer(c) PROVE ExclusiveVM'
    BY <1>1, GetExclusive, PutSendExclusive, OtherExclusive DEF Execute, Put
  <1>2. CASE Cleanup
    BY <1>2, CleanupExclusive
  <1>3. ASSUME NEW v \in VMs, GoesStale(v) PROVE ExclusiveVM'
    BY <1>3, QuietExclusive DEF GoesStale, IInv, InUse
  <1>4. CASE UNCHANGED vars
    BY <1>4, QuietExclusive DEF vars, IInv, InUse
  <1> QED
    BY <1>1, <1>2, <1>3, <1>4 DEF Next

(* A VM is never used by two calls of Execute at once, nor pooled while it *)
(* is in use, nor pooled twice, whatever the scheduling of the calls, of   *)
(* their timers and of cleanup().                                          *)
THEOREM VMExclusive == Spec => []ExclusiveVM
  <1>1. IInv /\ [Next]_vars => IInv'
    BY TypeStep, ExclusiveStep DEF IInv
  <1>2. IInv => ExclusiveVM
    BY DEF IInv
  <1> QED
    BY InitIInv, <1>1, <1>2, PTL DEF Spec

-----------------------------------------------------------------------------
(* No pooled VM is worn out, nor one that is about to be sent to the       *)
(* channel, by cleanup() or by a Put that has passed its test, so no usage *)
(* count gets further than one above the limit.                            *)
Limited ==
    /\ \A i \in 1..Len(pool) : heap[pool[i]].usageCount <= UsageCap
    /\ \A v \in VMs : heap[v].usageCount <= UsageCap + 1

Fresh(v) == heap[v].usageCount <= UsageCap

Worn ==
    /\ Limited
    /\ janitor.vm # NoVM => Fresh(janitor.vm)
    /\ \A c \in Calls : pc[c] = "cleared" => Fresh(vm[c])

LEMMA InitWorn == Init => Worn
  <1> SUFFICES ASSUME Init PROVE Worn
    OBVIOUS
  <1>1. heap = [i \in 1..MinSize |-> NewVM] /\ VMs = 1..MinSize
        /\ pool = [i \in 1..MinSize |-> i] /\ Len(pool) = MinSize
    BY PoolAssumption DEF Init, InitGojaPool, VMs
  <1>2. \A v \in VMs : heap[v].usageCount = 0
    BY <1>1 DEF NewVM
  <1>3. Limited
    BY <1>1, <1>2, PoolAssumption DEF Limited
  <1> QED
    BY <1>3 DEF Init, InitGojaPool, Worn

(* A step that changes no usage count, and puts nothing new anywhere.      *)
LEMMA SameUsage ==
    ASSUME IInv, Worn, VMs' = VMs,
           \A v \in VMs : heap'[v].usageCount = heap[v].usageCount,
           \A v : InPool(v)' => InPool(v) \/ (v \in VMs /\ Fresh(v)),
           janitor'.vm \in VMs \cup {NoVM},
           janitor'.vm # NoVM => Fresh(janitor.vm)' ,
           \A c \in Calls : vm'[c] = vm[c],
           \A c \in Calls : pc'[c] = "cleared" => vm[c] \in VMs /\ Fresh(vm[c])
    PROVE  Worn'
  <1>1. \A i \in 1..Len(pool) : pool[i] \in VMs
    BY DEF IInv, TypeOK
  <1>2. \A v : InPool(v) => v \in VMs /\ Fresh(v)
    BY <1>1 DEF InPool, Worn, Limited, Fresh
  <1>3. \A i \in 1..Len(pool') : pool'[i] \in VMs /\ heap[pool'[i]].usageCount <= UsageCap
    BY <1>2 DEF InPool, Fresh
  <1>4. Limited'
    BY <1>3 DEF Limited, Worn
  <1>5. \A c \in Calls : pc'[c] = "cleared" => heap'[vm'[c]].usageCount <= UsageCap
    BY DEF Fresh
  <1> QED
    BY <1>4, <1>5 DEF Worn, Fresh

LEMMA GetWorn ==
    ASSUME IInv, Worn, NEW c \in Calls, Get(c)
    PROVE  Worn'
  <1>0. TypeOK /\ Holding /\ ExclusiveVM
    BY DEF IInv
  <1>1. CASE GetReused(c)
    <2> DEFINE v == Head(pool)
    <2>1. /\ pool # <<>> /\ pool' = Tail(pool)
          /\ pc' = [pc EXCEPT ![c] = "running"] /\ vm' = [vm EXCEPT ![c] = v]
          /\ janitor' = janitor /\ heap' = [heap EXCEPT ![v] = Touched(heap[v])]
      BY <1>1 DEF GetReused, Acquired
    <2>2. /\ InPool(v) /\ v \in VMs
          /\ \A w : InPool(w)' => InPool(w) /\ w # v
      BY <1>0, <2>1, ReceiveFacts, TailFacts DEF ExclusiveVM, TypeOK
    <2>3. /\ VMs' = VMs
          /\ \A w \in VMs : heap'[w] = IF w = v THEN Touched(heap[v]) ELSE heap[w]
      BY <1>0, <2>1, <2>2, VMsFacts, VMRecord, HeapStep
    <2>4. Touched(heap[v]).usageCount = heap[v].usageCount + 1
          /\ heap[v].usageCount \in Nat
      BY <1>0, <2>2, VMsFacts DEF Touched, GojaVM
    <2>5. heap[v].usageCount <= UsageCap
      BY <2>2 DEF InPool, Worn, Limited
    <2>6. \A w \in VMs : heap'[w].usageCount <= UsageCap + 1
      BY <2>3, <2>4, <2>5, PoolAssumption DEF Worn, Limited
    <2>7. ASSUME NEW i \in 1..Len(pool')
          PROVE  /\ pool'[i] \in VMs /\ pool'[i] # v
                 /\ heap[pool'[i]].usageCount <= UsageCap
      <3>1. PICK j \in 1..Len(pool) : pool[j] = pool'[i]
        BY <2>2 DEF InPool
      <3>2. pool'[i] # v
        BY <2>2 DEF InPool
      <3> QED
        BY <1>0, <3>1, <3>2 DEF Worn, Limited, TypeOK
    <2>8. Limited'
      BY <2>3, <2>6, <2>7 DEF Limited
    <2>9. janitor.vm # v
      BY <1>0, <2>2 DEF ExclusiveVM, InPool
    <2>10. (janitor.vm # NoVM => Fresh(janitor.vm))'
      BY <1>0, <2>1, <2>3, <2>9 DEF Worn, Fresh, TypeOK
    <2>11. ASSUME NEW d \in Calls, pc'[d] = "cleared"
           PROVE  heap'[vm'[d]].usageCount <= UsageCap
      <3>1. d # c /\ pc[d] = "cleared" /\ vm'[d] = vm[d] /\ InUse(d) /\ vm[d] \in VMs
        BY <1>0, <2>1, <2>11 DEF TypeOK, InUse, Holding
      <3>2. vm[d] # v
        BY <1>0, <2>2, <3>1 DEF ExclusiveVM, InPool
      <3> QED
        BY <2>3, <3>1, <3>2 DEF Worn, Fresh
    <2> QED
      BY <2>8, <2>10, <2>11 DEF Worn, Fresh
  <1>2. CASE GetCreated(c)
    <2>1. /\ pool' = pool /\ pc' = [pc EXCEPT ![c] = "running"]
          /\ vm' = [vm EXCEPT ![c] = Len(heap) + 1] /\ janitor' = janitor
          /\ heap' = Append(heap, NewVM)
      BY <1>2 DEF GetCreated, Acquired
    <2>2. NewVM \in GojaVM /\ NewVM.usageCount = 0
      BY DEF NewVM, GojaVM
    <2>3. /\ \A w \in VMs : heap'[w] = heap[w]
          /\ heap'[Len(heap) + 1] = NewVM /\ VMs' = VMs \cup {Len(heap) + 1}
      BY <1>0, <2>1, <2>2, AppendFacts DEF TypeOK, VMs
    <2>4. Limited'
      <3>1. \A i \in 1..Len(pool) : pool[i] \in VMs
        BY <1>0 DEF TypeOK
      <3>2. \A i \in 1..Len(pool') : heap'[pool'[i]].usageCount <= UsageCap
        BY <2>1, <2>3, <3>1 DEF Limited, Worn
      <3>3. \A w \in VMs' : heap'[w].usageCount <= UsageCap + 1
        BY <2>2, <2>3, PoolAssumption DEF Limited, Worn
      <3> QED
        BY <3>2, <3>3 DEF Limited
    <2>5. (janitor.vm # NoVM => Fresh(janitor.vm))'
      BY <1>0, <2>1, <2>3 DEF Worn, Fresh, TypeOK
    <2>6. ASSUME NEW d \in Calls, pc'[d] = "cleared"
          PROVE  heap'[vm'[d]].usageCount <= UsageCap
      <3>1. d # c /\ pc[d] = "cleared" /\ vm'[d] = vm[d] /\ vm[d] \in VMs
        BY <1>0, <2>1, <2>6 DEF TypeOK, Holding
      <3> QED
        BY <2>3, <3>1 DEF Worn, Fresh
    <2> QED
      BY <2>4, <2>5, <2>6 DEF Worn, Fresh
  <1> QED
    BY <1>1, <1>2 DEF Get

LEMMA UsageKept ==
    ASSUME IInv, NEW v \in VMs, NEW r \in GojaVM, r.usageCount = heap[v].usageCount,
           heap' = [heap EXCEPT ![v] = r]
    PROVE  VMs' = VMs /\ \A w \in VMs : heap'[w].usageCount = heap[w].usageCount
  <1>1. VMs' = VMs /\ \A w \in VMs : heap'[w] = IF w = v THEN r ELSE heap[w]
    BY HeapStep DEF IInv
  <1>2. ASSUME NEW w \in VMs PROVE heap'[w].usageCount = heap[w].usageCount
    <2>1. CASE w = v
      BY <1>1, <2>1
    <2>2. CASE w # v
      BY <1>1, <2>2
    <2> QED
      BY <2>1, <2>2
  <1> QED
    BY <1>1, <1>2

LEMMA ExecuteWorn ==
    ASSUME IInv, Worn, NEW c \in Calls,
           Run(c) \/ StopTimer(c) \/ Timer(c) \/ Put(c)
    PROVE  Worn'
  <1>0. TypeOK /\ Holding
    BY DEF IInv
  <1>1. CASE Run(c) \/ StopTimer(c) \/ TimerFires(c) \/ PutWornOut(c)
    <2>1. /\ UNCHANGED <<pool, heap, vm, janitor>>
          /\ pc' = pc \/ \E p \in {"returned", "stopped", "done"} : pc' = [pc EXCEPT ![c] = p]
      BY <1>1 DEF Run, RunToEnd, RunInterrupted, Returned, StopTimer, TimerFires, PutWornOut
    <2>2. \A d \in Calls : pc'[d] = "cleared" => pc[d] = "cleared"
      BY <1>0, <2>1 DEF TypeOK
    <2> QED
      BY <2>1, <2>2 DEF Worn, Limited, Fresh, VMs
  <1>2. CASE TimerCallback(c) \/ PutClear(c)
    <2>1. vm[c] \in VMs
      BY <1>0, <1>2 DEF TimerCallback, PutClear, TypeOK, Holding
    <2>2. PICK b \in BOOLEAN : heap' = [heap EXCEPT ![vm[c]] = Interrupt(heap[vm[c]], b)]
      BY <1>2 DEF TimerCallback, PutClear
    <2>3. heap[vm[c]] \in GojaVM
      BY <1>0, <2>1, VMsFacts
    <2>4. Interrupt(heap[vm[c]], b) \in GojaVM
          /\ Interrupt(heap[vm[c]], b).usageCount = heap[vm[c]].usageCount
      BY <2>3, VMRecord DEF Interrupt, GojaVM
    <2>5. VMs' = VMs /\ \A w \in VMs : heap'[w].usageCount = heap[w].usageCount
      BY <2>1, <2>2, <2>4, UsageKept
    <2>6. /\ UNCHANGED <<pool, vm, janitor>>
          /\ pc' = pc \/ (~WornOut(vm[c]) /\ pc' = [pc EXCEPT ![c] = "cleared"])
      BY <1>2 DEF TimerCallback, PutClear
    <2>7. ASSUME NEW d \in Calls, pc'[d] = "cleared" PROVE vm[d] \in VMs /\ Fresh(vm[d])
      <3>1. pc[d] = "cleared" \/ (d = c /\ ~WornOut(vm[c]))
        BY <1>0, <2>6, <2>7 DEF TypeOK
      <3>2. CASE pc[d] = "cleared"
        BY <1>0, <3>2 DEF Holding, TypeOK, Worn
      <3>3. CASE d = c /\ ~WornOut(vm[c])
        BY <2>1, <2>3, <3>3, PoolAssumption DEF WornOut, Fresh, GojaVM
      <3> QED
        BY <3>1, <3>2, <3>3
    <2>8. janitor'.vm # NoVM => Fresh(janitor.vm)'
      BY <1>0, <2>5, <2>6 DEF Worn, Fresh, TypeOK
    <2>9. janitor'.vm \in VMs \cup {NoVM}
      BY <1>0, <2>6 DEF TypeOK
    <2>10. \A v : InPool(v)' => InPool(v)
      BY <2>6 DEF InPool
    <2> QED
      BY <2>5, <2>6, <2>7, <2>8, <2>9, <2>10, SameUsage
  <1>3. CASE PutSend(c)
    <2>1. /\ vm[c] \in VMs /\ pc[c] = "cleared" /\ Fresh(vm[c])
      BY <1>0, <1>3 DEF PutSend, TypeOK, Holding, Worn
    <2>2. /\ UNCHANGED <<heap, vm, janitor>> /\ pc' = [pc EXCEPT ![c] = "done"]
          /\ pool' = pool \/ pool' = Append(pool, vm[c])
      BY <1>3 DEF PutSend
    <2>3. VMs' = VMs
      BY <2>2 DEF VMs
    <2>4. \A v : InPool(v)' => InPool(v) \/ v = vm[c]
      <3>1. /\ Len(pool) \in Nat /\ Len(Append(pool, vm[c])) = Len(pool) + 1
            /\ \A i \in 1..Len(pool) : Append(pool, vm[c])[i] = pool[i]
            /\ Append(pool, vm[c])[Len(pool) + 1] = vm[c]
        BY <1>0, <2>1, AppendFacts DEF TypeOK
      <3> QED
        BY <2>2, <3>1 DEF InPool
    <2>5. \A d \in Calls : pc'[d] = "cleared" => vm[d] \in VMs /\ Fresh(vm[d])
      BY <1>0, <2>2 DEF TypeOK, Holding, Worn
    <2>6. janitor'.vm \in VMs \cup {NoVM} /\ (janitor'.vm # NoVM => Fresh(janitor.vm)')
      BY <1>0, <2>2 DEF TypeOK, Worn, Fresh
    <2> QED
      BY <2>1, <2>2, <2>3, <2>4, <2>5, <2>6, SameUsage
  <1> QED
    BY <1>1, <1>2, <1>3 DEF Timer, Put

LEMMA CleanupWorn ==
    ASSUME IInv, Worn, Cleanup
    PROVE  Worn'
  <1>0. TypeOK /\ Holding /\ ExclusiveVM
    BY DEF IInv
  <1>1. UNCHANGED <<heap, pc, vm>> /\ VMs' = VMs
    BY DEF Cleanup, CleanupTick, CleanupLoop, CleanupTake, CleanupPut, VMs
  <1>2. \A d \in Calls : pc'[d] = "cleared" => vm[d] \in VMs /\ Fresh(vm[d])
    BY <1>0, <1>1 DEF TypeOK, Holding, Worn
  <1>3. CASE CleanupTick \/ CleanupLoop \/ (CleanupTake /\ pool = <<>>)
    <2>1. pool' = pool /\ janitor'.vm = NoVM
      BY <1>0, <1>3 DEF CleanupTick, CleanupLoop, CleanupTake, Holding, TypeOK
    <2>2. \A v : InPool(v)' => InPool(v)
      BY <2>1 DEF InPool
    <2> QED
      BY <1>1, <1>2, <2>1, <2>2, SameUsage
  <1>4. CASE CleanupTake /\ pool # <<>>
    <2>1. pool' = Tail(pool)
          /\ janitor' = [pc |-> "hold", i |-> janitor.i, vm |-> Head(pool)]
      BY <1>4 DEF CleanupTake
    <2>2. janitor'.vm = Head(pool)
      BY <2>1
    <2>3. InPool(Head(pool)) /\ \A w : InPool(w)' => InPool(w)
      BY <1>0, <1>4, <2>1, ReceiveFacts DEF ExclusiveVM
    <2>4. Head(pool) \in VMs /\ heap[Head(pool)].usageCount <= UsageCap
      BY <1>0, <2>3 DEF InPool, Worn, Limited, TypeOK
    <2>5. janitor'.vm # NoVM => Fresh(janitor.vm)'
      BY <1>1, <2>2, <2>4 DEF Fresh
    <2> QED
      BY <1>1, <1>2, <2>2, <2>3, <2>4, <2>5, SameUsage
  <1>5. CASE CleanupPut
    <2>1. /\ janitor.vm \in VMs /\ janitor.vm # NoVM /\ janitor'.vm = NoVM
          /\ (pool' = pool \/ pool' = Append(pool, janitor.vm))
      BY <1>0, <1>5 DEF CleanupPut, Holding, TypeOK
    <2>2. \A v : InPool(v)' => InPool(v) \/ v = janitor.vm
      <3>1. /\ Len(pool) \in Nat /\ Len(Append(pool, janitor.vm)) = Len(pool) + 1
            /\ \A i \in 1..Len(pool) : Append(pool, janitor.vm)[i] = pool[i]
            /\ Append(pool, janitor.vm)[Len(pool) + 1] = janitor.vm
        BY <1>0, <2>1, AppendFacts DEF TypeOK
      <3> QED
        BY <2>1, <3>1 DEF InPool
    <2>3. Fresh(janitor.vm)
      BY <2>1 DEF Worn
    <2> QED
      BY <1>1, <1>2, <2>1, <2>2, <2>3, SameUsage
  <1> QED
    BY <1>3, <1>4, <1>5 DEF Cleanup

LEMMA GoesStaleWorn ==
    ASSUME IInv, Worn, NEW v \in VMs, GoesStale(v)
    PROVE  Worn'
  <1>0. TypeOK /\ Holding
    BY DEF IInv
  <1>1. /\ heap' = [heap EXCEPT ![v] = [heap[v] EXCEPT !.lastUsed = "stale"]]
        /\ UNCHANGED <<pool, pc, vm, janitor>>
    BY DEF GoesStale
  <1>2. heap[v] \in GojaVM
    BY <1>0, VMsFacts
  <1>3. [heap[v] EXCEPT !.lastUsed = "stale"] \in GojaVM
        /\ [heap[v] EXCEPT !.lastUsed = "stale"].usageCount = heap[v].usageCount
    BY <1>2, VMRecord DEF GojaVM
  <1>4. VMs' = VMs /\ \A w \in VMs : heap'[w].usageCount = heap[w].usageCount
    BY <1>1, <1>3, UsageKept
  <1>5. \A d \in Calls : pc'[d] = "cleared" => vm[d] \in VMs /\ Fresh(vm[d])
    BY <1>0, <1>1 DEF TypeOK, Holding, Worn
  <1>6. janitor'.vm \in VMs \cup {NoVM} /\ (janitor'.vm # NoVM => Fresh(janitor.vm)')
    BY <1>0, <1>1, <1>4 DEF TypeOK, Worn, Fresh
  <1>7. \A w : InPool(w)' => InPool(w)
    BY <1>1 DEF InPool
  <1> QED
    BY <1>1, <1>4, <1>5, <1>6, <1>7, SameUsage

(* The usage count of a VM is the number of calls it was handed to, but    *)
(* for the call it was created for.                                        *)
Uncounted(v) == IF v <= MinSize THEN 0 ELSE 1

Counted ==
    /\ Len(heap) >= MinSize
    /\ \A v \in VMs :
          /\ IsFiniteSet(HandedTo(v))
          /\ Cardinality(HandedTo(v)) = heap[v].usageCount + Uncounted(v)

LEMMA InitCounted == Init => Counted
  <1> SUFFICES ASSUME Init PROVE Counted
    OBVIOUS
  <1>1. /\ heap = [i \in 1..MinSize |-> NewVM] /\ VMs = 1..MinSize
        /\ Len(heap) = MinSize
    BY PoolAssumption DEF Init, InitGojaPool, VMs
  <1>2. \A v \in VMs : HandedTo(v) = {} /\ heap[v].usageCount = 0 /\ Uncounted(v) = 0
    BY <1>1, PoolAssumption DEF Init, HandedTo, NewVM, Uncounted
  <1> QED
    BY <1>1, <1>2, FS_EmptySet, PoolAssumption DEF Counted

(* A step that hands no VM out and changes no usage count.                 *)
LEMMA QuietCounted ==
    ASSUME Counted, TypeOK, TypeOK', VMs' = VMs, vm' = vm,
           \A v \in VMs : heap'[v].usageCount = heap[v].usageCount
    PROVE  Counted'
  <1>1. Len(heap') = Len(heap)
    BY DEF TypeOK, VMs
  <1>2. \A v \in VMs : HandedTo(v)' = HandedTo(v)
    BY DEF HandedTo
  <1> QED
    BY <1>1, <1>2 DEF Counted, Uncounted

LEMMA GetCounted ==
    ASSUME IInv, Counted, NEW c \in Calls, Get(c)
    PROVE  Counted'
  <1>0. TypeOK /\ Holding
    BY DEF IInv
  <1>1. vm[c] = NoVM
    BY <1>0 DEF Get, GetReused, GetCreated, Holding
  <1>v. vm \in [Calls -> VMs \cup {NoVM}]
    BY <1>0 DEF TypeOK
  <1>2. CASE GetReused(c)
    <2>0. PICK v : v = Head(pool)
      OBVIOUS
    <2>1. /\ pool # <<>> /\ vm' = [vm EXCEPT ![c] = v]
          /\ heap' = [heap EXCEPT ![v] = Touched(heap[v])]
      BY <1>2, <2>0 DEF GetReused, Acquired
    <2>2. v \in VMs /\ v # NoVM
      BY <1>0, <2>0, <2>1, TailFacts, VMsFacts DEF TypeOK
    <2>3. /\ VMs' = VMs /\ heap' \in Seq(GojaVM)
          /\ \A w \in VMs : heap'[w] = IF w = v THEN Touched(heap[v]) ELSE heap[w]
      BY <1>0, <2>1, <2>2, VMsFacts, VMRecord, HeapStep
    <2>4. Len(heap') = Len(heap)
      BY <1>0, <2>3 DEF VMs, TypeOK
    <2>5. /\ heap'[v].usageCount = heap[v].usageCount + 1
          /\ heap[v].usageCount \in Nat /\ Uncounted(v) \in Nat
      BY <1>0, <2>2, <2>3, VMsFacts DEF Touched, GojaVM, Uncounted
    <2>a. \A d \in Calls : vm'[d] = IF d = c THEN v ELSE vm[d]
      BY <1>v, <2>1
    <2>6. HandedTo(v)' = HandedTo(v) \cup {c} /\ c \notin HandedTo(v)
      BY <1>1, <2>a, <2>2 DEF HandedTo
    <2>b. \A w \in VMs : w # NoVM
      BY <1>0, VMsFacts
    <2>7. \A w \in VMs \ {v} : HandedTo(w)' = HandedTo(w)
      BY <1>1, <2>a, <2>b DEF HandedTo
    <2>8. /\ IsFiniteSet(HandedTo(v)) /\ IsFiniteSet(HandedTo(v)')
          /\ Cardinality(HandedTo(v)') = Cardinality(HandedTo(v)) + 1
          /\ Cardinality(HandedTo(v)) = heap[v].usageCount + Uncounted(v)
      BY <2>2, <2>6, FS_AddElement DEF Counted
    <2>9. Cardinality(HandedTo(v)') = heap'[v].usageCount + Uncounted(v)
      BY ONLY <2>5, <2>8
    <2>10. ASSUME NEW w \in VMs
           PROVE  /\ IsFiniteSet(HandedTo(w)')
                  /\ Cardinality(HandedTo(w)') = heap'[w].usageCount + Uncounted(w)
      <3>1. CASE w = v
        BY <2>8, <2>9, <3>1 DEF HandedTo
      <3>2. CASE w # v
        <4>1. HandedTo(w)' = HandedTo(w) /\ heap'[w] = heap[w]
          BY <2>3, <2>7, <3>2
        <4>2. IsFiniteSet(HandedTo(w)) /\ Cardinality(HandedTo(w)) = heap[w].usageCount + Uncounted(w)
          BY DEF Counted
        <4> QED
          BY <4>1, <4>2
      <3> QED
        BY <3>1, <3>2
    <2>11. Len(heap') >= MinSize
      BY <2>4 DEF Counted
    <2> QED
      BY <2>3, <2>10, <2>11 DEF Counted, Uncounted
  <1>3. CASE GetCreated(c)
    <2>0. PICK v : v = Len(heap) + 1
      OBVIOUS
    <2>1. vm' = [vm EXCEPT ![c] = v] /\ heap' = Append(heap, NewVM)
      BY <1>3, <2>0 DEF GetCreated, Acquired
    <2>2. NewVM \in GojaVM /\ NewVM.usageCount = 0
      BY DEF NewVM, GojaVM
    <2>3. /\ \A w \in VMs : heap'[w] = heap[w]
          /\ heap'[v] = NewVM /\ VMs' = VMs \cup {v} /\ Len(heap') = v
      BY <1>0, <2>0, <2>1, <2>2, AppendFacts DEF TypeOK, VMs
    <2>4. /\ v \notin VMs /\ v # NoVM /\ v > MinSize /\ Len(heap') >= MinSize
      BY <1>0, <2>0, <2>3, VMsFacts, PoolAssumption DEF Counted
    <2>a. \A d \in Calls : vm'[d] = IF d = c THEN v ELSE vm[d]
      BY <1>v, <2>1
    <2>b. \A w \in VMs : w # NoVM /\ w # v
      BY <1>0, <2>4, VMsFacts
    <2>c. \A d \in Calls : vm[d] # v
      BY <1>v, <2>4
    <2>5. HandedTo(v)' = {c} /\ \A w \in VMs : HandedTo(w)' = HandedTo(w)
      BY <1>1, <2>a, <2>b, <2>c DEF HandedTo
    <2>6. IsFiniteSet({c}) /\ Cardinality({c}) = 1
      BY FS_Singleton
    <2>7. Uncounted(v) = 1
      <3>1. v \in Nat /\ ~(v <= MinSize)
        BY <1>0, <2>0, <2>4, VMsFacts, PoolAssumption
      <3> QED
        BY <3>1 DEF Uncounted
    <2> QED
      <3>1. ASSUME NEW w \in VMs
            PROVE  /\ IsFiniteSet(HandedTo(w)')
                   /\ Cardinality(HandedTo(w)') = heap'[w].usageCount + Uncounted(w)
        BY <2>3, <2>5 DEF Counted
      <3>2. /\ IsFiniteSet(HandedTo(v)')
            /\ Cardinality(HandedTo(v)') = heap'[v].usageCount + Uncounted(v)
        BY <2>2, <2>3, <2>5, <2>6, <2>7
      <3>3. ASSUME NEW w \in VMs'
            PROVE  /\ IsFiniteSet(HandedTo(w)')
                   /\ Cardinality(HandedTo(w)') = heap'[w].usageCount + Uncounted(w)
        <4>1. CASE w \in VMs
          BY <3>1, <4>1
        <4>2. CASE w = v
          BY <3>2, <4>2 DEF HandedTo
        <4> QED
          BY <2>3, <4>1, <4>2
      <3> QED
        BY <2>4, <3>3 DEF Counted, Uncounted
  <1> QED
    BY <1>2, <1>3 DEF Get

LEMMA OtherCounted ==
    ASSUME IInv, Counted, [Next]_vars, ~\E c \in Calls : Get(c)
    PROVE  Counted'
  <1>0. TypeOK /\ Holding
    BY DEF IInv
  <1>t. TypeOK'
    BY <1>0, TypeStep
  <1>1. ASSUME NEW c \in Calls, TimerCallback(c) \/ PutClear(c)
        PROVE  Counted'
    <2>1. vm[c] \in VMs /\ vm' = vm
      BY <1>0, <1>1 DEF TimerCallback, PutClear, TypeOK, Holding
    <2>2. PICK b \in BOOLEAN : heap' = [heap EXCEPT ![vm[c]] = Interrupt(heap[vm[c]], b)]
      BY <1>1 DEF TimerCallback, PutClear
    <2>3. heap[vm[c]] \in GojaVM
      BY <1>0, <2>1, VMsFacts
    <2>4. Interrupt(heap[vm[c]], b) \in GojaVM
          /\ Interrupt(heap[vm[c]], b).usageCount = heap[vm[c]].usageCount
      BY <2>3, VMRecord DEF Interrupt, GojaVM
    <2> QED
      BY <1>0, <1>t, <2>1, <2>2, <2>4, UsageKept, QuietCounted
  <1>2. ASSUME NEW v \in VMs, GoesStale(v) PROVE Counted'
    <2>1. heap' = [heap EXCEPT ![v] = [heap[v] EXCEPT !.lastUsed = "stale"]] /\ vm' = vm
      BY <1>2 DEF GoesStale
    <2>2. heap[v] \in GojaVM
      BY <1>0, VMsFacts
    <2>3. [heap[v] EXCEPT !.lastUsed = "stale"] \in GojaVM
          /\ [heap[v] EXCEPT !.lastUsed = "stale"].usageCount = heap[v].usageCount
      BY <2>2, VMRecord DEF GojaVM
    <2> QED
      BY <1>0, <1>t, <2>1, <2>3, UsageKept, QuietCounted
  <1>3. CASE UNCHANGED <<heap, vm>>
    BY <1>0, <1>t, <1>3, QuietCounted DEF VMs
  <1>4. ASSUME NEW c \in Calls,
               Run(c) \/ StopTimer(c) \/ TimerFires(c) \/ PutWornOut(c) \/ PutSend(c)
        PROVE  UNCHANGED <<heap, vm>>
    BY <1>4 DEF Run, RunToEnd, RunInterrupted, Returned, StopTimer, TimerFires,
                PutWornOut, PutSend
  <1>5. Cleanup \/ UNCHANGED vars => UNCHANGED <<heap, vm>>
    BY DEF Cleanup, CleanupTick, CleanupLoop, CleanupTake, CleanupPut, vars
  <1> QED
    BY <1>1, <1>2, <1>3, <1>4, <1>5 DEF Next, Execute, Timer, Put

(* Put's usage limit works across every interleaving: no pooled VM is over *)
(* the limit, so an initial VM is never handed to more than UsageCap + 1   *)
(* calls, and a VM that Get created never to more than UsageCap + 2.       *)
THEOREM WornOutNeverPooled == Spec => []WornOutLeaves
  <1>1. IInv /\ Worn /\ [Next]_vars => Worn'
    <2> SUFFICES ASSUME IInv, Worn, [Next]_vars PROVE Worn'
      OBVIOUS
    <2>1. ASSUME NEW c \in Calls, Execute(c) \/ Timer(c) PROVE Worn'
      BY <2>1, GetWorn, ExecuteWorn DEF Execute
    <2>2. CASE Cleanup
      BY <2>2, CleanupWorn
    <2>3. ASSUME NEW v \in VMs, GoesStale(v) PROVE Worn'
      BY <2>3, GoesStaleWorn
    <2>4. CASE UNCHANGED vars
      BY <2>4 DEF vars, Worn, Limited, Fresh, VMs
    <2> QED
      BY <2>1, <2>2, <2>3, <2>4 DEF Next
  <1>2. IInv /\ [Next]_vars => IInv'
    BY TypeStep, ExclusiveStep DEF IInv
  <1>3. IInv /\ Counted /\ [Next]_vars => Counted'
    BY GetCounted, OtherCounted
  <1>4. IInv /\ Worn /\ Counted => WornOutLeaves
    <2> SUFFICES ASSUME IInv, Worn, Counted PROVE WornOutLeaves
      OBVIOUS
    <2>1. ASSUME NEW v \in VMs
          PROVE  Cardinality(HandedTo(v)) <= UsageCap + (IF v <= MinSize THEN 1 ELSE 2)
      <3>1. /\ Cardinality(HandedTo(v)) = heap[v].usageCount + Uncounted(v)
            /\ heap[v].usageCount <= UsageCap + 1 /\ heap[v].usageCount \in Nat
        BY VMsFacts DEF Counted, Worn, Limited, IInv, GojaVM
      <3> QED
        BY <3>1, PoolAssumption DEF Uncounted
    <2> QED
      BY <2>1 DEF WornOutLeaves, Worn, Limited
  <1> QED
    BY InitIInv, InitWorn, InitCounted, <1>1, <1>2, <1>3, <1>4, PTL DEF Spec

-----------------------------------------------------------------------------
(* Accounting.  Only finitely many calls have begun at any moment, however *)
(* many there will be; the sets that the counters count are finite.        *)
Begun == {c \in Calls : pc[c] # "idle"}
Using == {c \in Calls : InUse(c)}
Kept  == IF janitor.vm = NoVM THEN 0 ELSE 1

Accounts ==
    /\ IsFiniteSet(Begun) /\ IsFiniteSet(Using)
    /\ stats.created + stats.reused = Cardinality(Begun)
    /\ Len(heap) = MinSize + stats.created
    /\ Len(heap) = Len(pool) + Cardinality(Using) + Kept + stats.evicted + dropped

LEMMA AccountsExact == Accounts => Accounting
  <1>1. Cardinality({janitor.vm} \ {NoVM}) = Kept
    <2>1. CASE janitor.vm = NoVM
      <3>1. {janitor.vm} \ {NoVM} = {}
        BY <2>1
      <3> QED
        BY <2>1, <3>1, FS_EmptySet DEF Kept
    <2>2. CASE janitor.vm # NoVM
      <3>1. {janitor.vm} \ {NoVM} = {janitor.vm}
        BY <2>2
      <3>2. Cardinality({janitor.vm}) = 1
        BY FS_Singleton
      <3> QED
        BY <2>2, <3>1, <3>2 DEF Kept
    <2> QED
      BY <2>1, <2>2
  <1> QED
    BY <1>1 DEF Accounts, Accounting, Begun, Using

LEMMA InitAccounts == Init => Accounts
  <1> SUFFICES ASSUME Init PROVE Accounts
    OBVIOUS
  <1> USE PoolAssumption DEF Init, InitGojaPool
  <1>1. Begun = {} /\ Using = {} /\ Kept = 0
    BY DEF Begun, Using, InUse, Kept
  <1>2. Len(heap) = MinSize /\ Len(pool) = MinSize
    OBVIOUS
  <1>3. IsFiniteSet({}) /\ Cardinality({}) = 0
    BY FS_EmptySet
  <1> QED
    BY <1>1, <1>2, <1>3 DEF Accounts

LEMMA AccountTypes ==
    ASSUME IInv, Accounts
    PROVE  /\ Cardinality(Begun) \in Nat /\ Cardinality(Using) \in Nat /\ Kept \in Nat
           /\ stats.created \in Nat /\ stats.reused \in Nat /\ stats.evicted \in Nat
           /\ Len(heap) \in Nat /\ Len(pool) \in Nat /\ dropped \in Nat /\ MinSize \in Nat
           /\ stats \in [created : Nat, reused : Nat, evicted : Nat]
  BY FS_CardinalityType, PoolAssumption DEF Accounts, IInv, TypeOK, Kept

(* A call begins, a call ends, or every call stays in or out of use.       *)
LEMMA CallBegins ==
    ASSUME IInv, Accounts, NEW c \in Calls, pc[c] = "idle",
           pc' = [pc EXCEPT ![c] = "running"]
    PROVE  /\ IsFiniteSet(Begun') /\ Cardinality(Begun') = Cardinality(Begun) + 1
           /\ IsFiniteSet(Using') /\ Cardinality(Using') = Cardinality(Using) + 1
  <1>1. /\ Begun' = Begun \cup {c} /\ c \notin Begun
        /\ Using' = Using \cup {c} /\ c \notin Using
    BY DEF IInv, TypeOK, Begun, Using, InUse
  <1>2. IsFiniteSet(Begun) /\ IsFiniteSet(Using)
    BY DEF Accounts
  <1> QED
    BY <1>1, <1>2, FS_AddElement

LEMMA CallEnds ==
    ASSUME IInv, Accounts, NEW c \in Calls, InUse(c), pc' = [pc EXCEPT ![c] = "done"]
    PROVE  /\ Begun' = Begun
           /\ IsFiniteSet(Using') /\ Cardinality(Using') = Cardinality(Using) - 1
  <1>1. Begun' = Begun /\ Using' = Using \ {c} /\ c \in Using
    BY DEF IInv, TypeOK, Begun, Using, InUse
  <1>2. IsFiniteSet(Using)
    BY DEF Accounts
  <1> QED
    BY <1>1, <1>2, FS_RemoveElement

LEMMA CallStays ==
    ASSUME IInv, NEW c \in Calls, InUse(c),
           NEW p \in {"returned", "stopped", "cleared"}, pc' = [pc EXCEPT ![c] = p]
    PROVE  Begun' = Begun /\ Using' = Using
  BY DEF IInv, TypeOK, Begun, Using, InUse

LEMMA GetAccounts ==
    ASSUME IInv, Accounts, NEW c \in Calls, Get(c)
    PROVE  Accounts'
  <1>0. TypeOK /\ Holding
    BY DEF IInv
  <1>1. /\ pc[c] = "idle" /\ pc' = [pc EXCEPT ![c] = "running"]
        /\ janitor' = janitor /\ dropped' = dropped
    BY DEF Get, GetReused, GetCreated, Acquired
  <1>2. Kept' = Kept
    BY <1>1 DEF Kept
  <1>3. CASE GetReused(c)
    <2>1. pool # <<>> /\ pool' = Tail(pool) /\ heap' = [heap EXCEPT ![Head(pool)] = Touched(heap[Head(pool)])]
      BY <1>3 DEF GetReused
    <2>2. Len(pool') = Len(pool) - 1 /\ Head(pool) \in VMs
      BY <1>0, <2>1, TailFacts DEF TypeOK
    <2>3. Len(heap') = Len(heap)
      BY <1>0, <2>1, <2>2, VMRecord, VMsFacts, HeapField DEF TypeOK
    <2>4. /\ stats'.created = stats.created /\ stats'.evicted = stats.evicted
          /\ stats'.reused = stats.reused + 1
      BY <1>0, <1>3 DEF GetReused, TypeOK
    <2>5. /\ IsFiniteSet(Begun') /\ Cardinality(Begun') = Cardinality(Begun) + 1
          /\ IsFiniteSet(Using') /\ Cardinality(Using') = Cardinality(Using) + 1
      BY <1>1, CallBegins
    <2>6. /\ Cardinality(Begun) \in Nat /\ Cardinality(Using) \in Nat
          /\ stats.created \in Nat /\ stats.reused \in Nat /\ stats.evicted \in Nat
          /\ Len(heap) \in Nat /\ Len(pool) \in Nat /\ dropped \in Nat /\ MinSize \in Nat
          /\ Kept \in Nat
      BY AccountTypes
    <2> QED
      <3>1. stats.created + stats.reused = Cardinality(Begun)
        BY DEF Accounts
      <3>2. Len(heap) = MinSize + stats.created
        BY DEF Accounts
      <3>3. Len(heap) = Len(pool) + Cardinality(Using) + Kept + stats.evicted + dropped
        BY DEF Accounts
      <3>4. stats'.created + stats'.reused = Cardinality(Begun')
        BY ONLY <2>4, <2>5, <2>6, <3>1
      <3>5. Len(heap') = MinSize + stats'.created
        BY ONLY <2>3, <2>4, <2>6, <3>2
      <3>6. Len(heap') = Len(pool') + Cardinality(Using') + Kept' + stats'.evicted + dropped'
        BY ONLY <1>1, <1>2, <2>2, <2>3, <2>4, <2>5, <2>6, <3>3
      <3> QED
        BY <2>5, <3>4, <3>5, <3>6 DEF Accounts
  <1>4. CASE GetCreated(c)
    <2>1. Len(heap') = Len(heap) + 1 /\ pool' = pool
      BY <1>0, <1>4 DEF GetCreated, TypeOK
    <2>2. /\ stats'.created = stats.created + 1 /\ stats'.evicted = stats.evicted
          /\ stats'.reused = stats.reused
      BY <1>0, <1>4 DEF GetCreated, TypeOK
    <2>3. /\ IsFiniteSet(Begun') /\ Cardinality(Begun') = Cardinality(Begun) + 1
          /\ IsFiniteSet(Using') /\ Cardinality(Using') = Cardinality(Using) + 1
      BY <1>1, CallBegins
    <2>4. /\ Cardinality(Begun) \in Nat /\ Cardinality(Using) \in Nat
          /\ stats.created \in Nat /\ stats.reused \in Nat /\ stats.evicted \in Nat
          /\ Len(heap) \in Nat /\ Len(pool) \in Nat /\ dropped \in Nat /\ MinSize \in Nat
          /\ Kept \in Nat
      BY AccountTypes
    <2> QED
      <3>1. stats.created + stats.reused = Cardinality(Begun)
        BY DEF Accounts
      <3>2. Len(heap) = MinSize + stats.created
        BY DEF Accounts
      <3>3. Len(heap) = Len(pool) + Cardinality(Using) + Kept + stats.evicted + dropped
        BY DEF Accounts
      <3>4. stats'.created + stats'.reused = Cardinality(Begun')
        BY ONLY <2>2, <2>3, <2>4, <3>1
      <3>5. Len(heap') = MinSize + stats'.created
        BY ONLY <2>1, <2>2, <2>4, <3>2
      <3>6. Len(heap') = Len(pool') + Cardinality(Using') + Kept' + stats'.evicted + dropped'
        BY ONLY <1>1, <1>2, <2>1, <2>2, <2>3, <2>4, <3>3
      <3> QED
        BY <2>3, <3>4, <3>5, <3>6 DEF Accounts
  <1> QED
    BY <1>3, <1>4 DEF Get

(* The steps that move no VM.                                              *)
LEMMA QuietAccounts ==
    ASSUME IInv, Accounts, UNCHANGED <<pool, stats, dropped>>, Len(heap') = Len(heap),
           janitor'.vm = janitor.vm, Begun' = Begun, Using' = Using
    PROVE  Accounts'
  BY DEF Accounts, Kept

LEMMA ExecuteAccounts ==
    ASSUME IInv, Accounts, NEW c \in Calls,
           Run(c) \/ StopTimer(c) \/ Timer(c) \/ Put(c)
    PROVE  Accounts'
  <1>0. TypeOK /\ Holding
    BY DEF IInv
  <1>1. CASE Run(c) \/ StopTimer(c) \/ PutClear(c)
    <2>1. /\ UNCHANGED <<pool, stats, dropped, janitor>> /\ InUse(c)
          /\ \E p \in {"returned", "stopped", "cleared"} : pc' = [pc EXCEPT ![c] = p]
      BY <1>1 DEF Run, RunToEnd, RunInterrupted, Returned, StopTimer, PutClear, InUse
    <2>2. heap' = heap \/ PutClear(c)
      BY <1>1 DEF Run, RunToEnd, RunInterrupted, Returned, StopTimer
    <2>3. VMs' = VMs /\ TypeOK'
      BY <1>0, <1>1, RunType, InterruptType
    <2>4. Len(heap') = Len(heap)
      BY <1>0, <2>3 DEF VMs, TypeOK
    <2> QED
      BY <2>1, <2>4, CallStays, QuietAccounts
  <1>2. CASE Timer(c)
    <2>1. UNCHANGED <<pool, stats, dropped, janitor, pc>>
      BY <1>2 DEF Timer, TimerFires, TimerCallback
    <2>2. VMs' = VMs /\ TypeOK'
      BY <1>0, <1>2, RunType, InterruptType DEF Timer
    <2>3. Len(heap') = Len(heap)
      BY <1>0, <2>2 DEF VMs, TypeOK
    <2>4. Begun' = Begun /\ Using' = Using
      BY <2>1 DEF Begun, Using, InUse
    <2> QED
      BY <2>1, <2>3, <2>4, QuietAccounts
  <1>3. CASE PutWornOut(c) \/ PutSend(c)
    <2>1. /\ InUse(c) /\ pc' = [pc EXCEPT ![c] = "done"]
          /\ UNCHANGED <<heap, dropped, janitor>>
      BY <1>3 DEF PutWornOut, PutSend, InUse
    <2>2. Kept' = Kept
      BY <2>1 DEF Kept
    <2>3. \/ /\ pool' = pool
             /\ stats' = [stats EXCEPT !.evicted = stats.evicted + 1]
          \/ /\ pool' = Append(pool, vm[c])
             /\ stats' = stats
      BY <1>3 DEF PutWornOut, PutSend
    <2>4. vm[c] \in VMs
      BY <1>0, <2>1 DEF TypeOK, Holding, InUse
    <2>5. /\ stats'.created = stats.created /\ stats'.reused = stats.reused
          /\ \/ Len(pool') = Len(pool) /\ stats'.evicted = stats.evicted + 1
             \/ Len(pool') = Len(pool) + 1 /\ stats'.evicted = stats.evicted
      BY <1>0, <2>3, <2>4, AppendFacts, AccountTypes DEF TypeOK
    <2>6. /\ Begun' = Begun
          /\ IsFiniteSet(Using') /\ Cardinality(Using') = Cardinality(Using) - 1
      BY <2>1, CallEnds
    <2>7. /\ Cardinality(Begun) \in Nat /\ Cardinality(Using) \in Nat
          /\ stats.created \in Nat /\ stats.reused \in Nat /\ stats.evicted \in Nat
          /\ Len(heap) \in Nat /\ Len(pool) \in Nat /\ dropped \in Nat /\ MinSize \in Nat
          /\ Kept \in Nat
      BY AccountTypes
    <2> QED
      <3>1. stats.created + stats.reused = Cardinality(Begun)
        BY DEF Accounts
      <3>2. Len(heap) = MinSize + stats.created
        BY DEF Accounts
      <3>3. Len(heap) = Len(pool) + Cardinality(Using) + Kept + stats.evicted + dropped
        BY DEF Accounts
      <3>4. stats'.created + stats'.reused = Cardinality(Begun')
        BY ONLY <2>5, <2>6, <2>7, <3>1
      <3>5. Len(heap') = MinSize + stats'.created
        BY ONLY <2>1, <2>5, <2>7, <3>2
      <3>6. Len(heap') = Len(pool') + Cardinality(Using') + Kept' + stats'.evicted + dropped'
        <4>1. Len(heap') = Len(heap) /\ dropped' = dropped
          BY <2>1
        <4>2. CASE Len(pool') = Len(pool) /\ stats'.evicted = stats.evicted + 1
          BY ONLY <2>2, <2>6, <2>7, <3>3, <4>1, <4>2
        <4>3. CASE Len(pool') = Len(pool) + 1 /\ stats'.evicted = stats.evicted
          BY ONLY <2>2, <2>6, <2>7, <3>3, <4>1, <4>3
        <4> QED
          BY <2>5, <4>2, <4>3
      <3> QED
        BY <2>6, <3>4, <3>5, <3>6 DEF Accounts
  <1> QED
    BY <1>1, <1>2, <1>3 DEF Put

LEMMA CleanupAccounts ==
    ASSUME IInv, Accounts, Cleanup
    PROVE  Accounts'
  <1>0. TypeOK /\ Holding
    BY DEF IInv
  <1>1. UNCHANGED <<heap, pc>> /\ Begun' = Begun /\ Using' = Using
    BY DEF Cleanup, CleanupTick, CleanupLoop, CleanupTake, CleanupPut, Begun, Using, InUse
  <1>2. CASE CleanupTick \/ CleanupLoop \/ (CleanupTake /\ pool = <<>>)
    <2>1. UNCHANGED <<pool, stats, dropped>> /\ janitor'.vm = NoVM /\ janitor.vm = NoVM
      BY <1>0, <1>2 DEF CleanupTick, CleanupLoop, CleanupTake, Holding, TypeOK
    <2> QED
      BY <1>1, <2>1, QuietAccounts
  <1>3. CASE CleanupTake /\ pool # <<>>
    <2>1. /\ pool' = Tail(pool) /\ UNCHANGED <<stats, dropped>>
          /\ janitor' = [pc |-> "hold", i |-> janitor.i, vm |-> Head(pool)]
          /\ janitor.vm = NoVM
      BY <1>0, <1>3 DEF CleanupTake, Holding
    <2>2. Len(pool') = Len(pool) - 1 /\ Head(pool) \in VMs
      BY <1>0, <1>3, <2>1, TailFacts DEF TypeOK
    <2>3. janitor'.vm # NoVM
      BY <1>0, <2>1, <2>2, VMsFacts
    <2>4. Kept = 0 /\ Kept' = 1
      BY <2>1, <2>3 DEF Kept
    <2>5. /\ Cardinality(Begun) \in Nat /\ Cardinality(Using) \in Nat
          /\ stats.created \in Nat /\ stats.reused \in Nat /\ stats.evicted \in Nat
          /\ Len(heap) \in Nat /\ Len(pool) \in Nat /\ dropped \in Nat /\ MinSize \in Nat
          /\ Kept \in Nat
      BY AccountTypes
    <2> QED
      <3>1. stats.created + stats.reused = Cardinality(Begun)
        BY DEF Accounts
      <3>2. Len(heap) = MinSize + stats.created
        BY DEF Accounts
      <3>3. Len(heap) = Len(pool) + Cardinality(Using) + Kept + stats.evicted + dropped
        BY DEF Accounts
      <3>4. stats'.created + stats'.reused = Cardinality(Begun')
        BY ONLY <1>1, <2>1, <2>5, <3>1
      <3>5. Len(heap') = MinSize + stats'.created
        BY ONLY <1>1, <2>1, <2>5, <3>2
      <3>6. Len(heap') = Len(pool') + Cardinality(Using') + Kept' + stats'.evicted + dropped'
        BY ONLY <1>1, <2>1, <2>2, <2>4, <2>5, <3>3
      <3> QED
        BY <1>1, <3>4, <3>5, <3>6 DEF Accounts
  <1>4. CASE CleanupPut
    <2>1. janitor.vm \in VMs /\ janitor.vm # NoVM /\ janitor'.vm = NoVM
      BY <1>0, <1>4 DEF CleanupPut, Holding, TypeOK
    <2>2. Kept = 1 /\ Kept' = 0
      BY <2>1 DEF Kept
    <2>3. \/ /\ stats' = [stats EXCEPT !.evicted = stats.evicted + 1]
             /\ UNCHANGED <<pool, dropped>>
          \/ pool' = Append(pool, janitor.vm) /\ UNCHANGED <<stats, dropped>>
          \/ dropped' = dropped + 1 /\ UNCHANGED <<pool, stats>>
      BY <1>4 DEF CleanupPut
    <2>4. /\ stats'.created = stats.created /\ stats'.reused = stats.reused
          /\ \/ /\ Len(pool') = Len(pool) /\ dropped' = dropped
                /\ stats'.evicted = stats.evicted + 1
             \/ /\ Len(pool') = Len(pool) + 1 /\ dropped' = dropped
                /\ stats'.evicted = stats.evicted
             \/ /\ Len(pool') = Len(pool) /\ dropped' = dropped + 1
                /\ stats'.evicted = stats.evicted
      BY <1>0, <2>1, <2>3, AppendFacts, AccountTypes DEF TypeOK
    <2>5. /\ Cardinality(Begun) \in Nat /\ Cardinality(Using) \in Nat
          /\ stats.created \in Nat /\ stats.reused \in Nat /\ stats.evicted \in Nat
          /\ Len(heap) \in Nat /\ Len(pool) \in Nat /\ dropped \in Nat /\ MinSize \in Nat
          /\ Kept \in Nat
      BY AccountTypes
    <2> QED
      <3>1. stats.created + stats.reused = Cardinality(Begun)
        BY DEF Accounts
      <3>2. Len(heap) = MinSize + stats.created
        BY DEF Accounts
      <3>3. Len(heap) = Len(pool) + Cardinality(Using) + Kept + stats.evicted + dropped
        BY DEF Accounts
      <3>4. stats'.created + stats'.reused = Cardinality(Begun')
        BY ONLY <1>1, <2>4, <2>5, <3>1
      <3>5. Len(heap') = MinSize + stats'.created
        BY ONLY <1>1, <2>4, <2>5, <3>2
      <3>6. Len(heap') = Len(pool') + Cardinality(Using') + Kept' + stats'.evicted + dropped'
        <4>1. Len(heap') = Len(heap) /\ Cardinality(Using') = Cardinality(Using)
          BY <1>1
        <4>2. CASE /\ Len(pool') = Len(pool) /\ dropped' = dropped
                   /\ stats'.evicted = stats.evicted + 1
          BY ONLY <2>2, <2>5, <3>3, <4>1, <4>2
        <4>3. CASE /\ Len(pool') = Len(pool) + 1 /\ dropped' = dropped
                   /\ stats'.evicted = stats.evicted
          BY ONLY <2>2, <2>5, <3>3, <4>1, <4>3
        <4>4. CASE /\ Len(pool') = Len(pool) /\ dropped' = dropped + 1
                   /\ stats'.evicted = stats.evicted
          <5>1. dropped \in Nat /\ Len(pool) + Cardinality(Using) + Kept + stats.evicted \in Nat
            BY ONLY <2>5
          <5>2. Len(pool) + Cardinality(Using) + Kept + stats.evicted
                  = Len(pool) + Cardinality(Using) + Kept' + stats.evicted + 1
            BY ONLY <2>2, <2>5
          <5>3. Len(pool) + Cardinality(Using) + Kept' + stats.evicted \in Nat
            BY ONLY <2>2, <2>5
          <5> QED
            BY ONLY <3>3, <4>1, <4>4, <5>1, <5>2, <5>3
        <4> QED
          BY <2>4, <4>2, <4>3, <4>4
      <3> QED
        BY <1>1, <3>4, <3>5, <3>6 DEF Accounts
  <1> QED
    BY <1>2, <1>3, <1>4 DEF Cleanup

LEMMA AccountsStep == IInv /\ Accounts /\ [Next]_vars => Accounts'
  <1> SUFFICES ASSUME IInv, Accounts, [Next]_vars PROVE Accounts'
    OBVIOUS
  <1>1. ASSUME NEW c \in Calls, Execute(c) \/ Timer(c) PROVE Accounts'
    BY <1>1, GetAccounts, ExecuteAccounts DEF Execute
  <1>2. CASE Cleanup
    BY <1>2, CleanupAccounts
  <1>3. ASSUME NEW v \in VMs, GoesStale(v) PROVE Accounts'
    <2>1. TypeOK /\ TypeOK' /\ VMs' = VMs
      BY <1>3, GoesStaleType DEF IInv
    <2>2. Len(heap') = Len(heap)
      BY <2>1 DEF VMs, TypeOK
    <2>3. UNCHANGED <<pool, stats, dropped, janitor, pc>>
      BY <1>3 DEF GoesStale
    <2>4. Begun' = Begun /\ Using' = Using
      BY <2>3 DEF Begun, Using, InUse
    <2> QED
      BY <2>2, <2>3, <2>4, QuietAccounts
  <1>4. CASE UNCHANGED vars
    <2>1. UNCHANGED <<pool, stats, dropped, janitor, pc, heap>>
      BY <1>4 DEF vars
    <2>2. Begun' = Begun /\ Using' = Using
      BY <2>1 DEF Begun, Using, InUse
    <2> QED
      BY <2>1, <2>2, QuietAccounts
  <1> QED
    BY <1>1, <1>2, <1>3, <1>4 DEF Next

LEMMA StepIInv == IInv /\ [Next]_vars => IInv'
  BY TypeStep, ExclusiveStep DEF IInv

(* The counters account for every call and every VM, whatever races there  *)
(* are between Get, Put and cleanup(): a VM that has left the channel for  *)
(* good was counted as evicted, or is one that cleanup() dropped because   *)
(* the channel had filled up meanwhile.                                    *)
THEOREM AccountingCorrect == Spec => []Accounting
  BY InitIInv, InitAccounts, StepIInv, AccountsStep, AccountsExact, PTL DEF Spec

-----------------------------------------------------------------------------
(* OneTimeoutPerTimer.  A set interrupt flag can end a script only on a VM *)
(* that a call runs on or may still be given: in the channel, with         *)
(* cleanup(), running, or between ClearInterrupt and the send of Put.      *)
(* Every timeout, and every flag that may still cause one, is paid for by  *)
(* a callback of its own.                                                  *)
Timeouts == {c \in Calls : outcome[c] = "timeout"}
Interrupted == {c \in Calls : timer[c] = "interrupted"}

AtRisk(v) ==
    \/ InPool(v)
    \/ janitor.vm = v
    \/ \E c \in Calls : vm[c] = v /\ pc[c] \in {"running", "cleared"}

Threats == {v \in VMs : heap[v].interrupt /\ AtRisk(v)}

TimeoutInv ==
    /\ IsFiniteSet(Timeouts) /\ IsFiniteSet(Interrupted)
    /\ Cardinality(Timeouts) + Cardinality(Threats) <= Cardinality(Interrupted)

LEMMA ThreatsFinite ==
    ASSUME TypeOK
    PROVE  IsFiniteSet(Threats) /\ Cardinality(Threats) \in Nat
  <1>1. IsFiniteSet(VMs)
    <2>1. 1 \in Int /\ Len(heap) \in Int
      BY DEF TypeOK
    <2> QED
      BY <2>1, FS_Interval DEF VMs
  <1>2. Threats \in SUBSET VMs
    BY DEF Threats
  <1>3. IsFiniteSet(Threats)
    BY <1>1, <1>2, FS_Subset
  <1> QED
    BY <1>3, FS_CardinalityType

LEMMA InitTimeouts == Init => TimeoutInv
  <1> SUFFICES ASSUME Init PROVE TimeoutInv
    OBVIOUS
  <1>1. heap = [i \in 1..MinSize |-> NewVM] /\ VMs = 1..MinSize
    BY PoolAssumption DEF Init, InitGojaPool, VMs
  <1>2. \A v \in VMs : ~heap[v].interrupt
    BY <1>1 DEF NewVM
  <1>3. Timeouts = {} /\ Interrupted = {} /\ Threats = {}
    BY <1>2 DEF Init, Timeouts, Interrupted, Threats
  <1>4. IsFiniteSet({}) /\ Cardinality({}) = 0
    BY FS_EmptySet
  <1> QED
    BY <1>3, <1>4 DEF TimeoutInv

(* A step that ends no script by an interrupt and lets no callback run may *)
(* only take threats away.                                                 *)
LEMMA FewerThreats ==
    ASSUME TypeOK, TimeoutInv, Timeouts' \subseteq Timeouts,
           Interrupted' = Interrupted, Threats' \subseteq Threats
    PROVE  TimeoutInv'
  <1>1. IsFiniteSet(Threats) /\ Cardinality(Threats) \in Nat
    BY ThreatsFinite
  <1>2. Threats' \in SUBSET Threats
    OBVIOUS
  <1>3. IsFiniteSet(Threats') /\ Cardinality(Threats') <= Cardinality(Threats)
    BY <1>1, <1>2, FS_Subset
  <1>4. Cardinality(Threats') \in Nat
    BY <1>3, FS_CardinalityType
  <1>5. Cardinality(Timeouts) \in Nat /\ Cardinality(Interrupted) \in Nat
    BY FS_CardinalityType DEF TimeoutInv
  <1>6. Cardinality(Timeouts) + Cardinality(Threats) <= Cardinality(Interrupted)
    BY DEF TimeoutInv
  <1>7. Timeouts' \in SUBSET Timeouts
    OBVIOUS
  <1>8. IsFiniteSet(Timeouts') /\ Cardinality(Timeouts') <= Cardinality(Timeouts)
    BY <1>7, FS_Subset DEF TimeoutInv
  <1>9. Cardinality(Timeouts') \in Nat
    BY <1>8, FS_CardinalityType
  <1>10. Cardinality(Timeouts') + Cardinality(Threats') <= Cardinality(Interrupted)
    BY ONLY <1>1, <1>3, <1>4, <1>5, <1>6, <1>8, <1>9
  <1> QED
    BY <1>8, <1>10 DEF TimeoutInv

(* The callback of a timer: one more callback, at most one more threat.    *)
LEMMA CallbackTimeouts ==
    ASSUME IInv, TimeoutInv, NEW c \in Calls, TimerCallback(c)
    PROVE  TimeoutInv'
  <1>0. TypeOK /\ Holding
    BY DEF IInv
  <1>1. /\ timer[c] = "fired" /\ timer' = [timer EXCEPT ![c] = "interrupted"]
        /\ heap' = [heap EXCEPT ![vm[c]] = Interrupt(heap[vm[c]], TRUE)]
        /\ UNCHANGED <<pool, pc, vm, outcome, janitor>>
    BY DEF TimerCallback
  <1>2. vm[c] \in VMs
    BY <1>0, <1>1 DEF TypeOK, Holding
  <1>3. VMs' = VMs /\ \A w \in VMs : w # vm[c] => heap'[w] = heap[w]
    <2>1. Interrupt(heap[vm[c]], TRUE) \in GojaVM
      BY <1>0, <1>2, VMsFacts, VMRecord
    <2> QED
      BY <1>0, <1>1, <1>2, <2>1, HeapStep
  <1>4. Threats' \subseteq Threats \cup {vm[c]}
    BY <1>1, <1>3 DEF Threats, AtRisk, InPool
  <1>5. Timeouts' = Timeouts /\ Interrupted' = Interrupted \cup {c} /\ c \notin Interrupted
    BY <1>0, <1>1 DEF Timeouts, Interrupted, TypeOK
  <1>6. IsFiniteSet(Threats) /\ Cardinality(Threats) \in Nat
    BY <1>0, ThreatsFinite
  <1>7. /\ IsFiniteSet(Threats \cup {vm[c]})
        /\ Cardinality(Threats \cup {vm[c]}) <= Cardinality(Threats) + 1
    BY <1>6, FS_AddElement
  <1>8. IsFiniteSet(Threats') /\ Cardinality(Threats') <= Cardinality(Threats \cup {vm[c]})
    <2>1. Threats' \in SUBSET (Threats \cup {vm[c]})
      BY <1>4
    <2> QED
      BY <1>7, <2>1, FS_Subset
  <1>9. /\ IsFiniteSet(Interrupted')
        /\ Cardinality(Interrupted') = Cardinality(Interrupted) + 1
    BY <1>5, FS_AddElement DEF TimeoutInv
  <1>10. /\ Cardinality(Timeouts) \in Nat /\ Cardinality(Interrupted) \in Nat
         /\ Cardinality(Threats') \in Nat /\ Cardinality(Threats \cup {vm[c]}) \in Nat
    BY <1>7, <1>8, FS_CardinalityType DEF TimeoutInv
  <1>11. Cardinality(Timeouts) + Cardinality(Threats) <= Cardinality(Interrupted)
    BY DEF TimeoutInv
  <1>12. Cardinality(Timeouts) + Cardinality(Threats') <= Cardinality(Interrupted')
    BY ONLY <1>6, <1>7, <1>8, <1>9, <1>10, <1>11
  <1> QED
    BY <1>5, <1>9, <1>12 DEF TimeoutInv

(* An interrupted script turns the threat on its VM into its own timeout:  *)
(* the VM is in no other hands, and Put clears the flag or evicts the VM.  *)
LEMMA InterruptedTimeouts ==
    ASSUME IInv, TimeoutInv, NEW c \in Calls, RunInterrupted(c)
    PROVE  TimeoutInv'
  <1>0. TypeOK /\ Holding /\ ExclusiveVM
    BY DEF IInv
  <1> DEFINE v == vm[c]
  <1>1. /\ pc[c] = "running" /\ heap[v].interrupt
        /\ pc' = [pc EXCEPT ![c] = "returned"]
        /\ outcome' = [outcome EXCEPT ![c] = "timeout"]
        /\ UNCHANGED <<pool, heap, vm, timer, janitor>>
    BY DEF RunInterrupted, Returned
  <1>2. v \in VMs /\ InUse(c) /\ v \in Threats
    BY <1>0, <1>1 DEF TypeOK, Holding, InUse, Threats, AtRisk
  <1>3. VMs' = VMs
    BY <1>1 DEF VMs
  <1>4. ~AtRisk(v)'
    <2>1. ~InPool(v) /\ janitor.vm # v
      BY <1>0, <1>2 DEF ExclusiveVM
    <2>2. ASSUME NEW d \in Calls, vm[d] = v, pc'[d] \in {"running", "cleared"}
          PROVE  FALSE
      <3>1. d # c /\ InUse(d)
        BY <1>0, <1>1, <2>2 DEF TypeOK, InUse
      <3> QED
        BY <1>0, <1>2, <2>2, <3>1 DEF ExclusiveVM
    <2> QED
      BY <1>1, <2>1, <2>2 DEF AtRisk, InPool
  <1>5. \A w \in VMs : AtRisk(w)' => AtRisk(w)
    BY <1>0, <1>1 DEF AtRisk, InPool, TypeOK
  <1>6. Threats' \subseteq Threats \ {v}
    BY <1>1, <1>3, <1>4, <1>5 DEF Threats
  <1>7. Interrupted' = Interrupted /\ Timeouts' = Timeouts \cup {c}
    BY <1>0, <1>1 DEF Timeouts, Interrupted, TypeOK
  <1>8. IsFiniteSet(Threats) /\ Cardinality(Threats) \in Nat
    BY <1>0, ThreatsFinite
  <1>9. /\ IsFiniteSet(Threats \ {v})
        /\ Cardinality(Threats \ {v}) = Cardinality(Threats) - 1
    BY <1>2, <1>8, FS_RemoveElement
  <1>10. IsFiniteSet(Threats') /\ Cardinality(Threats') <= Cardinality(Threats \ {v})
    <2>1. Threats' \in SUBSET (Threats \ {v})
      BY <1>6
    <2> QED
      BY <1>9, <2>1, FS_Subset
  <1>11. /\ IsFiniteSet(Timeouts')
         /\ Cardinality(Timeouts') <= Cardinality(Timeouts) + 1
    <2>1. IsFiniteSet(Timeouts) /\ Cardinality(Timeouts) \in Nat
      BY FS_CardinalityType DEF TimeoutInv
    <2> QED
      BY <1>7, <2>1, FS_AddElement
  <1>12. /\ Cardinality(Timeouts) \in Nat /\ Cardinality(Interrupted) \in Nat
         /\ Cardinality(Threats') \in Nat /\ Cardinality(Timeouts') \in Nat
         /\ Cardinality(Threats \ {v}) \in Nat
    BY <1>9, <1>10, <1>11, FS_CardinalityType DEF TimeoutInv
  <1>13. Cardinality(Timeouts) + Cardinality(Threats) <= Cardinality(Interrupted)
    BY DEF TimeoutInv
  <1>14. Cardinality(Timeouts') + Cardinality(Threats') <= Cardinality(Interrupted)
    BY ONLY <1>8, <1>9, <1>10, <1>11, <1>12, <1>13
  <1> QED
    BY <1>7, <1>11, <1>14 DEF TimeoutInv

(* The steps of a call that neither time out nor interrupt.                *)
LEMMA GetTimeouts ==
    ASSUME IInv, TimeoutInv, NEW c \in Calls, Get(c)
    PROVE  TimeoutInv'
  <1>0. TypeOK /\ Holding /\ ExclusiveVM
    BY DEF IInv
  <1>1. /\ pc[c] = "idle" /\ pc' = [pc EXCEPT ![c] = "running"]
        /\ timer' = [timer EXCEPT ![c] = "armed"] /\ UNCHANGED <<outcome, janitor>>
    BY DEF Get, GetReused, GetCreated, Acquired
  <1>2. Timeouts' = Timeouts /\ Interrupted' = Interrupted
    BY <1>0, <1>1 DEF Timeouts, Interrupted, TypeOK, Holding
  <1>3. CASE GetReused(c)
    <2> DEFINE v == Head(pool)
    <2>1. /\ pool # <<>> /\ pool' = Tail(pool) /\ vm' = [vm EXCEPT ![c] = v]
          /\ heap' = [heap EXCEPT ![v] = Touched(heap[v])]
      BY <1>3 DEF GetReused, Acquired
    <2>2. InPool(v) /\ v \in VMs /\ \A w : InPool(w)' => InPool(w)
      BY <1>0, <2>1, ReceiveFacts, TailFacts DEF ExclusiveVM, TypeOK
    <2>3. /\ VMs' = VMs
          /\ \A w \in VMs : heap'[w] = IF w = v THEN Touched(heap[v]) ELSE heap[w]
      BY <1>0, <2>1, <2>2, VMsFacts, VMRecord, HeapStep
    <2>4. \A w \in VMs : heap'[w].interrupt = heap[w].interrupt
      <3>1. Touched(heap[v]).interrupt = heap[v].interrupt
        BY DEF Touched
      <3> QED
        BY <2>3, <3>1, Zenon
    <2>5. \A w \in VMs : AtRisk(w)' => AtRisk(w)
      <3> SUFFICES ASSUME NEW w \in VMs, AtRisk(w)' PROVE AtRisk(w)
        OBVIOUS
      <3>1. CASE InPool(w)'
        BY <2>2, <3>1 DEF AtRisk
      <3>2. CASE janitor'.vm = w
        BY <1>1, <3>2 DEF AtRisk
      <3>3. ASSUME NEW d \in Calls, vm'[d] = w, pc'[d] \in {"running", "cleared"}
            PROVE  AtRisk(w)
        BY <1>0, <1>1, <2>1, <2>2, <3>3 DEF AtRisk, TypeOK
      <3> QED
        BY <3>1, <3>2, <3>3 DEF AtRisk
    <2>6. Threats' \subseteq Threats
      BY <2>3, <2>4, <2>5 DEF Threats
    <2> QED
      BY <1>0, <1>2, <2>6, FewerThreats
  <1>4. CASE GetCreated(c)
    <2>1. /\ pool' = pool /\ vm' = [vm EXCEPT ![c] = Len(heap) + 1]
          /\ heap' = Append(heap, NewVM)
      BY <1>4 DEF GetCreated, Acquired
    <2>2. NewVM \in GojaVM /\ NewVM.interrupt = FALSE
      BY DEF NewVM, GojaVM
    <2>3. /\ \A w \in VMs : heap'[w] = heap[w]
          /\ heap'[Len(heap) + 1] = NewVM /\ VMs' = VMs \cup {Len(heap) + 1}
          /\ Len(heap) + 1 \notin VMs
      BY <1>0, <2>1, <2>2, AppendFacts DEF TypeOK, VMs
    <2>4. \A w \in VMs : AtRisk(w)' => AtRisk(w)
      BY <1>0, <1>1, <2>1, <2>3 DEF AtRisk, InPool, TypeOK
    <2>5. Threats' \subseteq Threats
      BY <2>2, <2>3, <2>4 DEF Threats
    <2> QED
      BY <1>0, <1>2, <2>5, FewerThreats
  <1> QED
    BY <1>3, <1>4 DEF Get

LEMMA ExecuteTimeouts ==
    ASSUME IInv, TimeoutInv, NEW c \in Calls,
           RunToEnd(c) \/ StopTimer(c) \/ TimerFires(c) \/ PutWornOut(c)
    PROVE  TimeoutInv'
  <1>0. TypeOK /\ Holding
    BY DEF IInv
  <1>1. /\ UNCHANGED <<pool, heap, vm, janitor>>
        /\ pc' = pc \/ \E p \in {"returned", "stopped", "done"} : pc' = [pc EXCEPT ![c] = p]
    BY DEF RunToEnd, Returned, StopTimer, TimerFires, PutWornOut
  <1>2. VMs' = VMs
    BY <1>1 DEF VMs
  <1>3. \A w \in VMs : AtRisk(w)' => AtRisk(w)
    BY <1>0, <1>1 DEF AtRisk, InPool, TypeOK
  <1>4. Threats' \subseteq Threats
    BY <1>1, <1>2, <1>3 DEF Threats
  <1>5. outcome' = outcome \/ outcome' = [outcome EXCEPT ![c] = "finished"]
    BY DEF RunToEnd, Returned, StopTimer, TimerFires, PutWornOut
  <1>6. \/ timer' = timer
        \/ /\ timer[c] # "interrupted"
           /\ \E t \in {"cancelled", "fired"} : timer' = [timer EXCEPT ![c] = t]
        \/ timer[c] # "armed" /\ timer' = [timer EXCEPT ![c] = timer[c]]
    BY DEF RunToEnd, Returned, StopTimer, TimerFires, PutWornOut
  <1>7. Interrupted' = Interrupted
    BY <1>0, <1>6 DEF Interrupted, TypeOK
  <1>8. Timeouts' \subseteq Timeouts
    BY <1>0, <1>5 DEF Timeouts, TypeOK
  <1> QED
    BY <1>0, <1>4, <1>7, <1>8, FewerThreats

LEMMA PutTimeouts ==
    ASSUME IInv, TimeoutInv, NEW c \in Calls, PutClear(c) \/ PutSend(c)
    PROVE  TimeoutInv'
  <1>0. TypeOK /\ Holding /\ ExclusiveVM
    BY DEF IInv
  <1>1. UNCHANGED <<vm, timer, outcome, janitor>>
    BY DEF PutClear, PutSend
  <1>2. Timeouts' = Timeouts /\ Interrupted' = Interrupted
    BY <1>1 DEF Timeouts, Interrupted
  <1>3. CASE PutClear(c)
    <2>1. /\ pool' = pool /\ pc[c] = "stopped" /\ pc' = [pc EXCEPT ![c] = "cleared"]
          /\ heap' = [heap EXCEPT ![vm[c]] = Interrupt(heap[vm[c]], FALSE)]
      BY <1>3 DEF PutClear
    <2>2. vm[c] \in VMs
      BY <1>0, <2>1 DEF TypeOK, Holding
    <2>3. Interrupt(heap[vm[c]], FALSE) \in GojaVM /\ heap[vm[c]] \in GojaVM
      BY <1>0, <2>2, VMsFacts, VMRecord
    <2>4. /\ VMs' = VMs /\ heap'[vm[c]] = Interrupt(heap[vm[c]], FALSE)
          /\ \A w \in VMs : w # vm[c] => heap'[w] = heap[w]
      <3>1. VMs' = VMs /\ \A w \in VMs : heap'[w] = IF w = vm[c]
                              THEN Interrupt(heap[vm[c]], FALSE) ELSE heap[w]
        BY <1>0, <2>1, <2>2, <2>3, HeapStep
      <3> QED
        BY <2>2, <3>1, Zenon
    <2>5. heap'[vm[c]].interrupt = FALSE
      BY <2>3, <2>4 DEF Interrupt, GojaVM
    <2>6. \A w \in VMs : AtRisk(w)' => AtRisk(w) \/ w = vm[c]
      BY <1>0, <1>1, <2>1 DEF AtRisk, InPool, TypeOK
    <2>7. Threats' \subseteq Threats
      BY <2>4, <2>5, <2>6 DEF Threats
    <2> QED
      BY <1>0, <1>2, <2>7, FewerThreats
  <1>4. CASE PutSend(c)
    <2>1. /\ heap' = heap /\ pc[c] = "cleared" /\ pc' = [pc EXCEPT ![c] = "done"]
          /\ pool' = pool \/ pool' = Append(pool, vm[c])
      BY <1>4 DEF PutSend
    <2>2. vm[c] \in VMs /\ VMs' = VMs /\ AtRisk(vm[c])
      BY <1>0, <2>1 DEF TypeOK, Holding, VMs, AtRisk
    <2>3. \A w : InPool(w)' => InPool(w) \/ w = vm[c]
      <3>1. /\ Len(pool) \in Nat /\ Len(Append(pool, vm[c])) = Len(pool) + 1
            /\ \A i \in 1..Len(pool) : Append(pool, vm[c])[i] = pool[i]
            /\ Append(pool, vm[c])[Len(pool) + 1] = vm[c]
        BY <1>0, <2>2, AppendFacts DEF TypeOK
      <3> QED
        BY <2>1, <3>1 DEF InPool
    <2>4. \A w \in VMs : AtRisk(w)' => AtRisk(w)
      <3> SUFFICES ASSUME NEW w \in VMs, AtRisk(w)' PROVE AtRisk(w)
        OBVIOUS
      <3>1. CASE InPool(w)'
        BY <2>2, <2>3, <3>1 DEF AtRisk
      <3>2. CASE janitor'.vm = w
        BY <1>1, <3>2 DEF AtRisk
      <3>3. ASSUME NEW d \in Calls, vm'[d] = w, pc'[d] \in {"running", "cleared"}
            PROVE  AtRisk(w)
        BY <1>0, <1>1, <2>1, <3>3 DEF AtRisk, TypeOK
      <3> QED
        BY <3>1, <3>2, <3>3 DEF AtRisk
    <2>5. Threats' \subseteq Threats
      BY <2>1, <2>2, <2>4 DEF Threats
    <2> QED
      BY <1>0, <1>2, <2>5, FewerThreats
  <1> QED
    BY <1>3, <1>4

(* cleanup() and the passing of time leave every flag as it is.            *)
LEMMA CleanupTimeouts ==
    ASSUME IInv, TimeoutInv, Cleanup
    PROVE  TimeoutInv'
  <1>0. TypeOK /\ Holding /\ ExclusiveVM
    BY DEF IInv
  <1>1. UNCHANGED <<heap, pc, vm, timer, outcome>> /\ VMs' = VMs
    BY DEF Cleanup, CleanupTick, CleanupLoop, CleanupTake, CleanupPut, VMs
  <1>2. Timeouts' = Timeouts /\ Interrupted' = Interrupted
    BY <1>1 DEF Timeouts, Interrupted
  <1>3. ASSUME \A w \in VMs : InPool(w)' \/ janitor'.vm = w => InPool(w) \/ janitor.vm = w
        PROVE  TimeoutInv'
    <2>1. \A w \in VMs : AtRisk(w)' => AtRisk(w)
      BY <1>1, <1>3 DEF AtRisk
    <2>2. Threats' \subseteq Threats
      BY <1>1, <2>1 DEF Threats
    <2> QED
      BY <1>0, <1>2, <2>2, FewerThreats
  <1>4. NoVM \notin VMs
    BY <1>0, VMsFacts
  <1>5. CASE CleanupTick \/ CleanupLoop \/ (CleanupTake /\ pool = <<>>)
    <2>1. pool' = pool /\ janitor'.vm = NoVM
      BY <1>0, <1>5 DEF CleanupTick, CleanupLoop, CleanupTake, Holding, TypeOK
    <2> QED
      BY <1>3, <1>4, <2>1 DEF InPool
  <1>6. CASE CleanupTake /\ pool # <<>>
    <2>1. pool' = Tail(pool)
          /\ janitor' = [pc |-> "hold", i |-> janitor.i, vm |-> Head(pool)]
      BY <1>6 DEF CleanupTake
    <2>2. janitor'.vm = Head(pool)
      BY <2>1
    <2>3. InPool(Head(pool)) /\ \A w : InPool(w)' => InPool(w)
      BY <1>0, <1>6, <2>1, ReceiveFacts DEF ExclusiveVM
    <2> QED
      BY <1>3, <2>2, <2>3
  <1>7. CASE CleanupPut
    <2>1. /\ janitor.vm \in VMs /\ janitor'.vm = NoVM
          /\ (pool' = pool \/ pool' = Append(pool, janitor.vm))
      BY <1>0, <1>7 DEF CleanupPut, Holding, TypeOK
    <2>2. \A v : InPool(v)' => InPool(v) \/ v = janitor.vm
      <3>1. /\ Len(pool) \in Nat /\ Len(Append(pool, janitor.vm)) = Len(pool) + 1
            /\ \A i \in 1..Len(pool) : Append(pool, janitor.vm)[i] = pool[i]
            /\ Append(pool, janitor.vm)[Len(pool) + 1] = janitor.vm
        BY <1>0, <2>1, AppendFacts DEF TypeOK
      <3> QED
        BY <2>1, <3>1 DEF InPool
    <2> QED
      BY <1>3, <1>4, <2>1, <2>2
  <1> QED
    BY <1>5, <1>6, <1>7 DEF Cleanup

LEMMA GoesStaleTimeouts ==
    ASSUME IInv, TimeoutInv, NEW v \in VMs, GoesStale(v)
    PROVE  TimeoutInv'
  <1>0. TypeOK
    BY DEF IInv
  <1>1. /\ heap' = [heap EXCEPT ![v] = [heap[v] EXCEPT !.lastUsed = "stale"]]
        /\ UNCHANGED <<pool, pc, vm, timer, outcome, janitor>>
    BY DEF GoesStale
  <1>2. heap[v] \in GojaVM
    BY <1>0, VMsFacts
  <1>3. [heap[v] EXCEPT !.lastUsed = "stale"] \in GojaVM
        /\ [heap[v] EXCEPT !.lastUsed = "stale"].interrupt = heap[v].interrupt
    BY <1>2, VMRecord DEF GojaVM
  <1>4. /\ VMs' = VMs /\ heap'[v] = [heap[v] EXCEPT !.lastUsed = "stale"]
        /\ \A w \in VMs : w # v => heap'[w] = heap[w]
    <2>1. VMs' = VMs /\ \A w \in VMs : heap'[w] = IF w = v
                            THEN [heap[v] EXCEPT !.lastUsed = "stale"] ELSE heap[w]
      BY <1>0, <1>1, <1>3, HeapStep
    <2> QED
      BY <2>1, Zenon
  <1>5. \A w \in VMs : heap'[w].interrupt = heap[w].interrupt
    BY <1>3, <1>4, Zenon
  <1>6. Timeouts' = Timeouts /\ Interrupted' = Interrupted
    BY <1>1 DEF Timeouts, Interrupted
  <1>7. \A w \in VMs : AtRisk(w)' => AtRisk(w)
    BY <1>1 DEF AtRisk, InPool
  <1>8. Threats' \subseteq Threats
    BY <1>4, <1>5, <1>7 DEF Threats
  <1> QED
    BY <1>0, <1>6, <1>8, FewerThreats

LEMMA TimeoutStep == IInv /\ TimeoutInv /\ [Next]_vars => TimeoutInv'
  <1> SUFFICES ASSUME IInv, TimeoutInv, [Next]_vars PROVE TimeoutInv'
    OBVIOUS
  <1>1. ASSUME NEW c \in Calls, Execute(c) \/ Timer(c) PROVE TimeoutInv'
    BY <1>1, GetTimeouts, ExecuteTimeouts, PutTimeouts, CallbackTimeouts, InterruptedTimeouts
       DEF Execute, Timer, Run, Put
  <1>2. CASE Cleanup
    BY <1>2, CleanupTimeouts
  <1>3. ASSUME NEW v \in VMs, GoesStale(v) PROVE TimeoutInv'
    BY <1>3, GoesStaleTimeouts
  <1>4. CASE UNCHANGED vars
    BY <1>4 DEF vars, TimeoutInv, Timeouts, Interrupted, Threats, AtRisk, InPool, VMs
  <1> QED
    BY <1>1, <1>2, <1>3, <1>4 DEF Next

(* An expired timer ends at most one script, its own or, when the callback *)
(* came late, one later user of the VM; never one call after another.      *)
THEOREM TimeoutsPaidFor == Spec => []OneTimeoutPerTimer
  <1>1. IInv /\ TimeoutInv => OneTimeoutPerTimer
    <2> SUFFICES ASSUME IInv, TimeoutInv PROVE OneTimeoutPerTimer
      OBVIOUS
    <2>1. Cardinality(Threats) \in Nat
      BY ThreatsFinite DEF IInv
    <2>2. Cardinality(Timeouts) \in Nat /\ Cardinality(Interrupted) \in Nat
      BY FS_CardinalityType DEF TimeoutInv
    <2>3. Cardinality(Timeouts) + Cardinality(Threats) <= Cardinality(Interrupted)
      BY DEF TimeoutInv
    <2>4. Cardinality(Timeouts) <= Cardinality(Interrupted)
      BY ONLY <2>1, <2>2, <2>3
    <2> QED
      BY <2>4 DEF OneTimeoutPerTimer, Timeouts, Interrupted
  <1> QED
    BY InitIInv, InitTimeouts, StepIInv, TimeoutStep, <1>1, PTL DEF Spec

-----------------------------------------------------------------------------
(* GojaPool implements VMAllocator.                                        *)

(* What receiving from the channel and sending to it do to the free VMs.   *)
LEMMA ReceivePooled ==
    ASSUME IInv, pool # <<>>, pool' = Tail(pool), VMs' = VMs
    PROVE  Head(pool) \in Pooled /\ Pooled' = Pooled \ {Head(pool)}
  <1>1. TypeOK /\ NoDuplicate
    BY DEF IInv, ExclusiveVM
  <1>2. /\ InPool(Head(pool))
        /\ \A w : InPool(w)' => InPool(w) /\ w # Head(pool)
    BY <1>1, ReceiveFacts
  <1>3. pool \in Seq(VMs) /\ Head(pool) \in VMs /\ Head(pool) = pool[1]
    BY <1>1, TailFacts DEF TypeOK
  <1>4. ASSUME NEW w, InPool(w), w # Head(pool) PROVE InPool(w)'
    <2>1. PICK i \in 1..Len(pool) : pool[i] = w
      BY <1>4 DEF InPool
    <2>2. i - 1 \in 1..Len(pool') /\ pool'[i - 1] = w
      BY <1>3, <1>4, <2>1
    <2> QED
      BY <2>2 DEF InPool
  <1> QED
    BY <1>2, <1>3, <1>4 DEF Pooled

LEMMA SendPooled ==
    ASSUME IInv, NEW v \in VMs, pool' = Append(pool, v), VMs' = VMs
    PROVE  Pooled' = Pooled \cup {v}
  <1>1. /\ Len(pool') = Len(pool) + 1 /\ Len(pool) \in Nat
        /\ \A i \in 1..Len(pool) : pool'[i] = pool[i]
        /\ pool'[Len(pool) + 1] = v
    BY AppendFacts DEF IInv, TypeOK
  <1>2. \A w : InPool(w)' <=> InPool(w) \/ w = v
    BY <1>1 DEF InPool
  <1> QED
    BY <1>2 DEF Pooled

LEMMA SamePooled ==
    ASSUME UNCHANGED pool, VMs' = VMs
    PROVE  Pooled' = Pooled
  BY DEF Pooled, InPool

(* A step of c changes at most what c holds.                               *)
LEMMA HeldStep ==
    ASSUME IInv, NEW c \in Calls, NEW next,
           pc' = [pc EXCEPT ![c] = next],
           \A d \in Calls \ {c} : vm'[d] = vm[d]
    PROVE  Held' = [Held EXCEPT ![c] = IF InUse(c)' THEN vm'[c] ELSE NoVM]
  <1>1. pc \in [Calls -> {"idle", "running", "returned", "stopped",
                          "cleared", "done"}]
    BY DEF IInv, TypeOK
  <1>2. \A d \in Calls \ {c} : InUse(d)' <=> InUse(d)
    BY <1>1 DEF InUse
  <1> QED
    BY <1>2 DEF Held

-----------------------------------------------------------------------------
LEMMA GetAllocates ==
    ASSUME IInv, NEW c \in Calls, Get(c)
    PROVE  Allocator!Obtain(c)
  <1>0. TypeOK /\ Holding
    BY DEF IInv
  <1>1. /\ pc[c] = "idle" /\ pc' = [pc EXCEPT ![c] = "running"]
        /\ janitor' = janitor
    BY DEF Get, GetReused, GetCreated, Acquired
  <1>2. Held[c] = NoVM /\ InUse(c)'
    BY <1>0, <1>1 DEF Held, InUse, TypeOK
  <1>3. CASE GetReused(c)
    <2> DEFINE v == Head(pool)
    <2>1. /\ pool # <<>> /\ pool' = Tail(pool) /\ vm' = [vm EXCEPT ![c] = v]
          /\ heap' = [heap EXCEPT ![v] = Touched(heap[v])]
      BY <1>3 DEF GetReused, Acquired
    <2>2. v \in VMs
      BY <1>0, <2>1, TailFacts DEF TypeOK
    <2>3. VMs' = VMs /\ heap' \in Seq(GojaVM)
      BY <1>0, <2>1, <2>2, VMRecord, VMsFacts, HeapStep
    <2>4. Len(heap') = Len(heap)
      BY <1>0, <2>1, <2>2, VMRecord, VMsFacts, HeapField DEF TypeOK, VMs
    <2>5. v \in Pooled /\ Pooled' = Pooled \ {v}
      BY <2>1, <2>3, ReceivePooled
    <2>6. vm'[c] = v /\ \A d \in Calls \ {c} : vm'[d] = vm[d]
      BY <1>0, <2>1 DEF TypeOK
    <2>7. Held' = [Held EXCEPT ![c] = v]
      BY <1>1, <1>2, <2>6, HeldStep
    <2> QED
      BY <1>1, <1>2, <2>4, <2>5, <2>7 DEF Allocator!Obtain
  <1>4. CASE GetCreated(c)
    <2> DEFINE v == Len(heap) + 1
    <2>1. /\ pool = <<>> /\ pool' = pool /\ vm' = [vm EXCEPT ![c] = v]
          /\ heap' = Append(heap, NewVM)
      BY <1>4 DEF GetCreated, Acquired
    <2>2. Len(heap') = v
      BY <1>0, <2>1, AppendFacts DEF TypeOK, NewVM, GojaVM
    <2>3. Pooled = {} /\ Pooled' = {}
      BY <2>1 DEF Pooled, InPool
    <2>4. vm'[c] = v /\ \A d \in Calls \ {c} : vm'[d] = vm[d]
      BY <1>0, <2>1 DEF TypeOK
    <2>5. Held' = [Held EXCEPT ![c] = v]
      BY <1>1, <1>2, <2>4, HeldStep
    <2> QED
      BY <1>1, <1>2, <2>2, <2>3, <2>5 DEF Allocator!Obtain
  <1> QED
    BY <1>3, <1>4 DEF Get

(* The two steps that end a call.                                          *)
LEMMA PutAllocates ==
    ASSUME IInv, NEW c \in Calls, PutWornOut(c) \/ PutSend(c)
    PROVE  Allocator!Release(c)
  <1>0. TypeOK /\ Holding
    BY DEF IInv
  <1>1. /\ InUse(c) /\ pc' = [pc EXCEPT ![c] = "done"]
        /\ UNCHANGED <<heap, vm, janitor>>
        /\ pool' = pool \/ pool' = Append(pool, vm[c])
    BY DEF PutWornOut, PutSend, InUse
  <1>2. vm[c] \in VMs /\ vm[c] # NoVM /\ Held[c] = vm[c] /\ ~InUse(c)'
    BY <1>0, <1>1, VMsFacts DEF Held, InUse, Holding, TypeOK
  <1>3. Held' = [Held EXCEPT ![c] = NoVM]
    BY <1>1, <1>2, HeldStep
  <1>4. VMs' = VMs
    BY <1>1 DEF VMs
  <1>5. Pooled' = Pooled \/ Pooled' = Pooled \cup {vm[c]}
    BY <1>1, <1>2, <1>4, SamePooled, SendPooled
  <1> QED
    BY <1>1, <1>2, <1>3, <1>5 DEF Allocator!Release

(* The steps of a call and of its timer that hand nothing over.            *)
LEMMA OtherAllocates ==
    ASSUME IInv, NEW c \in Calls,
           Run(c) \/ StopTimer(c) \/ Timer(c) \/ PutClear(c)
    PROVE  UNCHANGED <<Pooled, Held, janitor.vm, Len(heap)>>
  <1>0. TypeOK /\ Holding
    BY DEF IInv
  <1>1. UNCHANGED <<pool, vm, janitor>>
    BY DEF Run, RunToEnd, RunInterrupted, Returned, StopTimer, Timer, TimerFires,
           TimerCallback, PutClear
  <1>2. VMs' = VMs /\ Len(heap') = Len(heap)
    <2>1. CASE heap' = heap
      BY <2>1 DEF VMs
    <2>2. CASE TimerCallback(c) \/ PutClear(c)
      <3>1. vm[c] \in VMs /\ \E b \in BOOLEAN :
               heap' = [heap EXCEPT ![vm[c]] = Interrupt(heap[vm[c]], b)]
        BY <1>0, <2>2 DEF TimerCallback, PutClear, TypeOK, Holding
      <3> QED
        BY <1>0, <3>1, VMRecord, VMsFacts, HeapField DEF TypeOK, VMs
    <2> QED
      BY <2>1, <2>2 DEF Run, RunToEnd, RunInterrupted, Returned, StopTimer, Timer,
                        TimerFires
  <1>3. \A d \in Calls : InUse(d)' <=> InUse(d)
    BY <1>0 DEF Run, RunToEnd, RunInterrupted, Returned, StopTimer, Timer,
           TimerFires, TimerCallback, PutClear, InUse, TypeOK
  <1>4. Held' = Held
    BY <1>1, <1>3 DEF Held
  <1> QED
    BY <1>1, <1>2, <1>4, SamePooled

LEMMA CleanupAllocates ==
    ASSUME IInv, Cleanup
    PROVE  \/ Allocator!Inspect \/ Allocator!Decide
           \/ UNCHANGED <<Pooled, Held, janitor.vm, Len(heap)>>
  <1>0. TypeOK /\ Holding
    BY DEF IInv
  <1>1. UNCHANGED <<heap, pc, vm>> /\ VMs' = VMs
    BY DEF Cleanup, CleanupTick, CleanupLoop, CleanupTake, CleanupPut, VMs
  <1>2. Held' = Held /\ Len(heap') = Len(heap)
    BY <1>1 DEF Held, InUse
  <1>3. CASE CleanupTick \/ CleanupLoop \/ (CleanupTake /\ pool = <<>>)
    <2>1. UNCHANGED pool
      BY <1>3 DEF CleanupTick, CleanupLoop, CleanupTake
    <2>2. janitor'.vm = janitor.vm
      BY <1>0, <1>3 DEF CleanupTick, CleanupLoop, CleanupTake, Holding, TypeOK
    <2> QED
      BY <1>1, <1>2, <2>1, <2>2, SamePooled
  <1>4. CASE CleanupTake /\ pool # <<>>
    <2>1. /\ janitor.vm = NoVM /\ pool' = Tail(pool)
          /\ janitor'.vm = Head(pool)
      BY <1>0, <1>4 DEF CleanupTake, Holding
    <2>2. Head(pool) \in Pooled /\ Pooled' = Pooled \ {Head(pool)}
      BY <1>1, <1>4, <2>1, ReceivePooled
    <2> QED
      BY <1>2, <2>1, <2>2 DEF Allocator!Inspect
  <1>5. CASE CleanupPut
    <2>1. /\ janitor.vm # NoVM /\ janitor.vm \in VMs /\ janitor'.vm = NoVM
          /\ pool' = pool \/ pool' = Append(pool, janitor.vm)
      BY <1>0, <1>5 DEF CleanupPut, Holding, TypeOK
    <2>2. Pooled' = Pooled \/ Pooled' = Pooled \cup {janitor.vm}
      BY <1>1, <2>1, SamePooled, SendPooled
    <2> QED
      BY <1>2, <2>1, <2>2 DEF Allocator!Decide
  <1> QED
    BY <1>3, <1>4, <1>5 DEF Cleanup

LEMMA GoesStaleAllocates ==
    ASSUME IInv, NEW v \in VMs, GoesStale(v)
    PROVE  UNCHANGED <<Pooled, Held, janitor.vm, Len(heap)>>
  <1>0. TypeOK
    BY DEF IInv
  <1>1. /\ heap' = [heap EXCEPT ![v] = [heap[v] EXCEPT !.lastUsed = "stale"]]
        /\ UNCHANGED <<pool, pc, vm, janitor>>
    BY DEF GoesStale
  <1>2. VMs' = VMs /\ Len(heap') = Len(heap)
    BY <1>0, <1>1, VMRecord, VMsFacts, HeapField DEF TypeOK, VMs
  <1>3. Held' = Held
    BY <1>1 DEF Held, InUse
  <1> QED
    BY <1>1, <1>2, <1>3, SamePooled

LEMMA InitAllocates == Init => Allocator!Init
  <1> SUFFICES ASSUME Init PROVE Allocator!Init
    OBVIOUS
  <1>1. /\ pool = [i \in 1..MinSize |-> i] /\ Len(heap) = MinSize
        /\ Len(pool) = MinSize
    BY PoolAssumption DEF Init, InitGojaPool
  <1>2. Pooled = 1..MinSize
    BY <1>1, PoolAssumption DEF Pooled, InPool, VMs
  <1>3. Held = [c \in Calls |-> NoVM] /\ janitor.vm = NoVM
    BY DEF Init, InitGojaPool, Held, InUse
  <1> QED
    BY <1>1, <1>2, <1>3 DEF Allocator!Init

LEMMA StepAllocates ==
    IInv /\ [Next]_vars => [Allocator!Next]_(Allocator!allocatorVars)
  <1> SUFFICES ASSUME IInv, [Next]_vars
               PROVE  Allocator!Next \/ UNCHANGED <<Pooled, Held, janitor.vm, Len(heap)>>
    BY DEF Allocator!allocatorVars
  <1>1. ASSUME NEW c \in Calls, Execute(c) \/ Timer(c)
        PROVE  Allocator!Next \/ UNCHANGED <<Pooled, Held, janitor.vm, Len(heap)>>
    <2>1. CASE Get(c)
      BY <2>1, GetAllocates DEF Allocator!Next
    <2>2. CASE PutWornOut(c) \/ PutSend(c)
      BY <2>2, PutAllocates DEF Allocator!Next
    <2>3. CASE Run(c) \/ StopTimer(c) \/ Timer(c) \/ PutClear(c)
      BY <2>3, OtherAllocates
    <2> QED
      BY <1>1, <2>1, <2>2, <2>3 DEF Execute, Put
  <1>2. CASE Cleanup
    BY <1>2, CleanupAllocates DEF Allocator!Next
  <1>3. ASSUME NEW v \in VMs, GoesStale(v)
        PROVE  UNCHANGED <<Pooled, Held, janitor.vm, Len(heap)>>
    BY <1>3, GoesStaleAllocates
  <1>4. CASE UNCHANGED vars
    BY <1>4, SamePooled DEF vars, VMs, Held, InUse
  <1> QED
    BY <1>1, <1>2, <1>3, <1>4 DEF Next

(* Every behaviour of the pool is one of the allocator: a VM is handed     *)
(* over from the one who has it to one who has none, and createVM is       *)
(* called only when none is free.  The mapping takes the VMs in the        *)
(* channel as free and those of the calls between Get and the end of Put   *)
(* as held; the inductive invariant of VMExclusive gives that a VM taken   *)
(* from the channel is not in it a second time.                            *)
THEOREM PoolAllocates == Spec => Allocates
  <1>1. IInv /\ [Next]_vars => IInv'
    BY TypeStep, ExclusiveStep DEF IInv
  <1> QED
    BY InitIInv, InitAllocates, <1>1, StepAllocates, PTL
       DEF Spec, Allocates, Allocator!Spec

=============================================================================
