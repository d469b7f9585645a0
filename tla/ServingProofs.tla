--------------------------- MODULE ServingProofs ----------------------------
(***************************************************************************)
(* Proofs about Serving: what is proved of the manager and of the pool by  *)
(* themselves holds when the one runs the scripts of the other, and what a *)
(* peer is told is what the pool has computed for it.                      *)
(***************************************************************************)
EXTENDS Serving, WSManagerProofs

(* Every step is one of the manager, of the pool, or of both.              *)
LEMMA ManagerStep == [ServingNext]_servingVars => [Next]_vars
  <1> SUFFICES ASSUME ServingNext \/ UNCHANGED servingVars PROVE Next \/ UNCHANGED vars
    OBVIOUS
  <1>1. CASE UNCHANGED servingVars
    BY <1>1 DEF servingVars
  <1>2. CASE Connections
    BY <1>2 DEF Connections, Next
  <1>3. CASE Background
    BY <1>3 DEF Background
  <1>4. ASSUME NEW r \in Requests, HandleMessage(r) PROVE Next \/ UNCHANGED vars
    BY <1>4 DEF HandleMessage, Next
  <1> QED
    BY <1>1, <1>2, <1>3, <1>4 DEF ServingNext

LEMMA PoolStep == [ServingNext]_servingVars => [Pool!Next]_(Pool!vars)
  <1> SUFFICES ASSUME ServingNext \/ UNCHANGED servingVars
               PROVE  Pool!Next \/ UNCHANGED poolVars
    BY DEF Pool!vars, poolVars
  <1>1. CASE UNCHANGED servingVars
    BY <1>1 DEF servingVars
  <1>2. CASE Connections
    BY <1>2 DEF Connections
  <1>3. CASE Background
    BY <1>3 DEF Background, Pool!Next
  <1>4. ASSUME NEW r \in Requests, HandleMessage(r) PROVE Pool!Next \/ UNCHANGED poolVars
    BY <1>4 DEF HandleMessage, Pool!Next
  <1> QED
    BY <1>1, <1>2, <1>3, <1>4 DEF ServingNext

(* The safety part of Manages: a behaviour of Serving is one of the        *)
(* WebSocket manager, so that what is proved of the manager holds.         *)
THEOREM ServingManages == ServingSpec => Spec
  <1>1. ServingInit => Init
    BY DEF ServingInit
  <1> QED
    BY <1>1, ManagerStep, PTL DEF ServingSpec, Spec

(* It is a behaviour of the pool, too: the requests make no other use of   *)
(* it than calls of Execute.                                               *)
THEOREM ServingPools == ServingSpec => Pool!Spec
  <1>1. ServingInit => Pool!Init
    BY DEF ServingInit
  <1> QED
    BY <1>1, PoolStep, PTL DEF ServingSpec, Pool!Spec

-----------------------------------------------------------------------------
(* A request that is past its script has returned from Execute, and a call *)
(* that has returned from RunString has a result.                          *)
Waited ==
    /\ pc \in [Requests -> {"idle", "running", "returned", "stopped", "cleared", "done"}]
    /\ outcome \in [Requests -> {"none", "finished", "timeout"}]
    /\ \A r \in Requests :
          /\ req[r].pc \in {"push", "done", "panicked"} => pc[r] = "done"
          /\ pc[r] \in {"returned", "stopped", "cleared", "done"} => outcome[r] # "none"

LEMMA WaitedInit == ServingInit => Waited
  BY DEF ServingInit, Init, Pool!Init, Waited

LEMMA WaitedStep == IInv /\ Waited /\ [ServingNext]_servingVars => Waited'
  <1> SUFFICES ASSUME IInv, Waited, ServingNext \/ UNCHANGED servingVars PROVE Waited'
    OBVIOUS
  <1>0. LockTypes
    BY DEF IInv, LockInv
  <1>1. CASE UNCHANGED servingVars
    BY <1>1 DEF servingVars, vars, poolVars, Waited
  <1>2. CASE Connections
    <2>1. UNCHANGED <<pc, outcome>>
      BY <1>2 DEF Connections, poolVars
    <2>2. \A r \in Requests : req'[r].pc \in {"push", "done", "panicked"}
                                 => req[r].pc \in {"push", "done", "panicked"}
      <3>1. ASSUME NEW c \in Conns, NEW s \in Requests, ReadMessage(c, s)
            PROVE  \A r \in Requests : req'[r].pc \in {"push", "done", "panicked"}
                                          => req[r].pc \in {"push", "done", "panicked"}
        <4>1. req' = [req EXCEPT ![s] = [pc |-> "run", conn |-> c]]
          BY <3>1 DEF ReadMessage
        <4> QED
          BY <1>0, <4>1 DEF LockTypes
      <3>2. ASSUME NEW c \in Conns, HandleWebSocket(c) \/ WsWriter(c) \/ PeerGone(c),
                   ~\E s \in Requests : ReadMessage(c, s)
            PROVE  req' = req
        BY <3>2 DEF HandleWebSocket, FirstCheck, Connect, Upgrade, RegisterCheck,
               RegisterStore, RegisterCount, WelcomeOK, WelcomeFails, TearDown, ReadError,
               SetClosed, CloseSend, UnregisterDelete, UnregisterCount, HangUp, WsWriter,
               WriterReceive, WriterLen, WriterDrain, WriterFlush, WriterExit, PeerGone
      <3>3. ASSUME NEW b \in Broadcasts, Broadcast(b) PROVE req' = req
        BY <3>3 DEF Broadcast, BroadcastStart, BroadcastNext, BroadcastSend
      <3> QED
        BY <1>2, <3>1, <3>2, <3>3 DEF Connections
    <2> QED
      BY <2>1, <2>2 DEF Waited
  <1>3. ASSUME NEW r \in Requests, NEW p \in {"idle", "running", "returned", "stopped",
                                              "cleared", "done"},
               NEW o \in {"none", "finished", "timeout"}, req' = req, pc[r] # "done",
               pc' = [pc EXCEPT ![r] = p], outcome' = [outcome EXCEPT ![r] = o],
               p \in {"returned", "stopped", "cleared", "done"} => o # "none"
        PROVE  Waited'
    BY <1>3 DEF Waited
  <1>4. ASSUME NEW r \in Requests, Pool!Execute(r), req' = req PROVE Waited'
    <2>1. CASE Pool!Get(r)
      <3>1. pc[r] = "idle" /\ pc' = [pc EXCEPT ![r] = "running"] /\ outcome' = outcome
        BY <2>1 DEF Pool!Get, Pool!GetReused, Pool!GetCreated, Pool!Acquired
      <3> QED
        BY <1>4, <3>1 DEF Waited
    <2>2. CASE Pool!Run(r)
      <3>1. PICK o \in {"finished", "timeout"} :
               /\ pc[r] = "running" /\ pc' = [pc EXCEPT ![r] = "returned"]
               /\ outcome' = [outcome EXCEPT ![r] = o]
        BY <2>2 DEF Pool!Run, Pool!RunToEnd, Pool!RunInterrupted, Pool!Returned
      <3> QED
        BY <1>4, <3>1 DEF Waited
    <2>3. CASE Pool!StopTimer(r) \/ Pool!Put(r)
      <3>1. PICK p \in {"stopped", "cleared", "done"} :
               /\ pc[r] \in {"returned", "stopped", "cleared"} /\ pc' = [pc EXCEPT ![r] = p]
               /\ outcome' = outcome
        BY <2>3 DEF Pool!StopTimer, Pool!Put, Pool!PutWornOut, Pool!PutClear, Pool!PutSend
      <3> QED
        BY <1>4, <3>1 DEF Waited
    <2> QED
      BY <1>4, <2>1, <2>2, <2>3 DEF Pool!Execute
  <1>5. CASE Background
    <2>1. UNCHANGED <<pc, outcome, req>>
      BY <1>5 DEF Background, vars, Pool!Timer, Pool!TimerFires, Pool!TimerCallback,
             Pool!Cleanup, Pool!CleanupTick, Pool!CleanupLoop, Pool!CleanupTake,
             Pool!CleanupPut, Pool!GoesStale
    <2> QED
      BY <2>1 DEF Waited
  <1>6. ASSUME NEW r \in Requests, pc[r] = "done", SafeSend(r), UNCHANGED poolVars
        PROVE  Waited'
    <2>1. UNCHANGED <<pc, outcome>>
      BY <1>6 DEF poolVars
    <2>2. \A s \in Requests \ {r} : req'[s] = req[s]
      BY <1>0, <1>6 DEF LockTypes, SafeSend, SafeSendLock, SafeSendPush, ReqGoto
    <2> QED
      BY <1>6, <2>1, <2>2 DEF Waited
  <1>7. ASSUME NEW r \in Requests, HandleMessage(r) PROVE Waited'
    <2>1. UNCHANGED vars => req' = req
      BY DEF vars
    <2> QED
      BY <1>4, <1>6, <1>7, <2>1 DEF HandleMessage
  <1> QED
    BY <1>1, <1>2, <1>5, <1>7 DEF ServingNext

(* What is written is the welcome message and then what was accepted.      *)
LEMMA WrittenWasAccepted ==
    ASSUME IInv, NEW c \in Conns, NEW i \in 1..Len(sent[c]), sent[c][i] \in Requests
    PROVE  \E j \in 1..Len(accepted[c]) : accepted[c][j] = sent[c][i]
  <1>1. /\ QueueInv /\ sent[c] \in Seq(Messages \cup {Welcome})
        /\ Delivered(c) \in Seq(Messages) /\ frame[c] \in Seq(Messages)
        /\ buf[c] \in Seq(Messages) /\ Delivered(c) \o frame[c] \o buf[c] = accepted[c]
    BY FlowTypes DEF IInv
  <1>2. Len(sent[c]) \in Nat /\ Len(sent[c]) > 0
    BY <1>1
  <1>3. sent[c] # <<>> /\ sent[c][1] = Welcome
    <2>1. sent[c] # <<>>
      BY <1>1, <1>2
    <2>2. Head(sent[c]) = Welcome
      BY <1>1, <2>1 DEF QueueInv, Flows
    <2> QED
      BY <2>1, <2>2
  <1>4. i # 1
    BY <1>3, WSAssumption
  <1>5. Delivered(c) = Tail(sent[c])
    BY <1>3 DEF Delivered
  <1>6. i - 1 \in 1..Len(Delivered(c)) /\ Delivered(c)[i - 1] = sent[c][i]
    BY <1>1, <1>2, <1>4, <1>5
  <1>7. \A d, f, b \in Seq(Messages) : \A j \in 1..Len(d) :
           j \in 1..Len(d \o f \o b) /\ (d \o f \o b)[j] = d[j]
    <2> SUFFICES ASSUME NEW d \in Seq(Messages), NEW f \in Seq(Messages),
                        NEW b \in Seq(Messages), NEW j \in 1..Len(d)
                 PROVE  j \in 1..Len(d \o f \o b) /\ (d \o f \o b)[j] = d[j]
      OBVIOUS
    <2>1. /\ d \o f \in Seq(Messages) /\ Len(d \o f) = Len(d) + Len(f)
          /\ (d \o f)[j] = d[j] /\ Len(d) \in Nat /\ Len(f) \in Nat /\ Len(b) \in Nat
      OBVIOUS
    <2>2. j \in 1..Len(d \o f)
      BY <2>1
    <2> QED
      BY <2>1, <2>2
  <1>8. \A j \in 1..Len(Delivered(c)) :
           /\ j \in 1..Len(Delivered(c) \o frame[c] \o buf[c])
           /\ (Delivered(c) \o frame[c] \o buf[c])[j] = Delivered(c)[j]
    BY <1>1, <1>7, Zenon
  <1>9. \A j \in 1..Len(Delivered(c)) :
           j \in 1..Len(accepted[c]) /\ accepted[c][j] = Delivered(c)[j]
    BY <1>1, <1>8, Zenon
  <1>10. i - 1 \in 1..Len(accepted[c]) /\ accepted[c][i - 1] = sent[c][i]
    BY <1>6, <1>9, Zenon
  <1> QED
    BY <1>10, Zenon

(* Every reply that a peer gets is the result of a script that it has sent *)
(* itself and that has ended, for any number of connections and requests,  *)
(* any sizes of the pool and any scripts that loop.                        *)
THEOREM RepliesCorrect == ServingSpec => []RepliesAreResults
  <1>1. IInv /\ MailInv /\ Waited => RepliesAreResults
    <2> SUFFICES ASSUME IInv, MailInv, Waited, NEW c \in Conns,
                        NEW i \in 1..Len(sent[c]), sent[c][i] \in Requests
                 PROVE  /\ req[sent[c][i]].conn = c
                        /\ pc[sent[c][i]] = "done" /\ outcome[sent[c][i]] # "none"
      BY DEF RepliesAreResults
    <2>1. PICK r \in Requests : r = sent[c][i]
      OBVIOUS
    <2>2. Over(c, r)
      BY <2>1, WrittenWasAccepted DEF MailInv, AtMostOnce
    <2>3. r \notin Broadcasts
      BY WSAssumption
    <2>4. req[r].conn = c /\ req[r].pc \in {"done", "panicked"}
      BY <2>2, <2>3 DEF Over
    <2> QED
      BY <2>1, <2>4 DEF Waited
  <1>2. ServingInit => IInv /\ MailInv /\ Waited
    BY InitIInv, MailInit, WaitedInit DEF ServingInit
  <1>3. IInv /\ MailInv /\ Waited /\ [ServingNext]_servingVars => (IInv /\ MailInv /\ Waited)'
    BY ManagerStep, StepIInv, MailInvStep, WaitedStep
  <1> QED
    BY <1>1, <1>2, <1>3, PTL DEF ServingSpec

-----------------------------------------------------------------------------
(* The theorems of the pool, for the requests of the manager.              *)
PoolTheorems == INSTANCE GojaPoolProofs WITH Calls <- Requests, dropped <- lost

LEMMA SameInit == Pool!Init => PoolTheorems!Init
  BY DEF Pool!Init, PoolTheorems!Init, Pool!InitGojaPool, PoolTheorems!InitGojaPool,
         Pool!NewVM, PoolTheorems!NewVM

LEMMA SameExecute == \A r \in Requests : Pool!Execute(r) => PoolTheorems!Execute(r)
  BY DEF Pool!Execute, PoolTheorems!Execute, Pool!Get, PoolTheorems!Get,
         Pool!GetReused, PoolTheorems!GetReused, Pool!GetCreated, PoolTheorems!GetCreated,
         Pool!Acquired, PoolTheorems!Acquired, Pool!Touched, PoolTheorems!Touched,
         Pool!NewVM, PoolTheorems!NewVM, Pool!Run, PoolTheorems!Run,
         Pool!RunToEnd, PoolTheorems!RunToEnd,
         Pool!RunInterrupted, PoolTheorems!RunInterrupted,
         Pool!Returned, PoolTheorems!Returned, Pool!StopTimer, PoolTheorems!StopTimer,
         Pool!Put, PoolTheorems!Put, Pool!PutWornOut, PoolTheorems!PutWornOut,
         Pool!PutClear, PoolTheorems!PutClear, Pool!PutSend, PoolTheorems!PutSend,
         Pool!WornOut, PoolTheorems!WornOut, Pool!Full, PoolTheorems!Full,
         Pool!Interrupt, PoolTheorems!Interrupt

LEMMA SameBackground ==
    /\ \A r \in Requests : Pool!Timer(r) => PoolTheorems!Timer(r)
    /\ Pool!Cleanup => PoolTheorems!Cleanup
    /\ \A v \in Pool!VMs : v \in PoolTheorems!VMs /\ (Pool!GoesStale(v) => PoolTheorems!GoesStale(v))
  BY DEF Pool!Timer, PoolTheorems!Timer, Pool!TimerFires, PoolTheorems!TimerFires,
         Pool!TimerCallback, PoolTheorems!TimerCallback,
         Pool!Interrupt, PoolTheorems!Interrupt, Pool!Cleanup, PoolTheorems!Cleanup,
         Pool!CleanupTick, PoolTheorems!CleanupTick,
         Pool!CleanupLoop, PoolTheorems!CleanupLoop,
         Pool!CleanupTake, PoolTheorems!CleanupTake,
         Pool!CleanupPut, PoolTheorems!CleanupPut, Pool!Expired, PoolTheorems!Expired,
         Pool!Full, PoolTheorems!Full, Pool!GoesStale, PoolTheorems!GoesStale,
         Pool!VMs, PoolTheorems!VMs

(* While requests are served no two of them, nor the janitor, ever have    *)
(* the same VM, a VM beyond its usage limit is not used again, and a timer *)
(* that expires ends at most one script.                                   *)
THEOREM ServingPoolSafe ==
    ServingSpec => [](Pool!ExclusiveVM /\ Pool!WornOutLeaves /\ Pool!OneTimeoutPerTimer)
  <1>1. PoolTheorems!Spec => []PoolTheorems!ExclusiveVM
    BY ServingAssumption, PoolTheorems!VMExclusive DEF Pool!PoolAssumption
  <1>2. PoolTheorems!Spec => []PoolTheorems!WornOutLeaves
    BY ServingAssumption, PoolTheorems!WornOutNeverPooled DEF Pool!PoolAssumption
  <1>3. PoolTheorems!Spec => []PoolTheorems!OneTimeoutPerTimer
    BY ServingAssumption, PoolTheorems!TimeoutsPaidFor DEF Pool!PoolAssumption
  <1>4. Pool!Next => PoolTheorems!Next
    BY SameExecute, SameBackground DEF Pool!Next, PoolTheorems!Next
  <1>5. UNCHANGED Pool!vars => UNCHANGED PoolTheorems!vars
    BY DEF Pool!vars, PoolTheorems!vars
  <1>6. [Pool!Next]_(Pool!vars) => [PoolTheorems!Next]_(PoolTheorems!vars)
    BY <1>4, <1>5
  <1>7. PoolTheorems!ExclusiveVM => Pool!ExclusiveVM
    BY DEF Pool!ExclusiveVM, PoolTheorems!ExclusiveVM, Pool!NoDuplicate,
           PoolTheorems!NoDuplicate, Pool!InUse, PoolTheorems!InUse, Pool!InPool,
           PoolTheorems!InPool
  <1>8. PoolTheorems!WornOutLeaves => Pool!WornOutLeaves
    BY DEF Pool!WornOutLeaves, PoolTheorems!WornOutLeaves, Pool!VMs, PoolTheorems!VMs,
           Pool!HandedTo, PoolTheorems!HandedTo,
           Pool!Cardinality, PoolTheorems!Cardinality
  <1>9. PoolTheorems!OneTimeoutPerTimer => Pool!OneTimeoutPerTimer
    BY DEF Pool!OneTimeoutPerTimer, PoolTheorems!OneTimeoutPerTimer, Pool!Cardinality,
           PoolTheorems!Cardinality
  <1> QED
    BY ServingPools, SameInit, <1>1, <1>2, <1>3, <1>6, <1>7, <1>8, <1>9, PTL
       DEF Pool!Spec, PoolTheorems!Spec
=============================================================================
