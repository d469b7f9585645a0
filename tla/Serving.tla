------------------------------ MODULE Serving -------------------------------
(***************************************************************************)
(* handleMessage of internal/websocket/ws.go over the VM pool: WSManager   *)
(* and GojaPool as one system.  A request is a goroutine of the manager    *)
(* and at the same time a call of Execute, the only one there is in the    *)
(* program; it replies when Execute has returned.  The timer callbacks and *)
(* the janitor of the pool run beside the connections.                     *)
(*                                                                         *)
(* A message above MAX_WEBSOCKET_MESSAGE never gets to handleMessage: the  *)
(* read limit of the connection, the same number, turns it into an error.  *)
(***************************************************************************)
EXTENDS WSManager

CONSTANTS Looping,   \* the requests whose script never ends by itself
          MinSize,   \* MIN_VM_POOL_SIZE
          MaxSize,   \* MAX_VM_POOL_SIZE
          UsageCap,  \* the usage count above which Put evicts
          NoVM       \* held by nobody

VARIABLES pool, heap, pc, vm, timer, outcome, stats, janitor,
          lost       \* history: VMs cleanup failed to put back

Pool == INSTANCE GojaPool WITH Calls <- Requests, dropped <- lost

ASSUME ServingAssumption == Pool!PoolAssumption

poolVars == <<pool, heap, pc, vm, timer, outcome, stats, lost, janitor>>
servingVars == <<vars, poolVars>>

ServingInit == Init /\ Pool!Init

-----------------------------------------------------------------------------
(* Mutant: the reply does not wait for the end of Execute.                 *)
HandleMessageEarly(r) ==
    \/ req[r].pc = "run" /\ Pool!Execute(r) /\ UNCHANGED vars
    \/ SafeSend(r) /\ UNCHANGED poolVars

(* Mutant: an error of Execute is not answered.                            *)
HandleMessageSilent(r) ==
    \/ req[r].pc = "run" /\ Pool!Execute(r) /\ UNCHANGED vars
    \/ /\ pc[r] = "done" /\ outcome[r] # "timeout"
       /\ SafeSend(r) /\ UNCHANGED poolVars

(* Execute, and then safeSend with its output or its error.                *)
HandleMessage(r) ==
    \/ req[r].pc = "run" /\ Pool!Execute(r) /\ UNCHANGED vars
    \/ pc[r] = "done" /\ SafeSend(r) /\ UNCHANGED poolVars

(* The goroutines of the manager that do not enter the pool.               *)
Connections ==
    /\ \/ \E c \in Conns : HandleWebSocket(c) \/ WsWriter(c) \/ PeerGone(c)
       \/ \E b \in Broadcasts : Broadcast(b)
    /\ UNCHANGED poolVars

(* The goroutines of the pool that are not calls of Execute, and the clock.*)
Background ==
    /\ \/ \E r \in Requests : Pool!Timer(r)
       \/ Pool!Cleanup
       \/ \E v \in Pool!VMs : Pool!GoesStale(v)
    /\ UNCHANGED vars

ServingNext == Connections \/ Background \/ \E r \in Requests : HandleMessage(r)

(* As in the two modules, without the assumption of WSManager that a       *)
(* script ends: a request that has been read goes on in Execute, and there *)
(* is nothing but its timer to end a script that loops.                    *)
ServingFairness ==
    /\ \A c \in Conns : /\ WF_servingVars(Connect(c) /\ UNCHANGED poolVars)
                        /\ WF_servingVars(TearDown(c) /\ UNCHANGED poolVars)
                        /\ WF_servingVars(WsWriter(c) /\ UNCHANGED poolVars)
    /\ \A r \in Requests : /\ WF_servingVars(HandleMessage(r))
                           /\ WF_servingVars(Pool!Timer(r) /\ UNCHANGED vars)

ServingSpec == ServingInit /\ [][ServingNext]_servingVars
FairServingSpec == ServingSpec /\ ServingFairness

-----------------------------------------------------------------------------
(* A peer is told nothing but results: a reply that was written to it is   *)
(* that of a request it has sent itself, whose script has ended and whose  *)
(* VM has been given up, although many requests run at once and a VM goes  *)
(* from one to the other.                                                  *)
RepliesAreResults ==
    \A c \in Conns : \A i \in 1..Len(sent[c]) :
        sent[c][i] \in Requests =>
            /\ req[sent[c][i]].conn = c
            /\ pc[sent[c][i]] = "done" /\ outcome[sent[c][i]] # "none"

(* Serving is the WebSocket manager with all that its own specification    *)
(* assumes: that every script ends is a consequence of the timers of the   *)
(* pool.                                                                   *)
Manages == FairSpec

=============================================================================
