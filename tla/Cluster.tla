------------------------------ MODULE Cluster ------------------------------
(***************************************************************************)
(* The cluster manager of internal/cluster/cluster.go: the goroutine that  *)
(* calls StartWorkers, the one that runs monitorWorkers, and the one that  *)
(* calls Stop, over the sync.RWMutex cm.mu.                                *)
(*                                                                         *)
(* The lock is modelled as Go documents it: it cannot be taken for writing *)
(* while anyone holds it for reading, not even by the goroutine that holds *)
(* it for reading itself, and a waiting writer keeps new readers out.      *)
(***************************************************************************)
EXTENDS Integers, Sequences

CONSTANTS Count,    \* the argument of StartWorkers
          MaxPid,   \* how many processes are ever started
          Windows   \* os.Process.Signal(0) is not supported

VARIABLES
    workers,   \* the process numbers in cm.workers
    alive,     \* the processes that are running
    lastPid,
    readers,   \* the goroutines that hold cm.mu for reading
    owner,     \* the goroutine that holds cm.mu for writing, or "nobody"
    waiting,   \* the goroutines that wait in cm.mu.Lock()
    starter,   \* where StartWorkers is
    monitor,   \* where monitorWorkers is, and the worker it looks at
    stopper,   \* where Stop is
    stopped,   \* stopChan is closed
    detected   \* the workers found not to respond and not yet dealt with

lockVars == <<readers, owner, waiting>>
vars == <<workers, alive, lastPid, lockVars, starter, monitor, stopper,
          stopped, detected>>

Init ==
    /\ workers = <<>> /\ alive = {} /\ lastPid = 0
    /\ readers = {} /\ owner = "nobody" /\ waiting = {}
    /\ starter = "idle" /\ monitor = [pc |-> "off", i |-> 0] /\ stopper = "idle"
    /\ stopped = FALSE /\ detected = {}

-----------------------------------------------------------------------------
(* sync.RWMutex (external).                                                *)
RLock(g) == /\ owner = "nobody" /\ waiting = {}
            /\ readers' = readers \cup {g} /\ UNCHANGED <<owner, waiting>>
RUnlock(g) == readers' = readers \ {g} /\ UNCHANGED <<owner, waiting>>
LockWait(g) == waiting' = waiting \cup {g} /\ UNCHANGED <<readers, owner>>
LockTake(g) == /\ g \in waiting /\ readers = {} /\ owner = "nobody"
               /\ waiting' = waiting \ {g} /\ owner' = g /\ UNCHANGED readers
Unlock(g) == owner = g /\ owner' = "nobody" /\ UNCHANGED <<readers, waiting>>

(* os.Process.Signal(0) (external): Windows does not know the signal.  On  *)
(* Unix a process that has ended answers as long as nobody has waited for  *)
(* it, and nobody does.                                                    *)
SignalFails(pid) == Windows

(* A worker process ends: main returns at once when called with --worker.  *)
WorkerExits(pid) ==
    /\ pid \in alive
    /\ alive' = alive \ {pid}
    /\ UNCHANGED <<workers, lastPid, lockVars, starter, monitor, stopper, stopped, detected>>

-----------------------------------------------------------------------------
StartLock ==
    /\ starter = "idle"
    /\ starter' = "lock"
    /\ LockWait("starter")
    /\ UNCHANGED <<workers, alive, lastPid, monitor, stopper, stopped, detected>>

(* All workers are started and the monitor too, or the start of one fails  *)
(* and StartWorkers returns at once.                                       *)
StartWorkers ==
    /\ starter = "lock"
    /\ LockTake("starter")
    /\ \E k \in 0..Count :
          /\ lastPid' = k
          /\ workers' = [i \in 1..k |-> i]
          /\ alive' = 1..k
          /\ monitor' = IF k = Count THEN [pc |-> "wait", i |-> 0] ELSE monitor
    /\ starter' = "unlock"
    /\ UNCHANGED <<stopper, stopped, detected>>

StartUnlock ==
    /\ starter = "unlock"
    /\ Unlock("starter")
    /\ starter' = "done"
    /\ UNCHANGED <<workers, alive, lastPid, monitor, stopper, stopped, detected>>

-----------------------------------------------------------------------------
(* monitorWorkers: every 30 seconds, under the read lock, every worker.    *)

MonitorTick ==
    /\ monitor.pc = "wait"
    /\ RLock("monitor")
    /\ monitor' = [pc |-> "scan", i |-> 1]
    /\ UNCHANGED <<workers, alive, lastPid, starter, stopper, stopped, detected>>

MonitorStop ==
    /\ monitor.pc = "wait" /\ stopped
    /\ monitor' = [pc |-> "done", i |-> 0]
    /\ UNCHANGED <<workers, alive, lastPid, lockVars, starter, stopper, stopped, detected>>

MonitorScan ==
    /\ monitor.pc = "scan" /\ monitor.i <= Len(workers)
    /\ \/ /\ SignalFails(workers[monitor.i])
          /\ detected' = detected \cup {monitor.i}
          /\ monitor' = [pc |-> "restart", i |-> monitor.i]
          /\ LockWait("monitor")
       \/ /\ ~SignalFails(workers[monitor.i])
          /\ monitor' = [pc |-> "scan", i |-> monitor.i + 1]
          /\ UNCHANGED <<lockVars, detected>>
    /\ UNCHANGED <<workers, alive, lastPid, starter, stopper, stopped>>

MonitorEnd ==
    /\ monitor.pc = "scan" /\ monitor.i > Len(workers)
    /\ RUnlock("monitor")
    /\ monitor' = [pc |-> "wait", i |-> 0]
    /\ UNCHANGED <<workers, alive, lastPid, starter, stopper, stopped, detected>>

(* restartWorker, once it has the lock: kill the worker and start another. *)
RestartWorker ==
    LET old == workers[monitor.i] IN
    /\ monitor.pc = "restart"
    /\ LockTake("monitor")
    /\ \/ /\ lastPid < MaxPid
          /\ lastPid' = lastPid + 1
          /\ workers' = [workers EXCEPT ![monitor.i] = lastPid + 1]
          /\ alive' = (alive \ {old}) \cup {lastPid + 1}
       \/ /\ alive' = alive \ {old}
          /\ UNCHANGED <<lastPid, workers>>
    /\ detected' = detected \ {monitor.i}
    /\ monitor' = [pc |-> "restarted", i |-> monitor.i]
    /\ UNCHANGED <<starter, stopper, stopped>>

RestartUnlock ==
    /\ monitor.pc = "restarted"
    /\ Unlock("monitor")
    /\ monitor' = [pc |-> "scan", i |-> monitor.i + 1]
    /\ UNCHANGED <<workers, alive, lastPid, starter, stopper, stopped, detected>>

-----------------------------------------------------------------------------
StopLock ==
    /\ stopper = "idle" /\ starter = "done"
    /\ stopped' = TRUE
    /\ stopper' = "lock"
    /\ LockWait("stopper")
    /\ UNCHANGED <<workers, alive, lastPid, starter, monitor, detected>>

StopKill ==
    /\ stopper = "lock"
    /\ LockTake("stopper")
    /\ alive' = alive \ {workers[i] : i \in 1..Len(workers)}
    /\ workers' = <<>>
    /\ stopper' = "unlock"
    /\ UNCHANGED <<lastPid, starter, monitor, stopped, detected>>

StopUnlock ==
    /\ stopper = "unlock"
    /\ Unlock("stopper")
    /\ stopper' = "done"
    /\ UNCHANGED <<workers, alive, lastPid, starter, monitor, stopped, detected>>

-----------------------------------------------------------------------------
Start == StartLock \/ StartWorkers \/ StartUnlock
Monitor == MonitorTick \/ MonitorStop \/ MonitorScan \/ MonitorEnd
           \/ RestartWorker \/ RestartUnlock
Stop == StopLock \/ StopKill \/ StopUnlock

Next == Start \/ Monitor \/ Stop \/ \E pid \in alive : WorkerExits(pid)

(* Every goroutine that can run does; Stop need not be called.             *)
FairSpec ==
    /\ Init /\ [][Next]_vars
    /\ WF_vars(StartWorkers \/ StartUnlock)
    /\ WF_vars(Monitor)
    /\ WF_vars(StopKill \/ StopUnlock)

(* A worker that monitorWorkers has found not to respond is dealt with:    *)
(* restartWorker kills it and starts another, or at least tries to.        *)
DetectedIsRestarted == \A i \in 1..Count : i \in detected ~> i \notin detected

=============================================================================
