------------------------------ MODULE Metrics -------------------------------
(***************************************************************************)
(* GlobalMetrics of internal/metrics/metrics.go, the counters that every   *)
(* goroutine of the process shares.  Most of them are changed with atomic  *)
(* additions and no lock; HttpDuration and queryTimes are guarded by mu.   *)
(* Reset and GetStats hold mu, which keeps them apart from each other and  *)
(* not from the atomic additions.                                          *)
(*                                                                         *)
(* Modelled are the counters that two operations must keep in step.  The   *)
(* others are changed by one atomic addition each and are read only to be  *)
(* displayed.  One request or query takes one unit of time.                *)
(***************************************************************************)
EXTENDS Integers, Sequences, FiniteSets

CONSTANTS Callers,  \* the goroutines that call an operation of Metrics
          Window    \* the number of query times that are kept (1000)

ASSUME MetricsAssumption == Window \in Nat \ {0}

VARIABLES
    m,           \* the counters HttpRequests, HttpErrors, HttpDuration
    queryTimes,  \* Metrics.queryTimes
    readers,     \* the goroutines that hold mu for reading
    writer,      \* the goroutine that holds mu for writing, as a set
    at,          \* at[p]: where p is in the operation it calls
    code,        \* code[p]: the status that p passed to AddHTTPRequest
    counted,     \* history: the calls in HttpRequests since the last Reset
    torn         \* history: a Reset cut a call of AddHTTPRequest in two

metricsVars == <<m, queryTimes, readers, writer, at, code, counted, torn>>

Places == {"free", "countError", "addDuration", "appendTime", "check",
           "divide", "unlock", "panicked", "requests", "errors", "duration"}

InitMetrics ==
    /\ m = [requests |-> 0, errors |-> 0, duration |-> 0]
    /\ queryTimes = <<>>
    /\ readers = {} /\ writer = {}
    /\ at = [p \in Callers |-> "free"]
    /\ code = [p \in Callers |-> 0]
    /\ counted = {}
    /\ torn = FALSE

Move(p, from, to) == at[p] = from /\ at' = [at EXCEPT ![p] = to]

IsError(status) == status >= 400

-----------------------------------------------------------------------------
(* AddHTTPRequest: two atomic additions and an addition under the lock.    *)

CountRequest(p, status) ==
    /\ Move(p, "free", IF IsError(status) THEN "countError" ELSE "addDuration")
    /\ m' = [m EXCEPT !.requests = @ + 1]
    /\ code' = [code EXCEPT ![p] = status]
    /\ counted' = counted \cup {p}
    /\ UNCHANGED <<queryTimes, readers, writer, torn>>

CountError(p) ==
    /\ Move(p, "countError", "addDuration")
    /\ m' = [m EXCEPT !.errors = @ + 1]
    /\ UNCHANGED <<queryTimes, readers, writer, code, counted, torn>>

AddDuration(p) ==
    /\ Move(p, "addDuration", "free")
    /\ readers = {} /\ writer = {}
    /\ m' = [m EXCEPT !.duration = @ + 1]
    /\ UNCHANGED <<queryTimes, readers, writer, code, counted, torn>>

AddHTTPRequest(p) == CountError(p) \/ AddDuration(p)

(* AddQueryTime(d): the window of the latest times, under the lock.        *)

Latest(s) == IF Len(s) > Window THEN Tail(s) ELSE s

CountQuery(p) ==
    /\ Move(p, "free", "appendTime")
    /\ UNCHANGED <<m, queryTimes, readers, writer, code, counted, torn>>

AppendTime(p) ==
    /\ Move(p, "appendTime", "free")
    /\ readers = {} /\ writer = {}
    /\ queryTimes' = Latest(Append(queryTimes, 1))
    /\ UNCHANGED <<m, readers, writer, code, counted, torn>>

-----------------------------------------------------------------------------
(* GetStats: HttpRequests is compared with 0 and then read again to divide *)
(* by it, both while mu is held for reading.                               *)

StatsLock(p) ==
    /\ Move(p, "free", "check")
    /\ writer = {}
    /\ readers' = readers \cup {p}
    /\ UNCHANGED <<m, queryTimes, writer, code, counted, torn>>

StatsCheck(p) ==
    /\ Move(p, "check", IF m.requests > 0 THEN "divide" ELSE "unlock")
    /\ UNCHANGED <<m, queryTimes, readers, writer, code, counted, torn>>

StatsDivide(p) ==
    /\ Move(p, "divide", IF m.requests = 0 THEN "panicked" ELSE "unlock")
    /\ UNCHANGED <<m, queryTimes, readers, writer, code, counted, torn>>

(* Mutant: the deferred RUnlock is missing.                                *)
StatsReturn(p) ==
    /\ Move(p, "unlock", "free")
    /\ UNCHANGED <<m, queryTimes, readers, writer, code, counted, torn>>

StatsUnlock(p) ==
    /\ Move(p, "unlock", "free")
    /\ readers' = readers \ {p}
    /\ UNCHANGED <<m, queryTimes, writer, code, counted, torn>>

GetStats(p) == StatsCheck(p) \/ StatsDivide(p) \/ StatsUnlock(p)

-----------------------------------------------------------------------------
(* Reset stores zero in one counter after the other while it holds mu.     *)

(* Mutant: the lock is taken for reading only.                             *)
ResetRLock(p) ==
    /\ Move(p, "free", "requests")
    /\ writer = {}
    /\ writer' = writer
    /\ readers' = readers \cup {p}
    /\ queryTimes' = <<>>
    /\ UNCHANGED <<m, code, counted, torn>>

ResetLock(p) ==
    /\ Move(p, "free", "requests")
    /\ readers = {} /\ writer = {}
    /\ writer' = {p}
    /\ queryTimes' = <<>>
    /\ UNCHANGED <<m, readers, code, counted, torn>>

(* A call that has been counted and is not finished is cut in two.         *)
ResetRequests(p) ==
    /\ Move(p, "requests", "errors")
    /\ m' = [m EXCEPT !.requests = 0]
    /\ counted' = {}
    /\ torn' = (torn \/ \E q \in Callers : at[q] \in {"countError", "addDuration"})
    /\ UNCHANGED <<queryTimes, readers, writer, code>>

(* So is one that was counted after that and has counted its error.        *)
ResetErrors(p) ==
    /\ Move(p, "errors", "duration")
    /\ m' = [m EXCEPT !.errors = 0]
    /\ torn' = (torn \/ \E q \in Callers : at[q] = "addDuration" /\ IsError(code[q]))
    /\ UNCHANGED <<queryTimes, readers, writer, code, counted>>

ResetUnlock(p) ==
    /\ Move(p, "duration", "free")
    /\ m' = [m EXCEPT !.duration = 0]
    /\ writer' = {} /\ readers' = readers \ {p}
    /\ UNCHANGED <<queryTimes, code, counted, torn>>

Reset(p) == ResetRequests(p) \/ ResetErrors(p) \/ ResetUnlock(p)

Underway(p) == AddHTTPRequest(p) \/ AppendTime(p) \/ GetStats(p) \/ Reset(p)

(* Any goroutine may call any operation: the specification of Metrics by   *)
(* itself, whoever its callers are.                                        *)
Call(p) ==
    \/ \E status \in Nat : CountRequest(p, status)
    \/ CountQuery(p) \/ StatsLock(p) \/ ResetLock(p)

MetricsNext == \E p \in Callers : Call(p) \/ Underway(p)
MetricsSpec == InitMetrics /\ [][MetricsNext]_metricsVars

-----------------------------------------------------------------------------
(* Every variable of Metrics has its type, and the window of query times   *)
(* is never longer than its limit.                                         *)
MetricsTypeOK ==
    /\ m \in [requests : Nat, errors : Nat, duration : Nat]
    /\ queryTimes \in Seq({1}) /\ Len(queryTimes) <= Window
    /\ readers \subseteq Callers /\ writer \subseteq Callers
    /\ at \in [Callers -> Places]
    /\ code \in [Callers -> Nat]
    /\ counted \subseteq Callers
    /\ torn \in BOOLEAN

(* GetStats compares HttpRequests with 0 and reads it again to divide by   *)
(* it: the only operation that lowers it, Reset, is kept out by the lock.  *)
StatsNeverPanics == \A p \in Callers : at[p] # "panicked"

=============================================================================
