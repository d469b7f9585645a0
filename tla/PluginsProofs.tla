--------------------------- MODULE PluginsProofs ----------------------------
(***************************************************************************)
(* Proofs about Metrics, for every number of goroutines that call any of   *)
(* its operations, and about Plugins, for every number of requests and     *)
(* addresses, every chain of middlewares and every rate.                   *)
(***************************************************************************)
EXTENDS Plugins, FiniteSetTheorems, SequenceTheorems, NaturalsInduction,
        WellFoundedInduction, TLAPS

-----------------------------------------------------------------------------
(* Metrics.                                                                *)

(* Who is inside GetStats holds mu for reading, who is inside Reset holds  *)
(* it for writing, and nobody holds it in both ways.                       *)
Locked ==
    /\ \A p \in Callers : at[p] \in {"check", "divide", "unlock"} => p \in readers
    /\ \A p \in Callers : at[p] \in {"requests", "errors", "duration"} => writer = {p}
    /\ writer = {} \/ readers = {}

(* GetStats divides only after it has seen a request, which stays.         *)
Seen == \A p \in Callers : at[p] = "divide" => m.requests > 0

MInv == MetricsTypeOK /\ Locked /\ Seen /\ StatsNeverPanics

LEMMA MoveFacts ==
    ASSUME MetricsTypeOK, NEW p \in Callers, NEW from, NEW to \in Places,
           Move(p, from, to)
    PROVE  /\ at[p] = from /\ at'[p] = to /\ at' \in [Callers -> Places]
           /\ \A q \in Callers \ {p} : at'[q] = at[q]
  BY DEF Move, MetricsTypeOK

LEMMA CountersFacts ==
    ASSUME MetricsTypeOK
    PROVE  LET T == [requests : Nat, errors : Nat, duration : Nat] IN
           /\ m \in T
           /\ [m EXCEPT !.requests = @ + 1] \in T
           /\ [m EXCEPT !.errors = @ + 1] \in T
           /\ [m EXCEPT !.duration = @ + 1] \in T
           /\ [m EXCEPT !.requests = 0] \in T
           /\ [m EXCEPT !.errors = 0] \in T
           /\ [m EXCEPT !.duration = 0] \in T
  BY DEF MetricsTypeOK

LEMMA WindowFacts ==
    ASSUME MetricsTypeOK
    PROVE  /\ Latest(Append(queryTimes, 1)) \in Seq({1})
           /\ Len(Latest(Append(queryTimes, 1))) <= Window
  <1> DEFINE s == Append(queryTimes, 1)
  <1>1. /\ s \in Seq({1}) /\ Len(s) = Len(queryTimes) + 1 /\ Len(queryTimes) \in Nat
        /\ Len(queryTimes) <= Window
    BY DEF MetricsTypeOK
  <1>2. Tail(s) \in Seq({1}) /\ Len(Tail(s)) = Len(s) - 1
    BY <1>1
  <1> QED
    BY <1>1, <1>2, MetricsAssumption DEF Latest

-----------------------------------------------------------------------------
LEMMA RequestStep ==
    ASSUME MInv, NEW p \in Callers,
           (\E status \in Nat : CountRequest(p, status)) \/ AddHTTPRequest(p)
    PROVE  MInv'
  <1> USE DEF MInv
  <1>1. CASE \E status \in Nat : CountRequest(p, status)
    <2>1. PICK status \in Nat : CountRequest(p, status)
      BY <1>1
    <2> DEFINE to == IF IsError(status) THEN "countError" ELSE "addDuration"
    <2>2. /\ Move(p, "free", to) /\ to \in Places
          /\ m' = [m EXCEPT !.requests = @ + 1]
          /\ code' = [code EXCEPT ![p] = status] /\ counted' = counted \cup {p}
          /\ UNCHANGED <<queryTimes, readers, writer, torn>>
      BY <2>1 DEF CountRequest, Places
    <2>3. /\ at'[p] \in {"countError", "addDuration"} /\ at' \in [Callers -> Places]
          /\ \A q \in Callers \ {p} : at'[q] = at[q]
      BY <2>2, MoveFacts
    <2>4. MetricsTypeOK'
      BY <2>2, <2>3, CountersFacts DEF MetricsTypeOK
    <2>5. m'.requests = m.requests + 1
      BY <2>2, CountersFacts
    <2> QED
      BY <2>2, <2>3, <2>4, <2>5, CountersFacts DEF Locked, Seen, StatsNeverPanics
  <1>2. CASE CountError(p)
    <2>1. /\ Move(p, "countError", "addDuration") /\ "addDuration" \in Places
          /\ m' = [m EXCEPT !.errors = @ + 1]
          /\ UNCHANGED <<queryTimes, readers, writer, code, counted, torn>>
      BY <1>2 DEF CountError, Places
    <2>2. /\ at'[p] = "addDuration" /\ at' \in [Callers -> Places]
          /\ \A q \in Callers \ {p} : at'[q] = at[q]
      BY <2>1, MoveFacts
    <2>3. MetricsTypeOK' /\ m'.requests = m.requests
      BY <2>1, <2>2, CountersFacts DEF MetricsTypeOK
    <2> QED
      BY <2>1, <2>2, <2>3 DEF Locked, Seen, StatsNeverPanics
  <1>3. CASE AddDuration(p)
    <2>1. /\ Move(p, "addDuration", "free") /\ "free" \in Places
          /\ m' = [m EXCEPT !.duration = @ + 1]
          /\ UNCHANGED <<queryTimes, readers, writer, code, counted, torn>>
      BY <1>3 DEF AddDuration, Places
    <2>2. /\ at'[p] = "free" /\ at' \in [Callers -> Places]
          /\ \A q \in Callers \ {p} : at'[q] = at[q]
      BY <2>1, MoveFacts
    <2>3. MetricsTypeOK' /\ m'.requests = m.requests
      BY <2>1, <2>2, CountersFacts DEF MetricsTypeOK
    <2> QED
      BY <2>1, <2>2, <2>3 DEF Locked, Seen, StatsNeverPanics
  <1> QED
    BY <1>1, <1>2, <1>3 DEF AddHTTPRequest

LEMMA QueryStep ==
    ASSUME MInv, NEW p \in Callers, CountQuery(p) \/ AppendTime(p)
    PROVE  MInv'
  <1> USE DEF MInv
  <1>1. PICK to \in {"appendTime", "free"} :
            Move(p, at[p], to) /\ UNCHANGED <<m, readers, writer, code, counted, torn>>
    BY DEF CountQuery, AppendTime, Move
  <1>2. queryTimes' = queryTimes \/ queryTimes' = Latest(Append(queryTimes, 1))
    BY DEF CountQuery, AppendTime
  <1>3. /\ at'[p] = to /\ at' \in [Callers -> Places]
        /\ \A q \in Callers \ {p} : at'[q] = at[q]
    BY <1>1, MoveFacts DEF Places
  <1>4. MetricsTypeOK'
    BY <1>1, <1>2, <1>3, WindowFacts DEF MetricsTypeOK
  <1> QED
    BY <1>1, <1>3, <1>4 DEF Locked, Seen, StatsNeverPanics

(* The step that divides finds a positive number.                          *)
LEMMA StatsStep ==
    ASSUME MInv, NEW p \in Callers, StatsLock(p) \/ GetStats(p)
    PROVE  MInv'
  <1> USE DEF MInv
  <1>1. UNCHANGED <<m, queryTimes, writer, code, counted, torn>>
    BY DEF StatsLock, GetStats, StatsCheck, StatsDivide, StatsUnlock
  <1>2. CASE StatsLock(p)
    <2>1. /\ Move(p, "free", "check") /\ "check" \in Places
          /\ writer = {} /\ readers' = readers \cup {p}
      BY <1>2 DEF StatsLock, Places
    <2>2. /\ at'[p] = "check" /\ at' \in [Callers -> Places]
          /\ \A q \in Callers \ {p} : at'[q] = at[q]
      BY <2>1, MoveFacts
    <2>3. MetricsTypeOK'
      BY <1>1, <2>1, <2>2 DEF MetricsTypeOK
    <2> QED
      BY <1>1, <2>1, <2>2, <2>3 DEF Locked, Seen, StatsNeverPanics
  <1>3. CASE StatsCheck(p) \/ StatsDivide(p)
    <2>1. /\ readers' = readers /\ at[p] \in {"check", "divide"}
          /\ \/ Move(p, at[p], "divide") /\ m.requests > 0
             \/ Move(p, at[p], "unlock")
      <3>1. CASE StatsCheck(p)
        BY <3>1 DEF StatsCheck, Move
      <3>2. CASE StatsDivide(p)
        <4>1. at[p] = "divide" /\ readers' = readers
          BY <3>2 DEF StatsDivide, Move
        <4>2. m.requests # 0
          BY <4>1, CountersFacts DEF Seen
        <4> QED
          BY <3>2, <4>1, <4>2 DEF StatsDivide
      <3> QED
        BY <1>3, <3>1, <3>2
    <2>2. /\ at'[p] \in {"divide", "unlock"} /\ at' \in [Callers -> Places]
          /\ (at'[p] = "divide" => m.requests > 0)
          /\ \A q \in Callers \ {p} : at'[q] = at[q]
      BY <2>1, MoveFacts DEF Places
    <2>3. MetricsTypeOK'
      BY <1>1, <2>1, <2>2 DEF MetricsTypeOK
    <2> QED
      BY <1>1, <2>1, <2>2, <2>3 DEF Locked, Seen, StatsNeverPanics
  <1>4. CASE StatsUnlock(p)
    <2>1. /\ Move(p, "unlock", "free") /\ "free" \in Places
          /\ readers' = readers \ {p}
      BY <1>4 DEF StatsUnlock, Places
    <2>2. /\ at'[p] = "free" /\ at' \in [Callers -> Places]
          /\ \A q \in Callers \ {p} : at'[q] = at[q]
      BY <2>1, MoveFacts
    <2>3. MetricsTypeOK'
      BY <1>1, <2>1, <2>2 DEF MetricsTypeOK
    <2> QED
      BY <1>1, <2>1, <2>2, <2>3 DEF Locked, Seen, StatsNeverPanics
  <1> QED
    BY <1>2, <1>3, <1>4 DEF GetStats

(* While Reset runs nobody is about to divide.                             *)
LEMMA ResetStep ==
    ASSUME MInv, NEW p \in Callers, ResetLock(p) \/ Reset(p)
    PROVE  MInv'
  <1> USE DEF MInv
  <1>1. CASE ResetLock(p)
    <2>1. /\ Move(p, "free", "requests") /\ "requests" \in Places
          /\ readers = {} /\ writer' = {p} /\ queryTimes' = <<>>
          /\ UNCHANGED <<m, readers, code, counted, torn>> /\ writer = {}
      BY <1>1 DEF ResetLock, Places
    <2>2. /\ at'[p] = "requests" /\ at' \in [Callers -> Places]
          /\ \A q \in Callers \ {p} : at'[q] = at[q]
      BY <2>1, MoveFacts
    <2>3. MetricsTypeOK'
      BY <2>1, <2>2, MetricsAssumption DEF MetricsTypeOK
    <2>4. \A q \in Callers \ {p} : at[q] \notin {"requests", "errors", "duration"}
      BY <2>1 DEF Locked
    <2> QED
      BY <2>1, <2>2, <2>3, <2>4 DEF Locked, Seen, StatsNeverPanics
  <1>2. CASE Reset(p)
    <2>1. /\ at[p] \in {"requests", "errors", "duration"}
          /\ \E to \in {"errors", "duration", "free"} : Move(p, at[p], to)
          /\ UNCHANGED <<queryTimes, code>>
          /\ torn' \in BOOLEAN /\ counted' \in {counted, {}}
          /\ \/ m' = [m EXCEPT !.requests = 0]
             \/ m' = [m EXCEPT !.errors = 0]
             \/ m' = [m EXCEPT !.duration = 0]
      BY <1>2 DEF Reset, ResetRequests, ResetErrors, ResetUnlock, Move, MetricsTypeOK
    <2>2. /\ at'[p] \in {"errors", "duration", "free"} /\ at' \in [Callers -> Places]
          /\ \A q \in Callers \ {p} : at'[q] = at[q]
      BY <2>1, MoveFacts DEF Places
    <2>3. writer = {p} /\ readers = {}
      BY <2>1 DEF Locked
    <2>4. /\ readers' = {}
          /\ \/ writer' = {p}
             \/ writer' = {} /\ at'[p] = "free"
      <3>1. CASE ResetRequests(p) \/ ResetErrors(p)
        BY <2>3, <3>1 DEF ResetRequests, ResetErrors
      <3>2. CASE ResetUnlock(p)
        BY <2>3, <3>2, MoveFacts DEF ResetUnlock, Places
      <3> QED
        BY <1>2, <3>1, <3>2 DEF Reset
    <2>5. MetricsTypeOK'
      BY <2>1, <2>2, <2>4, CountersFacts DEF MetricsTypeOK
    <2>6. \A q \in Callers : at[q] \notin {"check", "divide", "unlock"}
      BY <2>3 DEF Locked
    <2>7. \A q \in Callers \ {p} : at[q] \notin {"requests", "errors", "duration"}
      BY <2>3 DEF Locked
    <2> QED
      BY <2>2, <2>4, <2>5, <2>6, <2>7 DEF Locked, Seen, StatsNeverPanics
  <1> QED
    BY <1>1, <1>2

LEMMA MInvInit == InitMetrics => MInv
  <1> SUFFICES ASSUME InitMetrics PROVE MInv
    OBVIOUS
  <1>1. MetricsTypeOK
    <2>1. /\ m \in [requests : Nat, errors : Nat, duration : Nat]
          /\ queryTimes \in Seq({1}) /\ Len(queryTimes) <= Window
      BY MetricsAssumption DEF InitMetrics
    <2>2. at \in [Callers -> Places] /\ code \in [Callers -> Nat]
      BY DEF InitMetrics, Places
    <2> QED
      BY <2>1, <2>2 DEF InitMetrics, MetricsTypeOK
  <1> QED
    BY <1>1 DEF InitMetrics, MInv, Locked, Seen, StatsNeverPanics

LEMMA MInvStep == MInv /\ [MetricsNext]_metricsVars => MInv'
  <1> SUFFICES ASSUME MInv, [MetricsNext]_metricsVars PROVE MInv'
    OBVIOUS
  <1>1. ASSUME NEW p \in Callers, Call(p) \/ Underway(p) PROVE MInv'
    BY <1>1, RequestStep, QueryStep, StatsStep, ResetStep DEF Call, Underway
  <1>2. CASE UNCHANGED metricsVars
    BY <1>2 DEF metricsVars, MInv, MetricsTypeOK, Locked, Seen, StatsNeverPanics
  <1> QED
    BY <1>1, <1>2 DEF MetricsNext

(* GetStats never divides by zero, whoever adds requests or resets the     *)
(* counters meanwhile: between its comparison and its division it holds mu *)
(* for reading, and Reset, the only one to lower the counter, holds it for *)
(* writing.                                                                *)
THEOREM StatsSafe == MetricsSpec => []StatsNeverPanics
  <1>1. MInv => StatsNeverPanics
    BY DEF MInv
  <1> QED
    BY MInvInit, MInvStep, <1>1, PTL DEF MetricsSpec

(* Every variable of Metrics has its type, and the window of query times   *)
(* never outgrows its limit, whoever calls the operations of Metrics.      *)
THEOREM MetricsTypeCorrect == MetricsSpec => []MetricsTypeOK
  <1>1. MInv => MetricsTypeOK
    BY DEF MInv
  <1> QED
    BY MInvInit, MInvStep, <1>1, PTL DEF MetricsSpec

-----------------------------------------------------------------------------
(* Plugins.                                                                *)

(* Every set of natural numbers that is not empty has a least element.     *)
LEMMA Least ==
    ASSUME NEW S, S \subseteq Nat, S # {}
    PROVE  \E n \in S : \A k \in S : n <= k
  <1>1. PICK n \in S : \A k \in S : ~ (<<k, n>> \in OpToRel(<, Nat))
    BY NatLessThanWellFounded, WFMin, Zenon
  <1>2. \A k \in S : ~(k < n)
    BY <1>1 DEF OpToRel
  <1> QED
    BY <1>2

(* Then gives the middlewares in the order of the calls of Use, whatever   *)
(* the chain is.                                                           *)
LEMMA ThenKeepsOrder ==
    ASSUME NEW S, NEW ms \in Seq(S)
    PROVE  Then(ms) = ms
  <1> DEFINE n == Len(ms)
             F(h) == [i \in 1..(n + 1) |-> IF i > n THEN <<>> ELSE Wrap(ms[i], h[i + 1])]
             h0 == CHOOSE h : h = F(h)
             g == [i \in 1..(n + 1) |-> SubSeq(ms, i, n)]
  <1>1. Then(ms) = h0[1]
    BY DEF Then
  <1>n. n \in Nat
    OBVIOUS
  <1>2. ASSUME NEW i \in 1..n PROVE Wrap(ms[i], SubSeq(ms, i + 1, n)) = SubSeq(ms, i, n)
    BY DEF Wrap
  <1>3. ASSUME NEW i \in 1..(n + 1), i > n PROVE SubSeq(ms, i, n) = <<>>
    BY <1>3
  <1> HIDE DEF n
  <1>4. g = F(g)
    <2>1. ASSUME NEW i \in 1..(n + 1)
          PROVE  SubSeq(ms, i, n) = IF i > n THEN <<>> ELSE Wrap(ms[i], g[i + 1])
      <3>1. CASE i > n
        BY <1>3, <3>1
      <3>2. CASE ~(i > n)
        <4>1. i \in 1..n /\ i + 1 \in 1..(n + 1)
          BY <1>n, <3>2
        <4>2. g[i + 1] = SubSeq(ms, i + 1, n)
          BY <4>1
        <4> QED
          BY <1>2, <3>2, <4>1, <4>2
      <3> QED
        BY <3>1, <3>2
    <2> QED
      BY <2>1
  <1>5. h0 = F(h0)
    <2>1. \E h : h = F(h)
      BY <1>4
    <2> HIDE DEF F
    <2> QED
      BY <2>1
  <1> HIDE DEF h0
  <1> DEFINE D == {k \in 0..n : h0[n + 1 - k] # g[n + 1 - k]}
  <1>6. D = {}
    <2> SUFFICES ASSUME D # {} PROVE FALSE
      OBVIOUS
    <2>0. D \subseteq 0..n /\ D \subseteq Nat
      OBVIOUS
    <2>1. PICK k \in D : \A j \in D : k <= j
      <3> HIDE DEF D
      <3> QED
        BY <2>0, Least
    <2>2. k \in 0..n
      BY <2>0
    <2>3. CASE k = 0
      <3>1. h0[n + 1] = <<>> /\ g[n + 1] = <<>>
        BY <1>n, <1>3, <1>5
      <3> QED
        BY <1>n, <2>3, <3>1
    <2>4. CASE k # 0
      <3> DEFINE i == n + 1 - k
      <3>1. i \in 1..n /\ i + 1 = n + 1 - (k - 1) /\ k - 1 \in 0..n
        BY <1>n, <2>2, <2>4
      <3>2. h0[i + 1] = g[i + 1]
        <4>1. k - 1 \notin D
          <5>1. ~(k <= k - 1)
            BY <2>2
          <5> QED
            BY ONLY <2>1, <5>1
        <4> QED
          BY <3>1, <4>1
      <3>3. h0[i] = Wrap(ms[i], h0[i + 1]) /\ g[i] = Wrap(ms[i], g[i + 1])
        <4>1. i \in 1..(n + 1) /\ ~(i > n)
          BY <1>n, <3>1
        <4> HIDE DEF i, g
        <4> QED
          BY <1>4, <1>5, <4>1
      <3> QED
        BY <3>2, <3>3
    <2> QED
      BY <2>3, <2>4
  <1>7. n \in 0..n /\ n + 1 - n = 1
    BY <1>n
  <1>8. h0[1] = g[1]
    <2>1. h0[n + 1 - n] = g[n + 1 - n]
      BY <1>6, <1>7, Zenon
    <2> HIDE DEF g
    <2> QED
      BY <1>7, <2>1
  <1>9. g[1] = SubSeq(ms, 1, n)
    BY <1>n
  <1>10. SubSeq(ms, 1, n) = ms
    <2> DEFINE t == SubSeq(ms, 1, n)
    <2>1. Len(t) = Len(ms) /\ t \in Seq(S) /\ \A i \in 1..Len(ms) : t[i] = ms[i]
      BY DEF n
    <2>2. ASSUME NEW u \in Seq(S), Len(u) = Len(ms), \A i \in 1..Len(ms) : u[i] = ms[i]
          PROVE  u = ms
      BY <2>2, SeqEqual
    <2> HIDE DEF t
    <2>3. t = ms
      BY <2>1, <2>2
    <2> QED
      BY <2>3 DEF t
  <1> QED
    BY <1>1, <1>8, <1>9, <1>10

-----------------------------------------------------------------------------
Stages == {"new", "in", "insert", "allow", "handler", "out", "counting", "done"}

Request == [pc : Stages, pos : Int, limiter : Nat \cup {None},
            status : Nat \cup {None}]

(* The shape of the requests; whoever is on the way out has a status.      *)
Told ==
    /\ req \in [Requests -> Request]
    /\ \A r \in Requests : req[r].pc \in {"out", "counting"} => req[r].status \in Nat

BucketsOK ==
    /\ bucket \in Seq(Nat)
    /\ limiters \in [Addresses -> 1..Len(bucket) \cup {None}]
    /\ granted \in [Addresses -> Nat] /\ refilled \in [Addresses -> Nat]

(* No two addresses share a limiter, and a request that is about to take a *)
(* token has the limiter of its address; the clock adds nothing where      *)
(* there is no limiter.                                                    *)
Drawn ==
    /\ \A a \in Addresses : limiters[a] = None => refilled[a] = 0
    /\ \A a, b \in Addresses :
           limiters[a] # None /\ limiters[a] = limiters[b] => a = b
    /\ \A r \in Requests : req[r].pc = "allow" =>
           req[r].limiter = limiters[From[r]] /\ limiters[From[r]] # None

PInv == Told /\ BucketsOK /\ Drawn /\ OneBucketPerAddress

LEMMA InitPInv == InitPlugins => PInv
  <1> SUFFICES ASSUME InitPlugins PROVE PInv
    OBVIOUS
  <1>1. Told
    BY DEF InitPlugins, Told, Request, Stages
  <1>2. BucketsOK
    BY DEF InitPlugins, BucketsOK
  <1>3. Drawn
    BY DEF InitPlugins, Drawn
  <1>4. OneBucketPerAddress
    BY DEF InitPlugins, OneBucketPerAddress
  <1> QED
    BY <1>1, <1>2, <1>3, <1>4 DEF PInv

(* What the next record of a request looks like.                           *)
LEMMA NextRecord ==
    ASSUME Told, NEW r \in Requests
    PROVE  /\ req[r] \in Request
           /\ Inward(r) \in Request /\ Inward(r).pc \in {"handler", "in"}
           /\ \A status \in Nat :
                 /\ Outward(r, status) \in Request /\ Outward(r, status).pc = "out"
                 /\ Outward(r, status).status = status
  <1>1. req[r] \in Request /\ req[r].pos \in Int
    BY DEF Told, Request
  <1>2. Inward(r) \in Request /\ Inward(r).pc \in {"handler", "in"}
    <2> DEFINE n == req[r].pos + 1
               stage == IF req[r].pos = Len(Onion) THEN "handler" ELSE "in"
    <2>1. stage \in {"handler", "in"} /\ stage \in Stages /\ n \in Int
      BY <1>1 DEF Stages
    <2>2. Inward(r) = [req[r] EXCEPT !.pos = n, !.pc = stage]
      BY DEF Inward
    <2> HIDE DEF n, stage
    <2> QED
      BY <1>1, <2>1, <2>2 DEF Request
  <1>3. ASSUME NEW status \in Nat
        PROVE  /\ Outward(r, status) \in Request /\ Outward(r, status).pc = "out"
               /\ Outward(r, status).status = status
    <2> DEFINE n == req[r].pos - 1
    <2>1. n \in Int /\ "out" \in Stages
      BY <1>1 DEF Stages
    <2>2. Outward(r, status) = [req[r] EXCEPT !.pos = n, !.pc = "out", !.status = status]
      BY DEF Outward
    <2> HIDE DEF n
    <2> QED
      BY <1>1, <2>1, <2>2 DEF Request
  <1> QED
    BY <1>1, <1>2, <1>3

(* A step that moves one request and leaves the limiters alone.            *)
LEMMA MoveOnly ==
    ASSUME PInv, NEW r \in Requests, NEW next \in Request, Becomes(r, next),
           next.pc # "allow",
           next.pc \in {"out", "counting"} => next.status \in Nat,
           UNCHANGED <<limiters, bucket, granted, refilled>>
    PROVE  PInv'
  <1>1. /\ req' \in [Requests -> Request] /\ req'[r] = next
        /\ \A s \in Requests \ {r} : req'[s] = req[s]
    BY DEF Becomes, PInv, Told
  <1>2. Told'
    BY <1>1 DEF PInv, Told
  <1>3. Drawn'
    BY <1>1 DEF PInv, Drawn
  <1> QED
    BY <1>2, <1>3 DEF PInv, BucketsOK, OneBucketPerAddress

-----------------------------------------------------------------------------
LEMMA RouteStep ==
    ASSUME PInv, NEW r \in Requests,
           NotFound(r) \/ Found(r) \/ PassOn(r) \/ Answer(r) \/ Handle(r)
    PROVE  PInv'
  <1>0. Told
    BY DEF PInv
  <1>1. UNCHANGED <<limiters, bucket, granted, refilled>>
    BY DEF NotFound, Found, PassOn, Answer, Handle
  <1>2. CASE NotFound(r)
    <2> DEFINE stage == "done"
               answer == 404
               next == [req[r] EXCEPT !.pc = stage, !.status = answer]
    <2>1. Becomes(r, next)
      BY <1>2 DEF NotFound
    <2>2. /\ req[r] \in Request /\ stage \in Stages /\ answer \in Nat
          /\ stage \notin {"allow", "out", "counting"}
      BY <1>0, NextRecord DEF Stages
    <2> HIDE DEF stage, answer
    <2>3. next \in Request /\ next.pc = stage
      BY <2>2 DEF Request
    <2> HIDE DEF next
    <2> QED
      BY <1>1, <2>1, <2>2, <2>3, MoveOnly
  <1>3. CASE Found(r) \/ PassOn(r)
    BY <1>0, <1>1, <1>3, NextRecord, MoveOnly DEF Found, PassOn
  <1>4. CASE Answer(r) \/ Handle(r)
    <2>1. \E status \in Nat : Becomes(r, Outward(r, status))
      BY <1>4 DEF Answer, Handle
    <2> QED
      BY <1>0, <1>1, <2>1, NextRecord, MoveOnly
  <1> QED
    BY <1>2, <1>3, <1>4

LEMMA LookUpStep ==
    ASSUME PInv, NEW r \in Requests, LookUp(r)
    PROVE  PInv'
  <1> DEFINE l == limiters[From[r]]
             next == [req[r] EXCEPT !.limiter = l,
                                    !.pc = IF l = None THEN "insert" ELSE "allow"]
  <1>0. Told /\ BucketsOK
    BY DEF PInv
  <1>1. Becomes(r, next) /\ UNCHANGED <<limiters, bucket, granted, refilled>>
    BY DEF LookUp
  <1>2. l \in Nat \cup {None}
    BY <1>0, PluginsAssumption DEF BucketsOK
  <1>3. /\ next \in Request /\ next.limiter = l
        /\ next.pc = IF l = None THEN "insert" ELSE "allow"
    <2>1. req[r] \in Request /\ (IF l = None THEN "insert" ELSE "allow") \in Stages
      BY <1>0, NextRecord DEF Stages
    <2> QED
      BY <1>2, <2>1 DEF Request
  <1> HIDE DEF next
  <1>4. /\ req' \in [Requests -> Request] /\ req'[r] = next
        /\ \A s \in Requests \ {r} : req'[s] = req[s]
    BY <1>0, <1>1, <1>3 DEF Becomes, Told
  <1>5. Told'
    BY <1>0, <1>3, <1>4 DEF Told
  <1>6. Drawn'
    BY <1>1, <1>3, <1>4 DEF PInv, Drawn
  <1> QED
    BY <1>1, <1>5, <1>6 DEF PInv, BucketsOK, OneBucketPerAddress

(* A new limiter is nobody else's; an existing one is left as it is.       *)
LEMMA InsertStep ==
    ASSUME PInv, NEW r \in Requests, Insert(r)
    PROVE  PInv'
  <1> DEFINE a == From[r]
             next == [req[r] EXCEPT !.limiter = limiters'[a], !.pc = "allow"]
  <1>0. Told /\ BucketsOK /\ Drawn /\ OneBucketPerAddress
    BY DEF PInv
  <1>1. a \in Addresses /\ Burst \in Nat /\ None \notin Nat
    BY PluginsAssumption DEF Burst
  <1>2. Becomes(r, next) /\ req[r].pc = "insert" /\ UNCHANGED <<granted, refilled>>
    BY DEF Insert
  <1>3. /\ BucketsOK' /\ limiters'[a] # None /\ limiters'[a] \in Nat
        /\ \A b \in Addresses : limiters[b] # None => limiters'[b] = limiters[b]
        /\ \A b, d \in Addresses :
              limiters'[b] # None /\ limiters'[b] = limiters'[d] => b = d
        /\ OneBucketPerAddress'
    <2>1. CASE limiters[a] # None
      <3>1. UNCHANGED <<limiters, bucket>>
        BY <2>1 DEF Insert
      <3> QED
        BY <1>0, <1>1, <1>2, <2>1, <3>1 DEF BucketsOK, Drawn, OneBucketPerAddress
    <2>2. CASE limiters[a] = None
      <3> DEFINE l == Len(bucket) + 1
      <3>1. /\ bucket' = Append(bucket, Burst)
            /\ limiters' = [limiters EXCEPT ![a] = l]
        BY <2>2 DEF Insert
      <3>2. /\ bucket' \in Seq(Nat) /\ Len(bucket') = l /\ Len(bucket) \in Nat
            /\ \A i \in 1..Len(bucket) : bucket'[i] = bucket[i]
            /\ bucket'[l] = Burst
        BY <1>0, <1>1, <3>1 DEF BucketsOK
      <3>3. /\ limiters'[a] = l /\ l \notin 1..Len(bucket) /\ l \in Nat
            /\ \A b \in Addresses \ {a} :
                  /\ limiters'[b] = limiters[b]
                  /\ limiters[b] \in 1..Len(bucket) \cup {None}
        BY <1>0, <1>1, <3>1, <3>2 DEF BucketsOK
      <3>4. limiters' \in [Addresses -> 1..Len(bucket') \cup {None}]
        BY <1>0, <1>1, <3>1, <3>2 DEF BucketsOK
      <3>5. BucketsOK'
        BY <1>0, <1>2, <3>2, <3>4 DEF BucketsOK
      <3>6. ASSUME NEW b \in Addresses, NEW d \in Addresses,
                   limiters'[b] # None, limiters'[b] = limiters'[d]
            PROVE  b = d
        BY <1>0, <1>1, <3>3, <3>6 DEF Drawn
      <3>7. ASSUME NEW b \in Addresses
            PROVE  IF limiters'[b] = None THEN granted'[b] = 0
                   ELSE granted'[b] + bucket'[limiters'[b]] = Burst + refilled'[b]
        <4>1. CASE b = a
          <5>1. granted[a] = 0
            BY <1>0, <1>1, <2>2 DEF OneBucketPerAddress
          <5>2. refilled[a] = 0
            BY <1>0, <1>1, <2>2 DEF Drawn
          <5> QED
            BY <1>1, <1>2, <3>2, <3>3, <4>1, <5>1, <5>2
        <4>2. CASE b # a
          BY <1>0, <1>2, <3>2, <3>3, <4>2 DEF OneBucketPerAddress
        <4> QED
          BY <4>1, <4>2
      <3> QED
        BY <1>1, <2>2, <3>3, <3>5, <3>6, <3>7 DEF OneBucketPerAddress
    <2> QED
      BY <2>1, <2>2
  <1>4. next \in Request /\ next.limiter = limiters'[a] /\ next.pc = "allow"
    <2>1. req[r] \in Request /\ "allow" \in Stages
      BY <1>0, NextRecord DEF Stages
    <2> QED
      BY <1>3, <2>1 DEF Request
  <1> HIDE DEF next
  <1>5. /\ req' \in [Requests -> Request] /\ req'[r] = next
        /\ \A s \in Requests \ {r} : req'[s] = req[s]
    BY <1>0, <1>2, <1>4 DEF Becomes, Told
  <1>6. Told'
    BY <1>0, <1>4, <1>5 DEF Told
  <1>7. ASSUME NEW s \in Requests, req'[s].pc = "allow"
        PROVE  req'[s].limiter = limiters'[From[s]] /\ limiters'[From[s]] # None
    <2>1. CASE s = r
      BY <1>3, <1>4, <1>5, <2>1
    <2>2. CASE s # r
      <3>1. req'[s] = req[s] /\ From[s] \in Addresses
        BY <1>5, <2>2, PluginsAssumption
      <3> QED
        BY <1>0, <1>3, <1>7, <3>1 DEF Drawn
    <2> QED
      BY <2>1, <2>2
  <1>8. Drawn'
    BY <1>0, <1>2, <1>3, <1>7 DEF Drawn
  <1> QED
    BY <1>3, <1>6, <1>8 DEF PInv

(* Allow draws on the limiter of the address, and Refill adds to it.       *)
LEMMA BucketStep ==
    ASSUME PInv, NEW a \in Addresses, limiters[a] # None,
           NEW n \in Nat, bucket' = [bucket EXCEPT ![limiters[a]] = n],
           granted' \in [Addresses -> Nat], refilled' \in [Addresses -> Nat],
           \A b \in Addresses \ {a} :
               granted'[b] = granted[b] /\ refilled'[b] = refilled[b],
           granted'[a] + n = Burst + refilled'[a], UNCHANGED limiters
    PROVE  BucketsOK' /\ OneBucketPerAddress'
           /\ \A b \in Addresses : limiters'[b] = None => refilled'[b] = 0
  <1>0. BucketsOK /\ Drawn /\ OneBucketPerAddress
    BY DEF PInv
  <1>1. /\ limiters[a] \in 1..Len(bucket) /\ bucket' \in Seq(Nat)
        /\ Len(bucket') = Len(bucket) /\ bucket'[limiters[a]] = n
        /\ \A i \in 1..Len(bucket) : i # limiters[a] => bucket'[i] = bucket[i]
    BY <1>0 DEF BucketsOK
  <1>2. BucketsOK'
    BY <1>0, <1>1 DEF BucketsOK
  <1>3. ASSUME NEW b \in Addresses
        PROVE  IF limiters'[b] = None THEN granted'[b] = 0
               ELSE granted'[b] + bucket'[limiters'[b]] = Burst + refilled'[b]
    <2>1. CASE b = a
      BY <1>1, <2>1
    <2>2. CASE b # a
      <3>1. limiters[b] = None \/ (limiters[b] \in 1..Len(bucket)
                                   /\ limiters[b] # limiters[a])
        BY <1>0, <2>2 DEF BucketsOK, Drawn
      <3>2. granted'[b] = granted[b] /\ refilled'[b] = refilled[b]
        BY <2>2
      <3>3. limiters[b] # None => bucket'[limiters[b]] = bucket[limiters[b]]
        BY <1>1, <3>1
      <3>4. IF limiters[b] = None THEN granted[b] = 0
            ELSE granted[b] + bucket[limiters[b]] = Burst + refilled[b]
        BY <1>0 DEF OneBucketPerAddress
      <3> QED
        BY <3>2, <3>3, <3>4
    <2> QED
      BY <2>1, <2>2
  <1>4. OneBucketPerAddress'
    BY <1>3 DEF OneBucketPerAddress
  <1> QED
    BY <1>0, <1>2, <1>4 DEF Drawn

LEMMA Balance ==
    ASSUME NEW g \in Nat, NEW t \in Nat, NEW u \in Nat, NEW f \in Nat, g + t = u + f
    PROVE  (g + 1) + (t - 1) = u + f /\ g + (t + 1) = u + (f + 1)
  OBVIOUS

LEMMA AllowStep ==
    ASSUME PInv, NEW r \in Requests, Allow(r)
    PROVE  PInv'
  <1> DEFINE a == From[r]
             l == req[r].limiter
  <1>0. Told /\ BucketsOK /\ Drawn /\ OneBucketPerAddress
    BY DEF PInv
  <1>1. /\ a \in Addresses /\ l = limiters[a] /\ limiters[a] # None
        /\ UNCHANGED <<limiters, refilled>>
    BY <1>0, PluginsAssumption DEF Allow, Drawn
  <1>2. l \in 1..Len(bucket) /\ bucket[l] \in Nat
    BY <1>0, <1>1 DEF BucketsOK
  <1>3. CASE /\ bucket[l] > 0 /\ bucket' = [bucket EXCEPT ![l] = @ - 1]
             /\ granted' = [granted EXCEPT ![a] = @ + 1] /\ Becomes(r, Inward(r))
    <2> DEFINE n == bucket[l] - 1
    <2>1. n \in Nat /\ bucket' = [bucket EXCEPT ![limiters[a]] = n]
      BY <1>1, <1>2, <1>3
    <2>2. /\ granted' \in [Addresses -> Nat] /\ granted'[a] = granted[a] + 1
          /\ \A b \in Addresses \ {a} : granted'[b] = granted[b]
          /\ granted[a] \in Nat /\ refilled[a] \in Nat
          /\ refilled' \in [Addresses -> Nat]
      BY <1>0, <1>1, <1>3 DEF BucketsOK
    <2>3. granted[a] + bucket[l] = Burst + refilled[a] /\ Burst \in Nat
      BY <1>0, <1>1, PluginsAssumption DEF OneBucketPerAddress, Burst
    <2>4. (granted[a] + 1) + n = Burst + refilled[a]
      <3> DEFINE g == granted[a]
                 t == bucket[l]
                 u == Burst
                 f == refilled[a]
      <3>1. g \in Nat /\ t \in Nat /\ u \in Nat /\ f \in Nat /\ g + t = u + f
        BY <1>2, <2>2, <2>3
      <3>2. (g + 1) + (t - 1) = u + f
        <4> HIDE DEF g, t, u, f
        <4> QED
          BY <3>1, Balance
      <3> QED
        BY <3>2
    <2>5. granted'[a] + n = Burst + refilled'[a]
      BY <1>1, <2>2, <2>4
    <2>6. BucketsOK' /\ OneBucketPerAddress'
      BY <1>1, <2>1, <2>2, <2>5, BucketStep
    <2>7. /\ req' \in [Requests -> Request] /\ req'[r].pc \in {"handler", "in"}
          /\ \A s \in Requests \ {r} : req'[s] = req[s]
      BY <1>0, <1>3, NextRecord DEF Becomes, Told
    <2>8. Told' /\ Drawn'
      BY <1>0, <1>1, <2>7 DEF Told, Drawn
    <2> QED
      BY <2>6, <2>8 DEF PInv
  <1>4. CASE Becomes(r, Outward(r, 429)) /\ UNCHANGED <<bucket, granted>>
    BY <1>0, <1>1, <1>4, NextRecord, MoveOnly
  <1> QED
    BY <1>3, <1>4 DEF Allow

LEMMA RefillStep ==
    ASSUME PInv, NEW a \in Addresses, Refill(a)
    PROVE  PInv'
  <1> DEFINE l == limiters[a]
             n == bucket[l] + 1
  <1>0. Told /\ BucketsOK /\ Drawn /\ OneBucketPerAddress
    BY DEF PInv
  <1>1. /\ l # None /\ bucket' = [bucket EXCEPT ![l] = n]
        /\ refilled' = [refilled EXCEPT ![a] = @ + 1]
        /\ UNCHANGED <<limiters, req, granted>>
    BY DEF Refill
  <1>2. l \in 1..Len(bucket) /\ bucket[l] \in Nat /\ n \in Nat
    BY <1>0, <1>1 DEF BucketsOK
  <1>3. /\ refilled' \in [Addresses -> Nat] /\ refilled'[a] = refilled[a] + 1
        /\ \A b \in Addresses \ {a} : refilled'[b] = refilled[b]
        /\ refilled[a] \in Nat /\ granted' \in [Addresses -> Nat]
        /\ granted'[a] = granted[a] /\ granted[a] \in Nat
    BY <1>0, <1>1 DEF BucketsOK
  <1>4. granted[a] + bucket[l] = Burst + refilled[a] /\ Burst \in Nat
    BY <1>0, <1>1, PluginsAssumption DEF OneBucketPerAddress, Burst
  <1>5. granted'[a] + n = Burst + refilled'[a]
    <2>1. granted[a] + n = Burst + (refilled[a] + 1)
      <3> DEFINE g == granted[a]
                 t == bucket[l]
                 u == Burst
                 f == refilled[a]
      <3>1. g \in Nat /\ t \in Nat /\ u \in Nat /\ f \in Nat /\ g + t = u + f
        BY <1>2, <1>3, <1>4
      <3>2. g + (t + 1) = u + (f + 1)
        <4> HIDE DEF g, t, u, f
        <4> QED
          BY <3>1, Balance
      <3> QED
        BY <3>2
    <2> QED
      BY <1>3, <2>1
  <1>6. /\ BucketsOK' /\ OneBucketPerAddress'
        /\ \A b \in Addresses : limiters'[b] = None => refilled'[b] = 0
    BY <1>1, <1>2, <1>3, <1>5, BucketStep
  <1>7. Told' /\ Drawn'
    BY <1>0, <1>1, <1>6 DEF Told, Drawn
  <1> QED
    BY <1>6, <1>7 DEF PInv

(* The way out, through the counters.                                      *)
LEMMA UnwindStep ==
    ASSUME PInv, NEW r \in Requests, Unwind(r) \/ Counting(r)
    PROVE  PInv' /\ (MetricsNext \/ UNCHANGED metricsVars)
  <1>0. Told /\ r \in Callers
    BY PluginsAssumption DEF PInv
  <1>1. /\ req[r].pc \in {"out", "counting"}
        /\ UNCHANGED <<limiters, bucket, granted, refilled>>
    BY DEF Unwind, Counting
  <1>2. req[r] \in Request /\ req[r].status \in Nat /\ req[r].pos - 1 \in Int
    BY <1>0, <1>1 DEF Told, Request
  <1>3. MetricsNext \/ UNCHANGED metricsVars
    BY <1>0, <1>2 DEF Unwind, Counting, MetricsNext, Call, Underway, AddHTTPRequest
  <1>4. PInv'
    <2>1. CASE req' = req
      BY <1>1, <2>1 DEF PInv, Told, BucketsOK, Drawn, OneBucketPerAddress
    <2>2. CASE req' # req
      <3>1. PICK next : /\ Becomes(r, next)
                        /\ \/ next = [req[r] EXCEPT !.pc = "done"]
                           \/ next = [req[r] EXCEPT !.pos = @ - 1]
                           \/ next = [req[r] EXCEPT !.pos = @ - 1, !.pc = "counting"]
                           \/ next = [req[r] EXCEPT !.pc = "out"]
        BY <2>2 DEF Unwind, Counting
      <3>2. {"done", "counting", "out"} \subseteq Stages
        BY DEF Stages
      <3>3. /\ next \in Request /\ next.status = req[r].status
            /\ next.pc \in {"done", "counting", "out", req[r].pc}
        BY <1>2, <3>1, <3>2 DEF Request
      <3>4. next.pc # "allow"
        BY <1>1, <3>3
      <3> QED
        BY <1>1, <1>2, <3>1, <3>3, <3>4, MoveOnly
    <2> QED
      BY <2>1, <2>2
  <1> QED
    BY <1>3, <1>4

LEMMA VisitStep ==
    ASSUME PInv, NEW p \in Callers \ Requests, Visit(p) \/ Leave(p)
    PROVE  PInv' /\ MetricsNext
  <1>1. UNCHANGED <<limiters, bucket, req, granted, refilled>>
    BY DEF Visit, Leave
  <1>2. PInv'
    BY <1>1 DEF PInv, Told, BucketsOK, Drawn, OneBucketPerAddress
  <1>3. MetricsNext
    BY DEF Visit, Leave, MetricsNext, Call, Underway
  <1> QED
    BY <1>2, <1>3

LEMMA PInvStep ==
    PInv /\ [PluginsNext]_pluginVars => PInv' /\ [MetricsNext]_metricsVars
  <1> SUFFICES ASSUME PInv, [PluginsNext]_pluginVars
               PROVE  PInv' /\ (MetricsNext \/ UNCHANGED metricsVars)
    OBVIOUS
  <1>1. ASSUME NEW r \in Requests, NotFound(r) \/ Found(r) \/ ServeHTTP(r)
        PROVE  PInv' /\ (MetricsNext \/ UNCHANGED metricsVars)
    <2>1. CASE NotFound(r) \/ Found(r) \/ PassOn(r) \/ Answer(r) \/ Handle(r)
      <3>1. UNCHANGED metricsVars
        BY <2>1 DEF NotFound, Found, PassOn, Answer, Handle
      <3> QED
        BY <2>1, <3>1, RouteStep
    <2>2. CASE RateLimit(r)
      <3>1. UNCHANGED metricsVars
        BY <2>2 DEF RateLimit, LookUp, Insert, Allow
      <3> QED
        BY <2>2, <3>1, LookUpStep, InsertStep, AllowStep DEF RateLimit
    <2>3. CASE Unwind(r) \/ Counting(r)
      BY <2>3, UnwindStep
    <2> QED
      BY <1>1, <2>1, <2>2, <2>3 DEF ServeHTTP
  <1>2. ASSUME NEW p \in Callers \ Requests, Visit(p) \/ Leave(p)
        PROVE  PInv' /\ MetricsNext
    BY <1>2, VisitStep
  <1>3. ASSUME NEW a \in Addresses, Refill(a)
        PROVE  PInv' /\ UNCHANGED metricsVars
    BY <1>3, RefillStep DEF Refill
  <1>4. CASE UNCHANGED pluginVars
    <2>1. UNCHANGED <<metricsVars, limiters, bucket, req, granted, refilled>>
      BY <1>4 DEF pluginVars
    <2> QED
      BY <2>1 DEF PInv, Told, BucketsOK, Drawn, OneBucketPerAddress
  <1> QED
    BY <1>1, <1>2, <1>3, <1>4 DEF PluginsNext

-----------------------------------------------------------------------------
(* All requests of an address draw on one bucket, however many of them     *)
(* find no limiter at first: the second look under the write lock keeps    *)
(* the limiter another one has stored meanwhile.                           *)
THEOREM BucketShared == PluginsSpec => []OneBucketPerAddress
  <1>1. PInv => OneBucketPerAddress
    BY DEF PInv
  <1> QED
    BY InitPInv, PInvStep, <1>1, PTL DEF PluginsSpec

(* The chain and the visitors use the counters only through the operations *)
(* of Metrics: every behaviour of Plugins is one of Metrics.               *)
THEOREM PluginsUseMetrics == PluginsSpec => MetricsSpec
  <1>1. InitPlugins => InitMetrics
    BY DEF InitPlugins
  <1> QED
    BY <1>1, InitPInv, PInvStep, PTL DEF PluginsSpec, MetricsSpec

(* So GetStats does not divide by zero while requests are served.          *)
THEOREM ServingStatsSafe == PluginsSpec => []StatsNeverPanics
  BY PluginsUseMetrics, StatsSafe, PTL

-----------------------------------------------------------------------------
(* The journey of a request, and what the counters count.                  *)

(* Where a request may be in the chain.                                    *)
Placed(x) ==
    /\ x.pc \in {"new", "done"} => x.pos = 0
    /\ x.pc \in {"in", "insert", "allow"} => x.pos \in 1..Len(Onion)
    /\ x.pc \in {"insert", "allow"} => Onion[x.pos] = "RateLimit"
    /\ x.pc = "handler" => x.pos = Len(Onion) + 1
    /\ x.pc \in {"out", "counting"} => x.pos \in 0..Len(Onion)

(* The k-th middleware is LoggingMiddleware, the only one of the chain, and *)
(* those before it pass every request on.                                  *)
SeesAll(k) ==
    /\ k \in 1..Len(Chain) /\ Chain[k] = "Logging"
    /\ \A i \in 1..Len(Chain) :
           /\ i < k => Chain[i] \notin {"RateLimit", "CORS", "Validation"}
           /\ Chain[i] = "Logging" => i = k

LoggingSeesAll == \E k \in 1..Len(Chain) : SeesAll(k)

(* The request has come back to Logging, at k, on its way out.             *)
Past(x, k) == x.pc \in {"counting", "done"} \/ (x.pc = "out" /\ x.pos < k)

Journey(r, k) ==
    /\ at[r] \in {"free", "countError", "addDuration"}
    /\ req[r].pc # "counting" => at[r] = "free"
    /\ req[r].pc = "counting" => req[r].pos = k - 1
    /\ Past(req[r], k) => req[r].status = 404 \/ code[r] = req[r].status
    /\ r \in counted => Past(req[r], k) /\ code[r] = req[r].status

(* The calls of AddHTTPRequest that are underway, and those since the last *)
(* Reset that have counted their error.                                    *)
Pending == {p \in Callers : at[p] \in {"countError", "addDuration"}}
Failed == {p \in counted : IsError(code[p]) /\ at[p] # "countError"}
Clearing(S) == \E p \in Callers : at[p] \in S

(* Unless a Reset has cut a call in two, HttpErrors and HttpDuration have  *)
(* what the calls have come to, except between the stores of a Reset; then *)
(* no call has ended since the first store, for the lock is held.          *)
InStep ==
    /\ Pending \subseteq counted
    /\ Clearing({"errors", "duration"}) => counted \subseteq Pending
    /\ ~Clearing({"errors", "duration"}) => m.duration = Cardinality(counted \ Pending)
    /\ ~Clearing({"errors"}) => m.errors = Cardinality(Failed)

Counts ==
    /\ IsFiniteSet(counted) /\ counted \subseteq Requests
    /\ \A p \in Callers : at[p] = "countError" => IsError(code[p])
    /\ m.requests = Cardinality(counted)
    /\ ~torn => InStep

-----------------------------------------------------------------------------
(* The counters.                                                           *)

(* The sets that are counted have their sizes.                             *)
LEMMA Sizes ==
    ASSUME NEW S, IsFiniteSet(S), NEW x
    PROVE  /\ Cardinality(S) \in Nat
           /\ IsFiniteSet(S \cup {x})
           /\ x \notin S => Cardinality(S \cup {x}) = Cardinality(S) + 1
           /\ \A T \in SUBSET S : IsFiniteSet(T)
  BY FS_CardinalityType, FS_AddElement, FS_Subset

(* Who moves between places that no counter depends on changes nothing.    *)
LEMMA CountsStay ==
    ASSUME MInv, Counts, NEW p \in Callers, NEW to \in Places,
           at' = [at EXCEPT ![p] = to],
           at[p] \notin {"countError", "addDuration", "errors", "duration"},
           to \notin {"countError", "addDuration", "errors", "duration"},
           UNCHANGED <<m, code, counted, torn>>
    PROVE  Counts'
  <1>1. /\ at \in [Callers -> Places] /\ at'[p] = to
        /\ \A q \in Callers \ {p} : at'[q] = at[q]
    BY DEF MInv, MetricsTypeOK
  <1>2. Pending' = Pending
    BY <1>1 DEF Pending
  <1>3. counted \subseteq Callers
    BY PluginsAssumption DEF Counts
  <1>4. Failed' = Failed
    BY <1>1, <1>3 DEF Failed
  <1>5. Clearing({"errors", "duration"})' <=> Clearing({"errors", "duration"})
    BY <1>1 DEF Clearing
  <1>6. Clearing({"errors"})' <=> Clearing({"errors"})
    BY <1>1 DEF Clearing
  <1>7. InStep => InStep'
    BY <1>2, <1>4, <1>5, <1>6 DEF InStep
  <1>8. \A q \in Callers : at'[q] = "countError" => IsError(code'[q])
    BY <1>1 DEF Counts
  <1> QED
    BY <1>7, <1>8 DEF Counts

LEMMA CountRequestCounts ==
    ASSUME MInv, Counts, NEW r \in Requests, r \notin counted, NEW status \in Nat,
           CountRequest(r, status)
    PROVE  Counts'
  <1> DEFINE to == IF IsError(status) THEN "countError" ELSE "addDuration"
  <1>1. /\ r \in Callers /\ counted \subseteq Callers
        /\ IsFiniteSet(counted) /\ counted \subseteq Requests
    BY PluginsAssumption DEF Counts
  <1>2. /\ at[r] = "free" /\ at'[r] = to /\ \A q \in Callers \ {r} : at'[q] = at[q]
        /\ code'[r] = status /\ \A q \in Callers \ {r} : code'[q] = code[q]
        /\ counted' = counted \cup {r} /\ torn' = torn
    BY <1>1 DEF CountRequest, Move, MInv, MetricsTypeOK
  <1>3. m'.requests = m.requests + 1 /\ m'.errors = m.errors /\ m'.duration = m.duration
    BY DEF CountRequest, MInv, MetricsTypeOK
  <1>4. IsFiniteSet(counted') /\ Cardinality(counted') = Cardinality(counted) + 1
    BY <1>1, <1>2, Sizes
  <1>5. Pending' = Pending \cup {r} /\ r \notin Pending
    BY <1>1, <1>2 DEF Pending
  <1>6. counted' \ Pending' = counted \ Pending
    BY <1>2, <1>5
  <1>7. Failed' = Failed
    <2>1. r \notin Failed'
      BY <1>2 DEF Failed
    <2> QED
      BY <1>1, <1>2, <2>1 DEF Failed
  <1>8. Clearing({"errors", "duration"})' <=> Clearing({"errors", "duration"})
    BY <1>2 DEF Clearing
  <1>9. Clearing({"errors"})' <=> Clearing({"errors"})
    BY <1>2 DEF Clearing
  <1>10. InStep => InStep'
    BY <1>2, <1>3, <1>5, <1>6, <1>7, <1>8, <1>9 DEF InStep
  <1>11. \A q \in Callers : at'[q] = "countError" => IsError(code'[q])
    BY <1>2 DEF Counts
  <1> QED
    BY <1>1, <1>2, <1>3, <1>4, <1>10, <1>11 DEF Counts

LEMMA CountErrorCounts ==
    ASSUME MInv, Counts, NEW r \in Callers, CountError(r)
    PROVE  Counts'
  <1>1. IsFiniteSet(counted) /\ counted \subseteq Callers
    BY PluginsAssumption DEF Counts
  <1>2. /\ at[r] = "countError" /\ at'[r] = "addDuration"
        /\ \A q \in Callers \ {r} : at'[q] = at[q]
        /\ UNCHANGED <<code, counted, torn>>
    BY DEF CountError, Move, MInv, MetricsTypeOK
  <1>3. m'.requests = m.requests /\ m'.errors = m.errors + 1 /\ m'.duration = m.duration
    BY DEF CountError, MInv, MetricsTypeOK
  <1>4. Pending' = Pending /\ r \in Pending
    BY <1>2 DEF Pending
  <1>5. ASSUME r \in counted PROVE Cardinality(Failed') = Cardinality(Failed) + 1
    <2>1. Failed' = Failed \cup {r} /\ r \notin Failed
      BY <1>1, <1>2, <1>5 DEF Failed, Counts
    <2>2. IsFiniteSet(Failed)
      BY <1>1, FS_Subset DEF Failed
    <2> QED
      BY <2>1, <2>2, Sizes
  <1>6. Clearing({"errors", "duration"})' <=> Clearing({"errors", "duration"})
    BY <1>2 DEF Clearing
  <1>7. Clearing({"errors"})' <=> Clearing({"errors"})
    BY <1>2 DEF Clearing
  <1>8. InStep => InStep'
    BY <1>2, <1>3, <1>4, <1>5, <1>6, <1>7 DEF InStep
  <1>9. \A q \in Callers : at'[q] = "countError" => IsError(code'[q])
    BY <1>2 DEF Counts
  <1> QED
    BY <1>2, <1>3, <1>8, <1>9 DEF Counts

(* The duration is added under the lock: no Reset is underway.             *)
LEMMA AddDurationCounts ==
    ASSUME MInv, Counts, NEW r \in Callers, AddDuration(r)
    PROVE  Counts'
  <1>1. IsFiniteSet(counted) /\ counted \subseteq Callers
    BY PluginsAssumption DEF Counts
  <1>2. /\ at[r] = "addDuration" /\ at'[r] = "free" /\ writer = {}
        /\ \A q \in Callers \ {r} : at'[q] = at[q]
        /\ UNCHANGED <<code, counted, torn>>
    BY DEF AddDuration, Move, MInv, MetricsTypeOK
  <1>3. m'.requests = m.requests /\ m'.errors = m.errors /\ m'.duration = m.duration + 1
    BY DEF AddDuration, MInv, MetricsTypeOK
  <1>4. Pending' = Pending \ {r} /\ r \in Pending
    BY <1>2 DEF Pending
  <1>5. Failed' = Failed
    BY <1>1, <1>2 DEF Failed
  <1>6. ~Clearing({"errors", "duration"}) /\ ~Clearing({"errors"})
    BY <1>2 DEF Clearing, MInv, Locked
  <1>7. ~Clearing({"errors", "duration"})' /\ ~Clearing({"errors"})'
    BY <1>2, <1>6 DEF Clearing
  <1>8. ASSUME r \in counted
        PROVE  Cardinality(counted' \ Pending') = Cardinality(counted \ Pending) + 1
    <2>1. counted' \ Pending' = (counted \ Pending) \cup {r} /\ r \notin counted \ Pending
      BY <1>2, <1>4, <1>8
    <2>2. IsFiniteSet(counted \ Pending)
      BY <1>1, FS_Subset
    <2> QED
      BY <2>1, <2>2, Sizes
  <1>9. InStep => InStep'
    BY <1>2, <1>3, <1>4, <1>5, <1>6, <1>7, <1>8 DEF InStep
  <1>10. \A q \in Callers : at'[q] = "countError" => IsError(code'[q])
    BY <1>2 DEF Counts
  <1> QED
    BY <1>2, <1>3, <1>9, <1>10 DEF Counts

LEMMA ResetCounts ==
    ASSUME MInv, Counts, NEW p \in Callers, Reset(p)
    PROVE  Counts'
  <1>1. IsFiniteSet(counted) /\ counted \subseteq Callers /\ at \in [Callers -> Places]
    BY PluginsAssumption DEF Counts, MInv, MetricsTypeOK
  <1>2. \A q \in Callers \ {p} : at[q] \notin {"requests", "errors", "duration"}
    BY DEF Reset, ResetRequests, ResetErrors, ResetUnlock, Move, MInv, Locked
  <1>e. IsFiniteSet({}) /\ Cardinality({}) = 0
    BY FS_EmptySet
  <1>3. CASE ResetRequests(p)
    <2>1. /\ at[p] = "requests" /\ at'[p] = "errors" /\ \A q \in Callers \ {p} : at'[q] = at[q]
          /\ counted' = {} /\ code' = code /\ m'.requests = 0
      BY <1>1, <1>3 DEF ResetRequests, Move, MInv, MetricsTypeOK
    <2>2. ~torn' => Pending = {}
      BY <1>3 DEF ResetRequests, Pending
    <2>3. Pending' = Pending
      BY <2>1 DEF Pending
    <2>4. Clearing({"errors", "duration"})' /\ Clearing({"errors"})'
      BY <2>1 DEF Clearing
    <2>5. ~torn' => InStep'
      BY <2>1, <2>2, <2>3, <2>4 DEF InStep
    <2>6. \A q \in Callers : at'[q] = "countError" => IsError(code'[q])
      BY <2>1 DEF Counts
    <2> QED
      BY <1>e, <2>1, <2>5, <2>6 DEF Counts
  <1>4. CASE ResetErrors(p)
    <2>1. /\ at[p] = "errors" /\ at'[p] = "duration" /\ \A q \in Callers \ {p} : at'[q] = at[q]
          /\ UNCHANGED <<counted, code>> /\ m'.requests = m.requests /\ m'.errors = 0
      BY <1>1, <1>4 DEF ResetErrors, Move, MInv, MetricsTypeOK
    <2>2. Pending' = Pending
      BY <2>1 DEF Pending
    <2>3. Clearing({"errors", "duration"}) /\ Clearing({"errors", "duration"})'
      BY <2>1 DEF Clearing
    <2>4. ASSUME ~torn' PROVE InStep'
      <3>1. ~torn /\ \A q \in Callers : ~(at[q] = "addDuration" /\ IsError(code[q]))
        BY <1>4, <2>4 DEF ResetErrors
      <3>2. InStep
        BY <3>1 DEF Counts
      <3>3. counted \subseteq Pending /\ Pending \subseteq counted
        BY <2>3, <3>2 DEF InStep
      <3>4. Failed' = {}
        BY <1>1, <2>1, <3>1, <3>3 DEF Failed, Pending
      <3> QED
        BY <1>e, <2>1, <2>2, <2>3, <3>3, <3>4 DEF InStep
    <2>5. \A q \in Callers : at'[q] = "countError" => IsError(code'[q])
      BY <2>1 DEF Counts
    <2> QED
      BY <2>1, <2>4, <2>5 DEF Counts
  <1>5. CASE ResetUnlock(p)
    <2>1. /\ at[p] = "duration" /\ at'[p] = "free" /\ \A q \in Callers \ {p} : at'[q] = at[q]
          /\ UNCHANGED <<counted, code, torn>> /\ m'.requests = m.requests
          /\ m'.errors = m.errors /\ m'.duration = 0
      BY <1>1, <1>5 DEF ResetUnlock, Move, MInv, MetricsTypeOK
    <2>2. Pending' = Pending
      BY <2>1 DEF Pending
    <2>3. Failed' = Failed
      BY <1>1, <2>1 DEF Failed
    <2>4. Clearing({"errors", "duration"}) /\ ~Clearing({"errors"})
      BY <1>2, <2>1 DEF Clearing
    <2>5. ~Clearing({"errors", "duration"})' /\ ~Clearing({"errors"})'
      BY <1>2, <2>1 DEF Clearing
    <2>6. ASSUME InStep PROVE InStep'
      <3>1. counted' \ Pending' = {}
        BY <2>1, <2>2, <2>4, <2>6 DEF InStep
      <3> QED
        BY <1>e, <2>1, <2>2, <2>3, <2>4, <2>5, <2>6, <3>1 DEF InStep
    <2>7. \A q \in Callers : at'[q] = "countError" => IsError(code'[q])
      BY <2>1 DEF Counts
    <2> QED
      BY <2>1, <2>6, <2>7 DEF Counts
  <1> QED
    BY <1>3, <1>4, <1>5 DEF Reset

-----------------------------------------------------------------------------
(* What a step of a request makes of its record x: the router refuses or   *)
(* admits it, a middleware passes it on, turns it round or looks for its   *)
(* limiter, and on its way out it leaves a middleware or is counted.       *)

Refused(x, y) == x.pc = "new" /\ y.pc = "done" /\ y.pos = x.pos /\ y.status = 404
Enters(x, y) ==
    /\ x.pc \in {"new", "in", "allow"}
    /\ y.pc = (IF x.pos = Len(Onion) THEN "handler" ELSE "in")
    /\ y.pos = x.pos + 1 /\ y.status = x.status
Turns(x, y) ==
    /\ \/ x.pc \in {"allow", "handler"}
       \/ x.pc = "in" /\ Onion[x.pos] \in {"CORS", "Validation"}
    /\ y.pc = "out" /\ y.pos = x.pos - 1 /\ y.status \in {200, 413, 429, 500}
Limits(x, y) ==
    /\ x.pc \in {"in", "insert"} /\ Onion[x.pos] = "RateLimit"
    /\ y.pc \in {"insert", "allow"} /\ y.pos = x.pos /\ y.status = x.status
Leaves(x, y) ==
    x.pc = "out" /\ x.pos = 0 /\ y.pc = "done" /\ y.pos = x.pos /\ y.status = x.status
Backs(x, y) ==
    /\ x.pc = "out" /\ x.pos > 0 /\ Onion[x.pos] # "Logging"
    /\ y.pc = "out" /\ y.pos = x.pos - 1 /\ y.status = x.status
Logs(x, y) ==
    /\ x.pc = "out" /\ x.pos > 0 /\ Onion[x.pos] = "Logging"
    /\ y.pc = "counting" /\ y.pos = x.pos - 1 /\ y.status = x.status
Resumes(x, y) ==
    x.pc = "counting" /\ y.pc = "out" /\ y.pos = x.pos /\ y.status = x.status

(* The moves that have nothing to do with the counters.                    *)
Walks(x, y) == Refused(x, y) \/ Enters(x, y) \/ Turns(x, y) \/ Limits(x, y)

Statuses == {None, 200, 404, 413, 429, 500}

Chained ==
    /\ \A r \in Requests :
           /\ Placed(req[r]) /\ req[r].status \in Statuses
           /\ req[r].limiter \in 1..Len(bucket) \cup {None}
    /\ bucket \in Seq(0..Burst)
    /\ visitors \subseteq Callers

LEMMA PlacedStep ==
    ASSUME NEW x \in Request, NEW y \in Request, Placed(x), x.status \in Statuses,
           \/ Walks(x, y) \/ Leaves(x, y) \/ Backs(x, y) \/ Logs(x, y) \/ Resumes(x, y),
           Len(Onion) \in Nat
    PROVE  Placed(y) /\ y.status \in Statuses
  <1>0. x.pos \in Int /\ Len(Onion) \in Nat
    BY DEF Request
  <1>1. y.status \in Statuses
    BY DEF Walks, Refused, Enters, Turns, Limits, Leaves, Backs, Logs, Resumes, Statuses
  <1> SUFFICES Placed(y)
    BY <1>1
  <1>2. CASE Refused(x, y)
    BY <1>0, <1>2 DEF Refused, Placed
  <1>3. CASE Enters(x, y)
    <2>1. x.pos \in 0..Len(Onion)
      BY <1>0, <1>3 DEF Enters, Placed
    <2>2. CASE x.pos = Len(Onion)
      BY <1>0, <1>3, <2>2 DEF Enters, Placed
    <2>3. CASE x.pos # Len(Onion)
      BY <1>0, <1>3, <2>1, <2>3 DEF Enters, Placed
    <2> QED
      BY <2>2, <2>3
  <1>4. CASE Turns(x, y)
    <2>1. x.pos \in 1..(Len(Onion) + 1)
      BY <1>0, <1>4 DEF Turns, Placed
    <2> QED
      BY <1>0, <1>4, <2>1 DEF Turns, Placed
  <1>5. CASE Limits(x, y)
    BY <1>0, <1>5 DEF Limits, Placed
  <1>6. CASE Leaves(x, y) \/ Resumes(x, y)
    BY <1>0, <1>6 DEF Leaves, Resumes, Placed
  <1>7. CASE Backs(x, y) \/ Logs(x, y)
    <2>1. x.pos \in 1..Len(Onion) /\ y.pc \in {"out", "counting"} /\ y.pos = x.pos - 1
      BY <1>0, <1>7 DEF Backs, Logs, Placed
    <2>2. y.pos \in 0..Len(Onion)
      BY <1>0, <2>1
    <2> QED
      BY <2>1, <2>2 DEF Placed
  <1> QED
    BY <1>2, <1>3, <1>4, <1>5, <1>6, <1>7 DEF Walks

LEMMA OnionType == Onion = Chain /\ Len(Onion) \in Nat
  <1>1. Chain \in Seq({"Tracing", "Logging", "RateLimit", "Security", "CORS",
                       "Compression", "Validation"})
    BY PluginsAssumption
  <1> QED
    BY <1>1, ThenKeepsOrder, LenProperties DEF Onion

LEMMA Moved ==
    ASSUME Told, NEW r \in Requests, NEW next, Becomes(r, next)
    PROVE  req'[r] = next /\ \A s \in Requests \ {r} : req'[s] = req[s]
  BY DEF Told, Becomes

LEMMA InwardFields ==
    ASSUME Told, NEW r \in Requests, req[r].pc \in {"new", "in", "allow"}
    PROVE  Enters(req[r], Inward(r)) /\ Inward(r).limiter = req[r].limiter
  <1> DEFINE n == req[r].pos + 1
             stage == IF req[r].pos = Len(Onion) THEN "handler" ELSE "in"
  <1>1. req[r] \in Request /\ n \in Int /\ stage \in Stages
    BY DEF Told, Request, Stages
  <1>2. Inward(r) = [req[r] EXCEPT !.pos = n, !.pc = stage]
    BY DEF Inward
  <1>3. LET y == [req[r] EXCEPT !.pos = n, !.pc = stage]
        IN  y.pc = stage /\ y.pos = n /\ y.limiter = req[r].limiter /\ y.status = req[r].status
    <2> HIDE DEF n, stage
    <2> QED
      BY <1>1 DEF Request
  <1> QED
    BY <1>2, <1>3 DEF Enters

LEMMA OutwardFields ==
    ASSUME Told, NEW r \in Requests, NEW status \in Nat
    PROVE  /\ Outward(r, status).pc = "out" /\ Outward(r, status).pos = req[r].pos - 1
           /\ Outward(r, status).status = status /\ Outward(r, status).limiter = req[r].limiter
  <1> DEFINE n == req[r].pos - 1
  <1>1. req[r] \in Request /\ n \in Int /\ "out" \in Stages
    BY DEF Told, Request, Stages
  <1>2. Outward(r, status) = [req[r] EXCEPT !.pos = n, !.pc = "out", !.status = status]
    BY DEF Outward
  <1> HIDE DEF n
  <1>3. LET y == [req[r] EXCEPT !.pos = n, !.pc = "out", !.status = status]
        IN  y.pc = "out" /\ y.pos = n /\ y.limiter = req[r].limiter /\ y.status = status
    BY <1>1 DEF Request
  <1> QED
    BY <1>2, <1>3 DEF n

LEMMA WalkStep ==
    ASSUME PInv, Chained, NEW r \in Requests,
           NotFound(r) \/ Found(r) \/ PassOn(r) \/ Answer(r) \/ Handle(r) \/ RateLimit(r)
    PROVE  /\ Walks(req[r], req'[r])
           /\ \A s \in Requests \ {r} : req'[s] = req[s]
           /\ UNCHANGED <<metricsVars, visitors>>
           /\ req'[r].limiter \in 1..Len(bucket') \cup {None}
           /\ bucket' \in Seq(0..Burst) /\ Len(bucket) \in Nat
           /\ Len(bucket') \in {Len(bucket), Len(bucket) + 1}
  <1>0. /\ Told /\ BucketsOK /\ Drawn /\ req[r] \in Request /\ From[r] \in Addresses
        /\ req[r].limiter \in 1..Len(bucket) \cup {None} /\ bucket \in Seq(0..Burst)
        /\ Burst \in Nat /\ Placed(req[r]) /\ Len(bucket) \in Nat
    <2>1. Told /\ BucketsOK /\ Drawn /\ From[r] \in Addresses /\ Burst \in Nat
      BY PluginsAssumption DEF PInv, Burst
    <2>2. /\ req[r].limiter \in 1..Len(bucket) \cup {None} /\ bucket \in Seq(0..Burst)
          /\ Placed(req[r])
      BY DEF Chained
    <2> QED
      BY <2>1, <2>2, LenProperties DEF Told
  <1>1. CASE NotFound(r)
    <2> DEFINE stage == "done"
               answer == 404
               y == [req[r] EXCEPT !.pc = stage, !.status = answer]
    <2>1. Becomes(r, y) /\ UNCHANGED <<metricsVars, visitors, bucket>> /\ req[r].pc = "new"
      BY <1>1 DEF NotFound
    <2>2. req'[r] = y /\ \A s \in Requests \ {r} : req'[s] = req[s]
      BY <1>0, <2>1, Moved
    <2>3. stage \in Stages /\ answer \in Nat \cup {None}
      BY DEF Stages
    <2>4. y.pc = stage /\ y.pos = req[r].pos /\ y.limiter = req[r].limiter /\ y.status = answer
      <3> HIDE DEF stage, answer
      <3> QED
        BY <1>0, <2>3 DEF Request
    <2>5. Refused(req[r], req'[r])
      BY <2>1, <2>2, <2>4 DEF Refused
    <2> QED
      BY <1>0, <2>1, <2>2, <2>4, <2>5 DEF Walks
  <1>2. CASE Found(r) \/ PassOn(r)
    <2>1. /\ Becomes(r, Inward(r)) /\ UNCHANGED <<metricsVars, visitors, bucket>>
          /\ req[r].pc \in {"new", "in"}
      BY <1>2 DEF Found, PassOn, InAt
    <2>2. Enters(req[r], Inward(r)) /\ Inward(r).limiter = req[r].limiter
      BY <1>0, <2>1, InwardFields
    <2>3. req'[r] = Inward(r) /\ \A s \in Requests \ {r} : req'[s] = req[s]
      BY <1>0, <2>1, Moved
    <2> QED
      BY <1>0, <2>1, <2>2, <2>3 DEF Walks
  <1>3. CASE Answer(r) \/ Handle(r)
    <2>1. PICK status \in {200, 413, 500} :
              Becomes(r, Outward(r, status)) /\ UNCHANGED <<metricsVars, visitors, bucket>>
      BY <1>3 DEF Answer, Handle
    <2>2. \/ req[r].pc = "handler"
          \/ req[r].pc = "in" /\ Onion[req[r].pos] \in {"CORS", "Validation"}
      BY <1>3 DEF Answer, Handle, InAt
    <2>3. req'[r] = Outward(r, status) /\ \A s \in Requests \ {r} : req'[s] = req[s]
      BY <1>0, <2>1, Moved
    <2>4. /\ Outward(r, status).pc = "out" /\ Outward(r, status).pos = req[r].pos - 1
          /\ Outward(r, status).status = status /\ Outward(r, status).limiter = req[r].limiter
      BY <1>0, OutwardFields
    <2>5. Turns(req[r], req'[r])
      BY <2>2, <2>3, <2>4 DEF Turns
    <2> QED
      BY <1>0, <2>1, <2>3, <2>4, <2>5 DEF Walks
  <1>4. CASE LookUp(r)
    <2> DEFINE l == limiters[From[r]]
               stage == IF l = None THEN "insert" ELSE "allow"
               y == [req[r] EXCEPT !.limiter = l, !.pc = stage]
    <2>1. /\ Becomes(r, y) /\ UNCHANGED <<metricsVars, visitors, bucket>>
          /\ req[r].pc = "in" /\ Onion[req[r].pos] = "RateLimit"
      BY <1>4 DEF LookUp, InAt
    <2>2. stage \in {"insert", "allow"} /\ stage \in Stages /\ l \in 1..Len(bucket) \cup {None}
      BY <1>0 DEF Stages, BucketsOK
    <2>3. req'[r] = y /\ \A s \in Requests \ {r} : req'[s] = req[s]
      BY <1>0, <2>1, Moved
    <2>4. y.pc = stage /\ y.pos = req[r].pos /\ y.limiter = l /\ y.status = req[r].status
      <3> HIDE DEF stage, l
      <3> QED
        BY <1>0, <2>2 DEF Request
    <2>5. Limits(req[r], req'[r])
      BY <2>1, <2>2, <2>3, <2>4 DEF Limits
    <2> QED
      BY <1>0, <2>1, <2>2, <2>3, <2>4, <2>5 DEF Walks
  <1>5. CASE Insert(r)
    <2> DEFINE l == limiters'[From[r]]
               stage == "allow"
               y == [req[r] EXCEPT !.limiter = l, !.pc = stage]
    <2>1. Becomes(r, y) /\ UNCHANGED <<metricsVars, visitors>> /\ req[r].pc = "insert"
      BY <1>5 DEF Insert
    <2>2. /\ bucket' \in Seq(0..Burst) /\ Len(bucket') \in {Len(bucket), Len(bucket) + 1}
          /\ l \in 1..Len(bucket')
      <3>1. CASE limiters[From[r]] = None
        <4>1. /\ bucket' = Append(bucket, Burst)
              /\ limiters' = [limiters EXCEPT ![From[r]] = Len(bucket) + 1]
          BY <1>5, <3>1 DEF Insert
        <4>2. l = Len(bucket) + 1
          BY <1>0, <4>1 DEF BucketsOK
        <4>3. bucket' \in Seq(0..Burst) /\ Len(bucket') = Len(bucket) + 1
          <5>1. Burst \in 0..Burst
            BY <1>0
          <5> QED
            BY <1>0, <4>1, <5>1, AppendProperties
        <4> QED
          BY <1>0, <4>2, <4>3
      <3>2. CASE limiters[From[r]] # None
        BY <1>0, <1>5, <3>2 DEF Insert, BucketsOK
      <3> QED
        BY <3>1, <3>2
    <2>3. req'[r] = y /\ \A s \in Requests \ {r} : req'[s] = req[s]
      BY <1>0, <2>1, Moved
    <2>4. y.pc = stage /\ y.pos = req[r].pos /\ y.limiter = l /\ y.status = req[r].status
      <3>1. stage \in Stages
        BY DEF Stages
      <3> HIDE DEF stage, l
      <3> QED
        BY <1>0, <3>1 DEF Request
    <2>5. Limits(req[r], req'[r])
      BY <1>0, <2>1, <2>3, <2>4 DEF Limits, Placed
    <2> HIDE DEF y, l
    <2> QED
      BY <1>0, <2>1, <2>2, <2>3, <2>4, <2>5 DEF Walks
  <1>6. CASE Allow(r)
    <2> DEFINE l == req[r].limiter
    <2>0. l \in 1..Len(bucket) /\ bucket[l] \in 0..Burst /\ req[r].pc = "allow"
          /\ UNCHANGED <<metricsVars, visitors>>
      <3>1. req[r].pc = "allow" /\ l # None /\ UNCHANGED <<metricsVars, visitors>>
        BY <1>0, <1>6 DEF Allow, Drawn
      <3> QED
        BY <1>0, <3>1
    <2>1. CASE /\ bucket[l] > 0 /\ bucket' = [bucket EXCEPT ![l] = bucket[l] - 1]
               /\ Becomes(r, Inward(r))
      <3>1. bucket' \in Seq(0..Burst) /\ Len(bucket') = Len(bucket)
        <4>1. bucket[l] - 1 \in 0..Burst
          BY <1>0, <2>0, <2>1
        <4> QED
          BY <1>0, <2>0, <2>1, <4>1, ExceptSeq
      <3>2. Enters(req[r], Inward(r)) /\ Inward(r).limiter = req[r].limiter
        BY <1>0, <2>0, InwardFields
      <3>3. req'[r] = Inward(r) /\ \A s \in Requests \ {r} : req'[s] = req[s]
        BY <1>0, <2>1, Moved
      <3> QED
        BY <1>0, <2>0, <3>1, <3>2, <3>3 DEF Walks
    <2>2. CASE Becomes(r, Outward(r, 429)) /\ UNCHANGED bucket
      <3>1. req'[r] = Outward(r, 429) /\ \A s \in Requests \ {r} : req'[s] = req[s]
        BY <1>0, <2>2, Moved
      <3>2. /\ Outward(r, 429).pc = "out" /\ Outward(r, 429).pos = req[r].pos - 1
            /\ Outward(r, 429).status = 429 /\ Outward(r, 429).limiter = req[r].limiter
        BY <1>0, OutwardFields
      <3>3. Turns(req[r], req'[r])
        BY <2>0, <3>1, <3>2 DEF Turns
      <3> QED
        BY <1>0, <2>0, <2>2, <3>1, <3>2, <3>3 DEF Walks
    <2> QED
      BY <1>6, <2>1, <2>2 DEF Allow
  <1> QED
    BY <1>1, <1>2, <1>3, <1>4, <1>5, <1>6 DEF RateLimit

LEMMA ExitStep ==
    ASSUME PInv, Chained, NEW r \in Requests, Unwind(r) \/ Counting(r)
    PROVE  /\ \/ Leaves(req[r], req'[r]) /\ UNCHANGED metricsVars
              \/ Backs(req[r], req'[r]) /\ UNCHANGED metricsVars
              \/ Logs(req[r], req'[r]) /\ CountRequest(r, req[r].status)
              \/ req[r].pc = "counting" /\ req' = req /\ CountError(r)
              \/ Resumes(req[r], req'[r]) /\ AddDuration(r)
           /\ \A s \in Requests \ {r} : req'[s] = req[s]
           /\ UNCHANGED <<visitors, bucket>>
           /\ req'[r].limiter = req[r].limiter /\ req[r].status \in Nat
  <1> DEFINE n == req[r].pos - 1
  <1>0. Told /\ req[r] \in Request /\ req[r].status \in Nat /\ n \in Int
    BY DEF PInv, Told, Unwind, Counting, Request
  <1>1. UNCHANGED <<visitors, bucket>>
    BY DEF Unwind, Counting
  <1>2. {"done", "out", "counting"} \subseteq Stages
    BY DEF Stages
  <1> DEFINE back == [req[r] EXCEPT !.pos = n]
             noted == [back EXCEPT !.pc = "counting"]
             done == [req[r] EXCEPT !.pc = "done"]
             out == [req[r] EXCEPT !.pc = "out"]
  <1>3. /\ back.pc = req[r].pc /\ back.pos = n /\ back.limiter = req[r].limiter
        /\ back.status = req[r].status
    <2> HIDE DEF n
    <2> QED
      BY <1>0 DEF Request
  <1>4. /\ noted.pc = "counting" /\ noted.pos = n /\ noted.limiter = req[r].limiter
        /\ noted.status = req[r].status
    <2> HIDE DEF n
    <2> QED
      BY <1>0 DEF Request
  <1>5. /\ done.pc = "done" /\ done.pos = req[r].pos /\ done.limiter = req[r].limiter
        /\ done.status = req[r].status
    BY <1>0 DEF Request
  <1>6. /\ out.pc = "out" /\ out.pos = req[r].pos /\ out.limiter = req[r].limiter
        /\ out.status = req[r].status
    BY <1>0 DEF Request
  <1>7. \/ /\ req[r].pc = "out" /\ req[r].pos = 0 /\ Becomes(r, done) /\ UNCHANGED metricsVars
        \/ /\ req[r].pc = "out" /\ req[r].pos > 0 /\ Onion[req[r].pos] # "Logging"
           /\ Becomes(r, back) /\ UNCHANGED metricsVars
        \/ /\ req[r].pc = "out" /\ req[r].pos > 0 /\ Onion[req[r].pos] = "Logging"
           /\ Becomes(r, noted) /\ CountRequest(r, req[r].status)
        \/ req[r].pc = "counting" /\ UNCHANGED req /\ CountError(r)
        \/ req[r].pc = "counting" /\ Becomes(r, out) /\ AddDuration(r)
    BY DEF Unwind, Counting
  <1> HIDE DEF back, noted, done, out
  <1>8. CASE /\ req[r].pc = "out" /\ req[r].pos = 0 /\ Becomes(r, done)
             /\ UNCHANGED metricsVars
    <2>1. req'[r] = done /\ \A s \in Requests \ {r} : req'[s] = req[s]
      BY <1>0, <1>8, Moved
    <2> QED
      BY <1>0, <1>1, <1>5, <1>8, <2>1 DEF Leaves
  <1>9. CASE /\ req[r].pc = "out" /\ req[r].pos > 0 /\ Onion[req[r].pos] # "Logging"
             /\ Becomes(r, back) /\ UNCHANGED metricsVars
    <2>1. req'[r] = back /\ \A s \in Requests \ {r} : req'[s] = req[s]
      BY <1>0, <1>9, Moved
    <2> QED
      BY <1>0, <1>1, <1>3, <1>9, <2>1 DEF Backs
  <1>10. CASE /\ req[r].pc = "out" /\ req[r].pos > 0 /\ Onion[req[r].pos] = "Logging"
              /\ Becomes(r, noted) /\ CountRequest(r, req[r].status)
    <2>1. req'[r] = noted /\ \A s \in Requests \ {r} : req'[s] = req[s]
      BY <1>0, <1>10, Moved
    <2> QED
      BY <1>0, <1>1, <1>4, <1>10, <2>1 DEF Logs
  <1>11. CASE req[r].pc = "counting" /\ UNCHANGED req /\ CountError(r)
    BY <1>0, <1>1, <1>11
  <1>12. CASE req[r].pc = "counting" /\ Becomes(r, out) /\ AddDuration(r)
    <2>1. req'[r] = out /\ \A s \in Requests \ {r} : req'[s] = req[s]
      BY <1>0, <1>12, Moved
    <2> QED
      BY <1>0, <1>1, <1>6, <1>12, <2>1 DEF Resumes
  <1> QED
    BY <1>7, <1>8, <1>9, <1>10, <1>11, <1>12

(* One request moves, or none: the shape of the requests stays.            *)
LEMMA ChainedMove ==
    ASSUME Told', Chained, NEW r \in Requests, Placed(req'[r]), req'[r].status \in Statuses,
           \A s \in Requests \ {r} : req'[s] = req[s],
           req'[r].limiter \in 1..Len(bucket') \cup {None},
           bucket' \in Seq(0..Burst), Len(bucket) \in Nat,
           Len(bucket') \in {Len(bucket), Len(bucket) + 1},
           visitors' \subseteq Callers
    PROVE  Chained'
  <1>1. ASSUME NEW s \in Requests
        PROVE  /\ Placed(req'[s]) /\ req'[s].status \in Statuses
               /\ req'[s].limiter \in 1..Len(bucket') \cup {None}
    <2>1. CASE s = r
      BY <2>1
    <2>2. CASE s # r
      <3>1. /\ req'[s] = req[s] /\ Placed(req[s]) /\ req[s].status \in Statuses
            /\ req[s].limiter \in 1..Len(bucket) \cup {None}
        BY <2>2 DEF Chained
      <3>2. 1..Len(bucket) \subseteq 1..Len(bucket')
        OBVIOUS
      <3> QED
        BY <3>1, <3>2
    <2> QED
      BY <2>1, <2>2
  <1>2. \A s \in Requests : Placed(req[s])' <=> Placed(req'[s])
    BY DEF Placed
  <1> QED
    BY <1>1, <1>2 DEF Chained

LEMMA ChainedStep ==
    ASSUME PInv, PInv', Chained, [PluginsNext]_pluginVars
    PROVE  Chained'
  <1>0. Told /\ Told' /\ Len(Onion) \in Nat
    BY OnionType DEF PInv
  <1>1. ASSUME NEW r \in Requests, NotFound(r) \/ Found(r) \/ ServeHTTP(r)
        PROVE  Chained'
    <2>0. /\ req[r] \in Request /\ req'[r] \in Request /\ Placed(req[r])
          /\ req[r].status \in Statuses /\ req[r].limiter \in 1..Len(bucket) \cup {None}
          /\ bucket \in Seq(0..Burst) /\ visitors \subseteq Callers
      BY <1>0 DEF Told, Chained
    <2>1. CASE NotFound(r) \/ Found(r) \/ PassOn(r) \/ Answer(r) \/ Handle(r) \/ RateLimit(r)
      <3>1. /\ Walks(req[r], req'[r])
            /\ \A s \in Requests \ {r} : req'[s] = req[s]
            /\ UNCHANGED visitors
            /\ req'[r].limiter \in 1..Len(bucket') \cup {None}
            /\ bucket' \in Seq(0..Burst) /\ Len(bucket) \in Nat
            /\ Len(bucket') \in {Len(bucket), Len(bucket) + 1}
        BY <2>1, WalkStep
      <3>2. Placed(req'[r]) /\ req'[r].status \in Statuses
        BY <1>0, <2>0, <3>1, PlacedStep
      <3> QED
        BY <1>0, <2>0, <3>1, <3>2, ChainedMove
    <2>2. CASE Unwind(r) \/ Counting(r)
      <3>1. /\ \/ Leaves(req[r], req'[r]) \/ Backs(req[r], req'[r]) \/ Logs(req[r], req'[r])
               \/ Resumes(req[r], req'[r]) \/ req' = req
            /\ \A s \in Requests \ {r} : req'[s] = req[s]
            /\ UNCHANGED <<visitors, bucket>>
            /\ req'[r].limiter = req[r].limiter
        BY <2>2, ExitStep
      <3>2. Placed(req'[r]) /\ req'[r].status \in Statuses
        <4>1. CASE req' = req
          BY <2>0, <4>1
        <4>2. CASE req' # req
          BY <1>0, <2>0, <3>1, <4>2, PlacedStep
        <4> QED
          BY <4>1, <4>2
      <3>3. Len(bucket) \in Nat
        BY <2>0, LenProperties
      <3> QED
        BY <1>0, <2>0, <3>1, <3>2, <3>3, ChainedMove
    <2> QED
      BY <1>1, <2>1, <2>2 DEF ServeHTTP
  <1>s. ASSUME UNCHANGED req, bucket' \in Seq(0..Burst), Len(bucket') = Len(bucket),
               visitors' \subseteq Callers
        PROVE  Chained'
    BY <1>s DEF Chained, Placed
  <1>b. bucket \in Seq(0..Burst) /\ visitors \subseteq Callers
    BY DEF Chained
  <1>2. ASSUME NEW p \in Callers \ Requests, Visit(p) \/ Leave(p)
        PROVE  Chained'
    BY <1>2, <1>s, <1>b DEF Visit, Leave
  <1>3. ASSUME NEW a \in Addresses, Refill(a)
        PROVE  Chained'
    <2> DEFINE l == limiters[a]
               n == bucket[l] + 1
    <2>1. /\ l # None /\ bucket[l] < Burst /\ bucket' = [bucket EXCEPT ![l] = n]
          /\ UNCHANGED <<req, visitors>>
      BY <1>3 DEF Refill
    <2>2. l \in 1..Len(bucket)
      BY <2>1 DEF PInv, BucketsOK
    <2>3. n \in 0..Burst
      <3>1. bucket[l] \in 0..Burst /\ Burst \in Nat
        BY <1>b, <2>2, PluginsAssumption DEF Burst
      <3> QED
        BY <2>1, <3>1
    <2>4. bucket' \in Seq(0..Burst) /\ Len(bucket') = Len(bucket)
      <3> HIDE DEF n, l
      <3> QED
        BY <1>b, <2>1, <2>2, <2>3, ExceptSeq
    <2> QED
      BY <1>s, <1>b, <2>1, <2>4
  <1>4. CASE UNCHANGED pluginVars
    BY <1>4, <1>s, <1>b DEF pluginVars
  <1> QED
    BY <1>1, <1>2, <1>3, <1>4 DEF PluginsNext

LEMMA InitChained == InitPlugins => Chained
  <1> SUFFICES ASSUME InitPlugins PROVE Chained
    OBVIOUS
  <1>1. ASSUME NEW r \in Requests
        PROVE  /\ Placed(req[r]) /\ req[r].status \in Statuses
               /\ req[r].limiter \in 1..Len(bucket) \cup {None}
    BY DEF InitPlugins, Placed, Statuses
  <1> QED
    BY <1>1 DEF InitPlugins, Chained

-----------------------------------------------------------------------------
(* The journey through Logging.                                            *)

Journeys(k) == \A r \in Requests : Journey(r, k)

LEMMA InitCounts ==
    ASSUME InitPlugins, NEW k PROVE Counts /\ Journeys(k)
  <1>1. /\ \A p \in Callers : at[p] = "free"
        /\ counted = {} /\ m = [requests |-> 0, errors |-> 0, duration |-> 0]
        /\ \A r \in Requests : req[r].pc = "new"
    BY DEF InitPlugins, InitMetrics
  <1>2. Pending = {} /\ Failed = {} /\ \A S : Clearing(S) => "free" \in S
    BY <1>1 DEF Pending, Failed, Clearing
  <1>3. IsFiniteSet({}) /\ Cardinality({}) = 0
    BY FS_EmptySet
  <1>4. InStep
    BY <1>1, <1>2, <1>3 DEF InStep
  <1>5. Counts
    BY <1>1, <1>3, <1>4 DEF Counts
  <1>6. Journeys(k)
    BY <1>1, PluginsAssumption DEF Journeys, Journey, Past
  <1> QED
    BY <1>5, <1>6

(* A request that nobody moves, while its own part of Metrics stays.       *)
LEMMA JourneyStays ==
    ASSUME NEW k, NEW s \in Requests, Journey(s, k), req'[s] = req[s], at'[s] = at[s],
           code'[s] = code[s], s \in counted' => s \in counted
    PROVE  Journey(s, k)'
  BY DEF Journey, Past

(* Whoever answers is further inside than Logging.                         *)
LEMMA WalkJourney ==
    ASSUME NEW k, SeesAll(k), NEW r \in Requests, Journey(r, k), Placed(req[r]),
           req[r] \in Request, Walks(req[r], req'[r]), UNCHANGED <<at, code, counted>>
    PROVE  Journey(r, k)'
  <1>0. /\ Onion = Chain /\ Len(Chain) \in Nat /\ req[r].pos \in Int /\ k \in 1..Len(Chain)
    BY OnionType DEF Request, SeesAll
  <1>1. req[r].pc \in {"new", "in", "insert", "allow", "handler"}
    BY DEF Walks, Refused, Enters, Turns, Limits
  <1>2. r \notin counted /\ at[r] = "free"
    BY <1>1 DEF Journey, Past
  <1>3. CASE Refused(req[r], req'[r])
    BY <1>2, <1>3 DEF Refused, Journey, Past
  <1>4. CASE Enters(req[r], req'[r]) \/ Limits(req[r], req'[r])
    <2>1. req'[r].pc \in {"in", "handler", "insert", "allow"}
      BY <1>4 DEF Enters, Limits
    <2> QED
      BY <1>2, <2>1 DEF Journey, Past
  <1>5. CASE Turns(req[r], req'[r])
    <2>1. req[r].pos > k
      <3>1. CASE req[r].pc = "handler"
        BY <1>0, <3>1 DEF Placed
      <3>2. CASE req[r].pc # "handler"
        <4>1. /\ req[r].pos \in 1..Len(Chain)
              /\ Chain[req[r].pos] \in {"RateLimit", "CORS", "Validation"}
          BY <1>0, <1>5, <3>2 DEF Turns, Placed
        <4>2. ~(req[r].pos < k) /\ req[r].pos # k
          BY <4>1 DEF SeesAll
        <4> QED
          BY <1>0, <4>2
      <3> QED
        BY <3>1, <3>2
    <2>2. req'[r].pc = "out" /\ ~(req'[r].pos < k)
      BY <1>0, <1>5, <2>1 DEF Turns
    <2> QED
      BY <1>2, <2>2 DEF Journey, Past
  <1> QED
    BY <1>3, <1>4, <1>5 DEF Walks

(* On its way out a request is counted where Logging is, and only there.   *)
LEMMA ExitJourney ==
    ASSUME NEW k, SeesAll(k), NEW r \in Requests, Journey(r, k), Placed(req[r]),
           req[r] \in Request, MInv,
           \/ Leaves(req[r], req'[r]) /\ UNCHANGED metricsVars
           \/ Backs(req[r], req'[r]) /\ UNCHANGED metricsVars
           \/ Logs(req[r], req'[r]) /\ CountRequest(r, req[r].status)
           \/ req[r].pc = "counting" /\ req' = req /\ CountError(r)
           \/ Resumes(req[r], req'[r]) /\ AddDuration(r)
    PROVE  /\ Journey(r, k)'
           /\ Logs(req[r], req'[r]) => r \notin counted
  <1>0. /\ Onion = Chain /\ Len(Chain) \in Nat /\ req[r].pos \in Int /\ k \in 1..Len(Chain)
        /\ r \in Callers /\ at \in [Callers -> Places] /\ code \in [Callers -> Nat]
    BY OnionType, PluginsAssumption DEF Request, SeesAll, MInv, MetricsTypeOK
  <1>1. CASE Leaves(req[r], req'[r]) /\ UNCHANGED metricsVars
    <2>1. req[r].pc = "out" /\ req[r].pos < k /\ Past(req[r], k)
      BY <1>0, <1>1 DEF Leaves, Past
    <2> QED
      BY <1>1, <2>1 DEF Leaves, Logs, metricsVars, Journey, Past
  <1>2. CASE Backs(req[r], req'[r]) /\ UNCHANGED metricsVars
    <2>1. req[r].pos # k
      BY <1>0, <1>2 DEF Backs, SeesAll
    <2>2. req[r].pos - 1 < k <=> req[r].pos < k
      BY <1>0, <2>1
    <2>3. Past(req'[r], k) <=> Past(req[r], k)
      BY <1>2, <2>2 DEF Backs, Past
    <2>4. /\ req'[r].pc # "counting" /\ req[r].pc # "counting"
          /\ req'[r].status = req[r].status /\ UNCHANGED <<at, code, counted>>
          /\ ~Logs(req[r], req'[r])
      BY <1>2 DEF Backs, Logs, metricsVars
    <2> QED
      BY <2>3, <2>4 DEF Journey, Past
  <1>3. CASE Logs(req[r], req'[r]) /\ CountRequest(r, req[r].status)
    <2>1. req[r].pos = k /\ req[r].pc = "out"
      <3>1. req[r].pos \in 1..Len(Chain) /\ Chain[req[r].pos] = "Logging" /\ req[r].pc = "out"
        BY <1>0, <1>3 DEF Logs, Placed
      <3> QED
        BY <3>1 DEF SeesAll
    <2>2. r \notin counted
      BY <1>0, <2>1 DEF Journey, Past
    <2>3. /\ at'[r] \in {"countError", "addDuration"} /\ code'[r] = req[r].status
      BY <1>0, <1>3 DEF CountRequest, Move
    <2>4. req'[r].pc = "counting" /\ req'[r].pos = k - 1 /\ req'[r].status = req[r].status
      BY <1>3, <2>1 DEF Logs
    <2> QED
      BY <2>2, <2>3, <2>4 DEF Journey, Past
  <1>4. CASE req[r].pc = "counting" /\ req' = req /\ CountError(r)
    <2>1. at'[r] = "addDuration" /\ UNCHANGED <<code, counted>>
      BY <1>0, <1>4 DEF CountError, Move
    <2> QED
      BY <1>4, <2>1 DEF Journey, Past, Logs
  <1>5. CASE Resumes(req[r], req'[r]) /\ AddDuration(r)
    <2>1. at'[r] = "free" /\ UNCHANGED <<code, counted>>
      BY <1>0, <1>5 DEF AddDuration, Move
    <2>2. /\ req[r].pc = "counting" /\ req'[r].pc = "out" /\ req'[r].pos = k - 1
          /\ req'[r].status = req[r].status
      BY <1>5 DEF Resumes, Journey
    <2>3. Past(req[r], k) /\ Past(req'[r], k)
      BY <1>0, <2>2 DEF Past
    <2> QED
      BY <2>1, <2>2, <2>3 DEF Journey, Past, Logs
  <1> QED
    BY <1>1, <1>2, <1>3, <1>4, <1>5

(* An operation of Metrics touches the place and the status of its caller  *)
(* only, and nobody but the caller is added to those counted.              *)
LEMMA OthersStay ==
    ASSUME MInv, NEW p \in Callers,
           \/ Call(p) \/ Underway(p) \/ UNCHANGED metricsVars
    PROVE  \A q \in Callers \ {p} :
               at'[q] = at[q] /\ code'[q] = code[q] /\ (q \in counted' => q \in counted)
  <1>0. at \in [Callers -> Places] /\ code \in [Callers -> Nat]
    BY DEF MInv, MetricsTypeOK
  <1>1. /\ \E to : at' = [at EXCEPT ![p] = to]
        /\ (\E status : code' = [code EXCEPT ![p] = status]) \/ UNCHANGED code
        /\ counted' \in {counted, {}, counted \cup {p}}
    <2>1. CASE UNCHANGED metricsVars
      <3>1. at' = [at EXCEPT ![p] = at[p]]
        BY <1>0, <2>1 DEF metricsVars
      <3> QED
        BY <2>1, <3>1 DEF metricsVars
    <2>2. CASE \E status \in Nat : CountRequest(p, status)
      BY <2>2 DEF CountRequest, Move
    <2>3. CASE CountQuery(p) \/ StatsLock(p) \/ ResetLock(p) \/ AppendTime(p)
      BY <2>3 DEF CountQuery, StatsLock, ResetLock, AppendTime, Move
    <2>4. CASE AddHTTPRequest(p)
      BY <2>4 DEF AddHTTPRequest, CountError, AddDuration, Move
    <2>5. CASE GetStats(p)
      BY <2>5 DEF GetStats, StatsCheck, StatsDivide, StatsUnlock, Move
    <2>6. CASE Reset(p)
      BY <2>6 DEF Reset, ResetRequests, ResetErrors, ResetUnlock, Move
    <2> QED
      BY <2>1, <2>2, <2>3, <2>4, <2>5, <2>6 DEF Call, Underway
  <1> QED
    BY <1>0, <1>1

LEMMA StatsInvStep ==
    ASSUME NEW k, SeesAll(k), MInv, PInv, PInv', Chained, Counts, Journeys(k),
           [PluginsNext]_pluginVars
    PROVE  Counts' /\ Journeys(k)'
  <1>0. Told /\ Told' /\ Requests \subseteq Callers
    BY PluginsAssumption DEF PInv
  <1>s. ASSUME UNCHANGED <<metricsVars>> PROVE Counts'
    BY <1>s DEF metricsVars, Counts, InStep, Pending, Failed, Clearing
  (* A step of a request: the others stay where they are. *)
  <1>r. ASSUME NEW r \in Requests, Journey(r, k)', \A s \in Requests \ {r} : req'[s] = req[s],
               Call(r) \/ Underway(r) \/ UNCHANGED metricsVars
        PROVE  Journeys(k)'
    <2> SUFFICES ASSUME NEW s \in Requests \ {r} PROVE Journey(s, k)'
      BY <1>r DEF Journeys
    <2>1. at'[s] = at[s] /\ code'[s] = code[s] /\ (s \in counted' => s \in counted)
      BY <1>0, <1>r, OthersStay
    <2>2. Journey(s, k) /\ req'[s] = req[s]
      BY <1>r DEF Journeys
    <2> QED
      BY <2>1, <2>2, JourneyStays
  <1>1. ASSUME NEW r \in Requests, NotFound(r) \/ Found(r) \/ ServeHTTP(r)
        PROVE  Counts' /\ Journeys(k)'
    <2>0. req[r] \in Request /\ Placed(req[r]) /\ Journey(r, k) /\ r \in Callers
      BY <1>0 DEF Told, Chained, Journeys
    <2>1. CASE NotFound(r) \/ Found(r) \/ PassOn(r) \/ Answer(r) \/ Handle(r) \/ RateLimit(r)
      <3>1. /\ Walks(req[r], req'[r]) /\ UNCHANGED metricsVars
            /\ \A s \in Requests \ {r} : req'[s] = req[s]
        BY <2>1, WalkStep
      <3>2. UNCHANGED <<at, code, counted>>
        BY <3>1 DEF metricsVars
      <3>3. Journey(r, k)'
        BY <2>0, <3>1, <3>2, WalkJourney
      <3> QED
        BY <1>s, <1>r, <3>1, <3>3
    <2>2. CASE Unwind(r) \/ Counting(r)
      <3>1. /\ \/ Leaves(req[r], req'[r]) /\ UNCHANGED metricsVars
               \/ Backs(req[r], req'[r]) /\ UNCHANGED metricsVars
               \/ Logs(req[r], req'[r]) /\ CountRequest(r, req[r].status)
               \/ req[r].pc = "counting" /\ req' = req /\ CountError(r)
               \/ Resumes(req[r], req'[r]) /\ AddDuration(r)
            /\ \A s \in Requests \ {r} : req'[s] = req[s]
            /\ req[r].status \in Nat
        BY <2>2, ExitStep
      <3>2. Journey(r, k)' /\ (Logs(req[r], req'[r]) => r \notin counted)
        BY <2>0, <3>1, ExitJourney
      <3>3. Call(r) \/ Underway(r) \/ UNCHANGED metricsVars
        BY <3>1 DEF Call, Underway, AddHTTPRequest
      <3>4. Counts'
        BY <1>s, <2>0, <3>1, <3>2, CountRequestCounts, CountErrorCounts, AddDurationCounts
      <3> QED
        BY <1>r, <3>1, <3>2, <3>3, <3>4
    <2> QED
      BY <1>1, <2>1, <2>2 DEF ServeHTTP
  <1>2. ASSUME NEW p \in Callers \ Requests, Visit(p) \/ Leave(p)
        PROVE  Counts' /\ Journeys(k)'
    <2>1. Call(p) \/ Underway(p)
      BY <1>2 DEF Visit, Leave, Call, Underway
    <2>2. Journeys(k)'
      <3> SUFFICES ASSUME NEW s \in Requests PROVE Journey(s, k)'
        BY DEF Journeys
      <3>1. at'[s] = at[s] /\ code'[s] = code[s] /\ (s \in counted' => s \in counted)
        BY <1>0, <2>1, OthersStay
      <3>2. Journey(s, k) /\ req'[s] = req[s]
        BY <1>2 DEF Journeys, Visit, Leave
      <3> QED
        BY <3>1, <3>2, JourneyStays
    <2>3. CASE Reset(p)
      BY <2>2, <2>3, ResetCounts
    <2>4. CASE ~Reset(p)
      <3> DEFINE Plain == {"free", "appendTime", "check", "divide", "unlock", "panicked",
                           "requests"}
      <3>1. PICK to : /\ at' = [at EXCEPT ![p] = to] /\ to \in Plain /\ at[p] \in Plain
                      /\ UNCHANGED <<m, code, counted, torn>>
        <4>1. CASE CountQuery(p) \/ StatsLock(p) \/ ResetLock(p) \/ AppendTime(p)
          BY <4>1 DEF CountQuery, StatsLock, ResetLock, AppendTime, Move
        <4>2. CASE GetStats(p)
          BY <4>2 DEF GetStats, StatsCheck, StatsDivide, StatsUnlock, Move
        <4> QED
          BY <1>2, <2>4, <4>1, <4>2 DEF Visit, Leave
      <3>2. to \in Places /\ {"countError", "addDuration", "errors", "duration"} \cap Plain = {}
        BY <3>1 DEF Places
      <3>3. /\ at[p] \notin {"countError", "addDuration", "errors", "duration"}
            /\ to \notin {"countError", "addDuration", "errors", "duration"}
        BY <3>1, <3>2
      <3>4. Counts'
        BY <3>1, <3>2, <3>3, CountsStay
      <3> QED
        BY <2>2, <3>4
    <2> QED
      BY <2>3, <2>4
  <1>u. ASSUME UNCHANGED <<metricsVars, req>> PROVE Counts' /\ Journeys(k)'
    <2>1. Journeys(k)'
      BY <1>u DEF metricsVars, Journeys, Journey, Past
    <2> QED
      BY <1>s, <1>u, <2>1
  <1>3. ASSUME NEW a \in Addresses, Refill(a)
        PROVE  Counts' /\ Journeys(k)'
    BY <1>3, <1>u DEF Refill
  <1>4. CASE UNCHANGED pluginVars
    BY <1>4, <1>u DEF pluginVars
  <1> QED
    BY <1>1, <1>2, <1>3, <1>4 DEF PluginsNext

(* What the invariant says when nobody is inside AddHTTPRequest or Reset.  *)
LEMMA StatsFollow ==
    ASSUME NEW k, MInv, PInv, Counts, Journeys(k)
    PROVE  StatsExact
  <1>1. ASSUME NEW r \in Requests, req[r].pc = "done", req[r].status # 404
        PROVE  code[r] = req[r].status
    BY <1>1 DEF Journeys, Journey, Past
  <1>2. ASSUME ~torn, \A p \in Callers : at[p] \in {"free", "check", "divide", "unlock"}
        PROVE  /\ m.requests = Cardinality(counted)
               /\ m.duration = Cardinality(counted)
               /\ m.errors = Cardinality({r \in counted : req[r].status >= 400})
    <2>1. Pending = {} /\ ~Clearing({"errors", "duration"}) /\ ~Clearing({"errors"})
      BY <1>2 DEF Pending, Clearing
    <2>2. InStep /\ m.requests = Cardinality(counted) /\ counted \subseteq Requests
      BY <1>2 DEF Counts
    <2>3. counted \ Pending = counted
      BY <2>1
    <2>4. \A r \in counted : code[r] = req[r].status /\ at[r] # "countError"
      BY <1>2, <2>2, PluginsAssumption DEF Journeys, Journey
    <2>5. Failed = {r \in counted : req[r].status >= 400}
      BY <2>4 DEF Failed, IsError
    <2> QED
      BY <2>1, <2>2, <2>3, <2>5 DEF InStep
  <1> QED
    BY <1>1, <1>2 DEF StatsExact

-----------------------------------------------------------------------------
LEMMA PluginsInv == PluginsSpec => [](MInv /\ PInv /\ Chained)
  <1>1. InitPlugins => MInv /\ PInv /\ Chained
    BY MInvInit, InitPInv, InitChained DEF InitPlugins
  <1>2. MInv /\ PInv /\ Chained /\ [PluginsNext]_pluginVars => (MInv /\ PInv /\ Chained)'
    BY MInvStep, PInvStep, ChainedStep
  <1> QED
    BY <1>1, <1>2, PTL DEF PluginsSpec

(* The router, the chain and the limiters have their types, whatever the   *)
(* chain is: no request runs past the ends of the chain, every status is   *)
(* one that is answered, every limiter of the map exists and no bucket     *)
(* exceeds the burst.                                                      *)
THEOREM PluginsTypeCorrect == PluginsSpec => []PluginsTypeOK
  <1>1. MInv /\ PInv /\ Chained => PluginsTypeOK
    <2> SUFFICES ASSUME MInv, PInv, Chained PROVE PluginsTypeOK
      OBVIOUS
    <2> DEFINE R == [pc : {"new", "in", "insert", "allow", "handler", "out", "counting",
                           "done"},
                     pos : 0..(Len(Onion) + 1), limiter : 1..Len(bucket) \cup {None},
                     status : {None, 200, 404, 413, 429, 500}]
    <2>1. ASSUME NEW r \in Requests PROVE req[r] \in R
      <3>1. /\ req[r] \in Request /\ Placed(req[r]) /\ req[r].status \in Statuses
            /\ req[r].limiter \in 1..Len(bucket) \cup {None} /\ Len(Onion) \in Nat
        BY OnionType DEF PInv, Told, Chained
      <3>2. req[r].pc \in Stages /\ req[r].pos \in 0..(Len(Onion) + 1)
        BY <3>1 DEF Request, Stages, Placed
      <3> QED
        BY <3>1, <3>2 DEF Request, Stages, Statuses
    <2>2. req \in [Requests -> R]
      BY <2>1 DEF PInv, Told
    <2> QED
      BY <2>2 DEF PInv, BucketsOK, Chained, PluginsTypeOK
  <1> QED
    BY <1>1, PluginsInv, PTL

(* In every chain in which Logging sees all that the clients are answered, *)
(* a client has been told what AddHTTPRequest was told, and HttpRequests,  *)
(* HttpErrors and HttpDuration agree with the requests that were counted   *)
(* whenever nobody is inside AddHTTPRequest or Reset and no Reset has cut  *)
(* a call in two, for any number of requests, readers and Resets.          *)
THEOREM CountersCorrect == LoggingSeesAll => (PluginsSpec => []StatsExact)
  <1> SUFFICES ASSUME LoggingSeesAll PROVE PluginsSpec => []StatsExact
    OBVIOUS
  <1>1. PICK k \in 1..Len(Chain) : SeesAll(k)
    BY DEF LoggingSeesAll
  <1> DEFINE Inv == MInv /\ PInv /\ Chained /\ Counts /\ Journeys(k)
  <1>2. InitPlugins => Inv
    BY MInvInit, InitPInv, InitChained, InitCounts DEF InitPlugins
  <1>3. Inv /\ [PluginsNext]_pluginVars => Inv'
    <2> SUFFICES ASSUME Inv, [PluginsNext]_pluginVars PROVE Inv'
      OBVIOUS
    <2>1. MInv' /\ PInv' /\ Chained'
      BY MInvStep, PInvStep, ChainedStep
    <2>2. Counts' /\ Journeys(k)'
      BY <1>1, <2>1, StatsInvStep
    <2> QED
      BY <2>1, <2>2
  <1>4. Inv => StatsExact
    BY StatsFollow
  <1> HIDE DEF Inv
  <1> QED
    BY <1>2, <1>3, <1>4, PTL DEF PluginsSpec

=============================================================================
