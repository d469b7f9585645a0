------------------------------ MODULE Plugins -------------------------------
(***************************************************************************)
(* The router, the middleware chain and the rate limiter of                *)
(* internal/plugins/plugins.go, with the routes of api/routes.go and over  *)
(* the counters of Metrics.                                                *)
(*                                                                         *)
(* A request is a goroutine.  It goes through the router into the chain,   *)
(* one middleware after the other (pos is the middleware it is in), into   *)
(* the handler, and back out through the same middleware in reverse; a     *)
(* middleware that answers by itself turns it round.  The middlewares that *)
(* only set headers, measure or compress pass every request on.            *)
(***************************************************************************)
EXTENDS Metrics, SequencesExt

CONSTANTS Requests,   \* the requests, each served by a goroutine
          Addresses,  \* the addresses of clients, without their ports
          From,       \* From[r]: the address that request r comes from
          Rate,       \* rateLimit: tokens a second
          Chain,      \* the middlewares in the order of the calls of Use
          None        \* no limiter, no status

ASSUME PluginsAssumption ==
    /\ Requests \subseteq Callers
    /\ From \in [Requests -> Addresses]
    /\ Rate \in Nat \ {0}
    /\ Chain \in Seq({"Tracing", "Logging", "RateLimit", "Security", "CORS",
                      "Compression", "Validation"})
    /\ None \notin Nat

VARIABLES
    limiters,  \* the maps of all shards: address |-> index of a limiter
    bucket,    \* bucket[l]: the tokens of limiter l; one is added by NewLimiter
    req,       \* req[r]: where request r is, pos, its limiter and its status
    visitors,  \* the other goroutines that have not called Metrics yet
    granted,   \* history: requests of an address that Allow let pass
    refilled   \* history: tokens the clock has added for an address

pluginVars == <<metricsVars, limiters, bucket, req, visitors, granted, refilled>>

Burst == 2 * Rate

InitPlugins ==
    /\ InitMetrics
    /\ limiters = [a \in Addresses |-> None]
    /\ bucket = <<>>
    /\ req = [r \in Requests |->
                [pc |-> "new", pos |-> 0, limiter |-> None, status |-> None]]
    /\ visitors = Callers \ Requests
    /\ granted = [a \in Addresses |-> 0]
    /\ refilled = [a \in Addresses |-> 0]

-----------------------------------------------------------------------------
(* Then wraps the handler in the last middleware first, so the first one   *)
(* that was given to Use is the outermost.                                 *)
Wrap(middleware, handler) == <<middleware>> \o handler

(* Mutant: the loop runs upwards, and the first middleware is innermost.   *)
ThenUpwards(ms) == FoldLeft(LAMBDA h, mw : Wrap(mw, h), <<>>, ms)

Then(ms) ==
    LET h[i \in 1..(Len(ms) + 1)] ==
            IF i > Len(ms) THEN <<>> ELSE Wrap(ms[i], h[i + 1])
    IN  h[1]

Onion == Then(Chain)

(* Request r is on its way in, at middleware mw.                           *)
InAt(r, mw) ==
    /\ req[r].pc = "in"
    /\ req[r].pos <= Len(Onion)
    /\ Onion[req[r].pos] = mw

(* The middleware calls next.ServeHTTP; after the last comes the handler.  *)
Inward(r) ==
    [req[r] EXCEPT !.pos = @ + 1,
                   !.pc = IF req[r].pos = Len(Onion) THEN "handler" ELSE "in"]

(* The middleware, or the handler, answers and returns to its caller.      *)
Outward(r, status) ==
    [req[r] EXCEPT !.pos = @ - 1, !.pc = "out", !.status = status]

Becomes(r, next) == req' = [req EXCEPT ![r] = next]

(* ServeHTTP of the router: a method or path without a route gets 404 and  *)
(* does not come near the chain.  A pattern with parameters only matches   *)
(* the path that is the pattern itself, for `:name' is quoted, not         *)
(* replaced, in the regular expression.                                    *)
NotFound(r) ==
    /\ req[r].pc = "new"
    /\ Becomes(r, [req[r] EXCEPT !.pc = "done", !.status = 404])
    /\ UNCHANGED <<limiters, bucket, visitors, granted, refilled, metricsVars>>

Found(r) ==
    /\ req[r].pc = "new"
    /\ Becomes(r, Inward(r))
    /\ UNCHANGED <<limiters, bucket, visitors, granted, refilled, metricsVars>>

PassOn(r) ==
    /\ \E mw \in {"Tracing", "Logging", "Security", "CORS", "Compression",
                  "Validation"} : InAt(r, mw)
    /\ Becomes(r, Inward(r))
    /\ UNCHANGED <<limiters, bucket, visitors, granted, refilled, metricsVars>>

(* An OPTIONS request is answered by CORS, a body that is too large is     *)
(* refused by Validation.                                                  *)
Answer(r) ==
    /\ \/ InAt(r, "CORS") /\ Becomes(r, Outward(r, 200))
       \/ InAt(r, "Validation") /\ Becomes(r, Outward(r, 413))
    /\ UNCHANGED <<limiters, bucket, visitors, granted, refilled, metricsVars>>

-----------------------------------------------------------------------------
(* RateLimit: the map is read under a read lock, and read again under the  *)
(* write lock before a limiter is added to it.                             *)

LookUp(r) ==
    /\ InAt(r, "RateLimit")
    /\ LET l == limiters[From[r]] IN
       Becomes(r, [req[r] EXCEPT !.limiter = l,
                                 !.pc = IF l = None THEN "insert" ELSE "allow"])
    /\ UNCHANGED <<limiters, bucket, visitors, granted, refilled, metricsVars>>

(* Mutant: the map is not read again under the write lock.                 *)
InsertUnchecked(r) ==
    /\ req[r].pc = "insert"
    /\ bucket' = Append(bucket, Burst)
    /\ limiters' = [limiters EXCEPT ![From[r]] = Len(bucket) + 1]
    /\ Becomes(r, [req[r] EXCEPT !.limiter = Len(bucket) + 1, !.pc = "allow"])
    /\ UNCHANGED <<visitors, granted, refilled, metricsVars>>

Insert(r) ==
    /\ req[r].pc = "insert"
    /\ IF limiters[From[r]] = None
       THEN /\ bucket' = Append(bucket, Burst)
            /\ limiters' = [limiters EXCEPT ![From[r]] = Len(bucket) + 1]
       ELSE UNCHANGED <<bucket, limiters>>
    /\ Becomes(r, [req[r] EXCEPT !.limiter = limiters'[From[r]], !.pc = "allow"])
    /\ UNCHANGED <<visitors, granted, refilled, metricsVars>>

(* rate.Limiter.Allow takes a token if there is one.                       *)
Allow(r) ==
    /\ req[r].pc = "allow"
    /\ LET l == req[r].limiter IN
       \/ /\ bucket[l] > 0
          /\ bucket' = [bucket EXCEPT ![l] = @ - 1]
          /\ granted' = [granted EXCEPT ![From[r]] = @ + 1]
          /\ Becomes(r, Inward(r))
       \/ /\ bucket[l] = 0
          /\ Becomes(r, Outward(r, 429))
          /\ UNCHANGED <<bucket, granted>>
    /\ UNCHANGED <<limiters, visitors, refilled, metricsVars>>

(* The clock adds a token, up to the burst.                                *)
Refill(a) ==
    /\ limiters[a] # None
    /\ bucket[limiters[a]] < Burst
    /\ bucket' = [bucket EXCEPT ![limiters[a]] = @ + 1]
    /\ refilled' = [refilled EXCEPT ![a] = @ + 1]
    /\ UNCHANGED <<limiters, req, visitors, granted, metricsVars>>

RateLimit(r) == LookUp(r) \/ Insert(r) \/ Allow(r)

-----------------------------------------------------------------------------
(* The handler of a route returns: the handlers of api/routes.go succeed,  *)
(* those of an application may fail.                                       *)
Handle(r) ==
    /\ req[r].pc = "handler"
    /\ \E status \in {200, 500} : Becomes(r, Outward(r, status))
    /\ UNCHANGED <<limiters, bucket, visitors, granted, refilled, metricsVars>>

(* On the way out Logging counts the request; the others have nothing to   *)
(* do that anybody else could see.                                         *)
Unwind(r) ==
    /\ req[r].pc = "out"
    /\ LET back == [req[r] EXCEPT !.pos = @ - 1] IN
       \/ /\ req[r].pos = 0
          /\ Becomes(r, [req[r] EXCEPT !.pc = "done"])
          /\ UNCHANGED metricsVars
       \/ /\ req[r].pos > 0 /\ Onion[req[r].pos] # "Logging"
          /\ Becomes(r, back)
          /\ UNCHANGED metricsVars
       \/ /\ req[r].pos > 0 /\ Onion[req[r].pos] = "Logging"
          /\ CountRequest(r, req[r].status)
          /\ Becomes(r, [back EXCEPT !.pc = "counting"])
    /\ UNCHANGED <<limiters, bucket, visitors, granted, refilled>>

(* AddHTTPRequest goes on, and LoggingMiddleware returns after it.         *)
Counting(r) ==
    /\ req[r].pc = "counting"
    /\ \/ CountError(r) /\ UNCHANGED req
       \/ AddDuration(r) /\ Becomes(r, [req[r] EXCEPT !.pc = "out"])
    /\ UNCHANGED <<limiters, bucket, visitors, granted, refilled>>

ServeHTTP(r) ==
    \/ PassOn(r) \/ Answer(r) \/ RateLimit(r) \/ Handle(r)
    \/ Unwind(r) \/ Counting(r)

(* Meanwhile a script reads the statistics or ends a query, and somebody   *)
(* resets them.                                                            *)
Visit(p) ==
    /\ p \in visitors
    /\ visitors' = visitors \ {p}
    /\ StatsLock(p) \/ ResetLock(p) \/ CountQuery(p)
    /\ UNCHANGED <<limiters, bucket, req, granted, refilled>>

Leave(p) ==
    /\ GetStats(p) \/ Reset(p) \/ AppendTime(p)
    /\ UNCHANGED <<limiters, bucket, req, visitors, granted, refilled>>

PluginsNext ==
    \/ \E r \in Requests : NotFound(r) \/ Found(r) \/ ServeHTTP(r)
    \/ \E p \in Callers \ Requests : Visit(p) \/ Leave(p)
    \/ \E a \in Addresses : Refill(a)

(* A goroutine that can run does; nobody is obliged to send a request, to  *)
(* read the statistics or to reset them.                                   *)
PluginsFairness ==
    /\ \A r \in Requests : WF_pluginVars(ServeHTTP(r))
    /\ \A p \in Callers \ Requests : WF_pluginVars(Leave(p))

PluginsSpec == InitPlugins /\ [][PluginsNext]_pluginVars

-----------------------------------------------------------------------------
(* Every variable of the router, the chain and the rate limiter has its    *)
(* type.                                                                   *)
PluginsTypeOK ==
    /\ bucket \in Seq(0..Burst)
    /\ limiters \in [Addresses -> 1..Len(bucket) \cup {None}]
    /\ req \in [Requests ->
                  [pc : {"new", "in", "insert", "allow", "handler", "out",
                         "counting", "done"},
                   pos : 0..(Len(Onion) + 1),
                   limiter : 1..Len(bucket) \cup {None},
                   status : {None, 200, 404, 413, 429, 500}]]
    /\ visitors \subseteq Callers
    /\ granted \in [Addresses -> Nat] /\ refilled \in [Addresses -> Nat]

(* However many requests of an address arrive at once, and although each   *)
(* may find no limiter at first, they draw on one bucket: what they have   *)
(* taken and what is left is the burst and what the clock has added.       *)
OneBucketPerAddress ==
    \A a \in Addresses :
        IF limiters[a] = None
        THEN granted[a] = 0
        ELSE granted[a] + bucket[limiters[a]] = Burst + refilled[a]

(* The counters tell what the clients were told.  Whatever the handler, or *)
(* a middleware that turns a request round, answers is what LoggingMiddle- *)
(* ware has counted when the client has the answer (only the 404 of the    *)
(* router comes from outside the chain): it comes before the others in     *)
(* Chain, and Then must keep that order.  And between operations every     *)
(* request counted since the last Reset is in HttpRequests, HttpDuration   *)
(* and, if it was answered with an error, HttpErrors, unless a Reset has   *)
(* cut AddHTTPRequest in two.                                              *)
StatsExact ==
    /\ \A r \in Requests :
           req[r].pc = "done" /\ req[r].status # 404 => code[r] = req[r].status
    /\ (~torn /\ \A p \in Callers : at[p] \in {"free", "check", "divide", "unlock"})
       => /\ m.requests = Cardinality(counted)
          /\ m.duration = Cardinality(counted)
          /\ m.errors = Cardinality({r \in counted : req[r].status >= 400})

(* Every request that has arrived is answered, refused or not, although it *)
(* has to take the lock of the metrics on its way out, which readers of    *)
(* the statistics and Reset hold meanwhile.                                *)
EveryRequestAnswered ==
    \A r \in Requests : req[r].pc # "new" ~> req[r].pc = "done"

=============================================================================
