----------------------------- MODULE WSManager -----------------------------
(***************************************************************************)
(* The WebSocket manager of internal/websocket/ws.go.                      *)
(*                                                                         *)
(* For every connection c there are: the goroutine of HandleWebSocket      *)
(* (handler[c]), which reads from the peer and tears the connection down,  *)
(* and the goroutine of wsWriter (writer[c]), the only receiver from the   *)
(* channel send.  Every request r is a goroutine of handleMessage, spawned *)
(* for one message of one connection; it runs the message as a script and  *)
(* replies with safeSend.  Every member of Broadcasts is one call of       *)
(* WSManager.Broadcast, made by a goroutine of its own.                    *)
(*                                                                         *)
(* A reply or a broadcast message is identified by the request or the      *)
(* broadcast it comes from.                                                *)
(***************************************************************************)
EXTENDS Integers, Sequences, FiniteSets

CONSTANTS Conns,       \* the calls of HandleWebSocket
          Requests,    \* the messages read from the peers
          Broadcasts,  \* the calls of Broadcast
          MaxConns,    \* WSManager.maxConns
          SendCap,     \* the capacity of send (256)
          DrainMax,    \* how many more messages join a frame (10)
          Welcome,     \* the message that greets the peer
          None         \* no connection; an unlocked mutex

ASSUME WSAssumption ==
    /\ MaxConns \in Nat /\ SendCap \in Nat \ {0} /\ DrainMax \in Nat
    /\ None \notin Conns \cup Requests
    /\ Welcome \notin Requests \cup Broadcasts
    /\ Requests \cap Broadcasts = {}

VARIABLES
    connections,  \* the keys of WSManager.connections
    active,       \* WSManager.active
    total,        \* WSManager.total
    handler,      \* where HandleWebSocket is
    writer,       \* where wsWriter is, and how many messages it will drain
    mu,           \* WSConnection.mu: the request that holds it, or None
    closed,       \* WSConnection.closed
    buf,          \* the contents of WSConnection.send
    sendClosed,   \* close(send) has been executed
    open,         \* the server has not closed the network connection
    peerGone,     \* the peer left, or made the server miss a deadline
    frame,        \* the messages of the frame wsWriter is writing
    sent,         \* history: what has been written to the network
    accepted,     \* history: what has been put into send
    dropped,      \* metrics WsDropped
    req,          \* req[r]: state of the goroutine of a request
    bcast         \* bcast[b]: state of a call of Broadcast

connVars == <<closed, sendClosed, open, peerGone>>
mgrVars  == <<connections, active, total>>
dataVars == <<buf, frame, sent, accepted, dropped>>
vars == <<mgrVars, handler, writer, mu, connVars, dataVars, req, bcast>>

-----------------------------------------------------------------------------
HandlerPC == {"new", "upgrade", "check", "store", "count", "welcome", "reading",
              "flag", "close", "delete", "uncount", "hangup", "done"}

Init ==
    /\ connections = {} /\ active = 0 /\ total = 0
    /\ handler = [c \in Conns |-> "new"]
    /\ writer = [c \in Conns |-> [pc |-> "off", n |-> 0]]
    /\ mu = [c \in Conns |-> None]
    /\ closed = [c \in Conns |-> FALSE]
    /\ buf = [c \in Conns |-> <<>>]
    /\ sendClosed = [c \in Conns |-> FALSE]
    /\ open = [c \in Conns |-> FALSE]
    /\ peerGone = [c \in Conns |-> FALSE]
    /\ frame = [c \in Conns |-> <<>>]
    /\ sent = [c \in Conns |-> <<>>]
    /\ accepted = [c \in Conns |-> <<>>]
    /\ dropped = 0
    /\ req = [r \in Requests |-> [pc |-> "none", conn |-> None]]
    /\ bcast = [b \in Broadcasts |->
                   [pc |-> "idle", conn |-> None, seen |-> {}, must |-> {}]]

(* connections.Range with a counter.                                       *)
Count == Cardinality(connections)

Goto(c, p, q) == handler[c] = p /\ handler' = [handler EXCEPT ![c] = q]

(* Mutant: one message more than the channel holds.                        *)
TrySendOneMore(c, m) ==
    /\ Len(buf[c]) <= SendCap
    /\ buf' = [buf EXCEPT ![c] = Append(@, m)]
    /\ accepted' = [accepted EXCEPT ![c] = Append(@, m)]
    /\ UNCHANGED <<frame, sent, dropped>>

(* select { case send <- m: default: WsDropped++ }                         *)
TrySend(c, m) ==
    \/ /\ Len(buf[c]) < SendCap
       /\ buf' = [buf EXCEPT ![c] = Append(@, m)]
       /\ accepted' = [accepted EXCEPT ![c] = Append(@, m)]
       /\ UNCHANGED <<frame, sent, dropped>>
    \/ /\ Len(buf[c]) >= SendCap
       /\ dropped' = dropped + 1
       /\ UNCHANGED <<buf, frame, sent, accepted>>

(* A write fails on a connection that is closed; when the peer has gone it *)
(* may fail or still find room in the buffers of the network.              *)
WriteOK(c) == open[c]
WriteFails(c) == ~open[c] \/ peerGone[c]

-----------------------------------------------------------------------------
(* HandleWebSocket up to Register.                                         *)

FirstCheck(c) ==
    /\ \/ Count < MaxConns /\ Goto(c, "new", "upgrade")
       \/ Count >= MaxConns /\ Goto(c, "new", "done")
    /\ UNCHANGED <<mgrVars, writer, mu, connVars, dataVars, req, bcast>>

Upgrade(c) ==
    /\ \/ /\ Goto(c, "upgrade", "check")
          /\ open' = [open EXCEPT ![c] = TRUE]
       \/ /\ Goto(c, "upgrade", "done")
          /\ UNCHANGED open
    /\ UNCHANGED <<mgrVars, writer, mu, closed, sendClosed, peerGone,
                   dataVars, req, bcast>>

RegisterCheck(c) ==
    /\ \/ Count < MaxConns /\ Goto(c, "check", "store")
       \/ Count >= MaxConns /\ Goto(c, "check", "hangup")
    /\ UNCHANGED <<mgrVars, writer, mu, connVars, dataVars, req, bcast>>

RegisterStore(c) ==
    /\ Goto(c, "store", "count")
    /\ connections' = connections \cup {c}
    /\ UNCHANGED <<active, total, writer, mu, connVars, dataVars, req, bcast>>

RegisterCount(c) ==
    /\ Goto(c, "count", "welcome")
    /\ active' = active + 1
    /\ total' = total + 1
    /\ UNCHANGED <<connections, writer, mu, connVars, dataVars, req, bcast>>

WelcomeOK(c) ==
    /\ Goto(c, "welcome", "reading")
    /\ WriteOK(c)
    /\ sent' = [sent EXCEPT ![c] = Append(@, Welcome)]
    /\ writer' = [writer EXCEPT ![c] = [pc |-> "select", n |-> 0]]
    /\ UNCHANGED <<mgrVars, mu, connVars, buf, frame, accepted, dropped, req, bcast>>

(* Mutant: Unregister is deferred only after the welcome message.          *)
WelcomeFailsLeaks(c) ==
    /\ Goto(c, "welcome", "hangup")
    /\ WriteFails(c)
    /\ UNCHANGED <<mgrVars, writer, mu, connVars, dataVars, req, bcast>>

(* The deferred Unregister and conn.Close run; there is no writer yet.     *)
WelcomeFails(c) ==
    /\ Goto(c, "welcome", "delete")
    /\ WriteFails(c)
    /\ UNCHANGED <<mgrVars, writer, mu, connVars, dataVars, req, bcast>>

-----------------------------------------------------------------------------
(* The read loop, and the deferred calls that run when it ends.            *)

(* What the peer sent before it left may still be read.                    *)
ReadMessage(c, r) ==
    /\ handler[c] = "reading"
    /\ open[c]
    /\ req[r].pc = "none"
    /\ req' = [req EXCEPT ![r] = [pc |-> "run", conn |-> c]]
    /\ UNCHANGED <<mgrVars, handler, writer, mu, connVars, dataVars, bcast>>

ReadError(c) ==
    /\ Goto(c, "reading", "flag")
    /\ ~open[c] \/ peerGone[c]
    /\ UNCHANGED <<mgrVars, writer, mu, connVars, dataVars, req, bcast>>

(* Mutant: closed is set without the lock.                                 *)
SetClosedUnlocked(c) ==
    /\ Goto(c, "flag", "close")
    /\ closed' = [closed EXCEPT ![c] = TRUE]
    /\ UNCHANGED <<mgrVars, writer, mu, sendClosed, open, peerGone, dataVars,
                   req, bcast>>

(* mu.Lock(); closed = true; mu.Unlock()                                   *)
SetClosed(c) ==
    /\ Goto(c, "flag", "close")
    /\ mu[c] = None
    /\ closed' = [closed EXCEPT ![c] = TRUE]
    /\ UNCHANGED <<mgrVars, writer, mu, sendClosed, open, peerGone, dataVars,
                   req, bcast>>

CloseSend(c) ==
    /\ Goto(c, "close", "delete")
    /\ sendClosed' = [sendClosed EXCEPT ![c] = TRUE]
    /\ UNCHANGED <<mgrVars, writer, mu, closed, open, peerGone, dataVars,
                   req, bcast>>

UnregisterDelete(c) ==
    /\ Goto(c, "delete", "uncount")
    /\ connections' = connections \ {c}
    /\ UNCHANGED <<active, total, writer, mu, connVars, dataVars, req, bcast>>

UnregisterCount(c) ==
    /\ Goto(c, "uncount", "hangup")
    /\ active' = active - 1
    /\ UNCHANGED <<connections, total, writer, mu, connVars, dataVars, req, bcast>>

HangUp(c) ==
    /\ Goto(c, "hangup", "done")
    /\ open' = [open EXCEPT ![c] = FALSE]
    /\ UNCHANGED <<mgrVars, writer, mu, closed, sendClosed, peerGone, dataVars,
                   req, bcast>>

-----------------------------------------------------------------------------
(* wsWriter.  The successful ping changes nothing.                         *)

WriterAt(c, p) == writer[c].pc = p
WriterGoto(c, p, n) == writer' = [writer EXCEPT ![c] = [pc |-> p, n |-> n]]

WriterReceive(c) ==
    /\ WriterAt(c, "select")
    /\ buf[c] # <<>>
    /\ frame' = [frame EXCEPT ![c] = <<Head(buf[c])>>]
    /\ buf' = [buf EXCEPT ![c] = Tail(@)]
    /\ WriterGoto(c, "len", 0)
    /\ UNCHANGED <<mgrVars, handler, mu, connVars, sent, accepted, dropped, req, bcast>>

(* n := len(ws.send), of which the loop takes at most DrainMax.            *)
WriterLen(c) ==
    /\ WriterAt(c, "len")
    /\ WriterGoto(c, "drain", IF Len(buf[c]) < DrainMax THEN Len(buf[c]) ELSE DrainMax)
    /\ UNCHANGED <<mgrVars, handler, mu, connVars, dataVars, req, bcast>>

(* Mutant: the drained message is not written.                             *)
WriterDrainLost(c) ==
    /\ WriterAt(c, "drain")
    /\ writer[c].n > 0
    /\ buf' = [buf EXCEPT ![c] = Tail(@)]
    /\ WriterGoto(c, "drain", writer[c].n - 1)
    /\ UNCHANGED <<mgrVars, handler, mu, connVars, frame, sent, accepted, dropped,
                   req, bcast>>

WriterDrain(c) ==
    /\ WriterAt(c, "drain")
    /\ writer[c].n > 0
    /\ frame' = [frame EXCEPT ![c] = Append(@, Head(buf[c]))]
    /\ buf' = [buf EXCEPT ![c] = Tail(@)]
    /\ WriterGoto(c, "drain", writer[c].n - 1)
    /\ UNCHANGED <<mgrVars, handler, mu, connVars, sent, accepted, dropped, req, bcast>>

(* Mutant: the writer returns after its first frame.                       *)
WriterFlushOnce(c) ==
    /\ WriterAt(c, "drain")
    /\ writer[c].n = 0
    /\ WriteOK(c)
    /\ sent' = [sent EXCEPT ![c] = @ \o frame[c]]
    /\ frame' = [frame EXCEPT ![c] = <<>>]
    /\ WriterGoto(c, "off", 0)
    /\ UNCHANGED <<mgrVars, handler, mu, connVars, buf, accepted, dropped, req, bcast>>

WriterFlush(c) ==
    /\ WriterAt(c, "drain")
    /\ writer[c].n = 0
    /\ WriteOK(c)
    /\ sent' = [sent EXCEPT ![c] = @ \o frame[c]]
    /\ frame' = [frame EXCEPT ![c] = <<>>]
    /\ WriterGoto(c, "select", 0)
    /\ UNCHANGED <<mgrVars, handler, mu, connVars, buf, accepted, dropped, req, bcast>>

(* wsWriter returns, and its deferred conn.Close runs: when NextWriter or  *)
(* the end of the frame fails, when a ping fails, and when send is closed  *)
(* and empty, in which case it tries to write a close message first.       *)
WriterExit(c) ==
    /\ \/ WriterAt(c, "len") /\ WriteFails(c)
       \/ WriterAt(c, "drain") /\ writer[c].n = 0 /\ WriteFails(c)
       \/ WriterAt(c, "select") /\ WriteFails(c)
       \/ WriterAt(c, "select") /\ sendClosed[c] /\ buf[c] = <<>>
    /\ WriterGoto(c, "exited", 0)
    /\ open' = [open EXCEPT ![c] = FALSE]
    /\ UNCHANGED <<mgrVars, handler, mu, closed, sendClosed, peerGone, dataVars,
                   req, bcast>>

(* The peer closes, disappears, answers no ping for a minute, or takes so  *)
(* little that a write misses its deadline.                                *)
PeerGone(c) ==
    /\ open[c] /\ ~peerGone[c]
    /\ peerGone' = [peerGone EXCEPT ![c] = TRUE]
    /\ UNCHANGED <<mgrVars, handler, writer, mu, closed, sendClosed, open,
                   dataVars, req, bcast>>

-----------------------------------------------------------------------------
(* handleMessage: when the script has run, safeSend locks mu, looks at     *)
(* closed, and offers the reply while it still holds mu.                   *)

ReqGoto(r, p) == req' = [req EXCEPT ![r] = [pc |-> p, conn |-> @.conn]]

SafeSendLock(r) ==
    LET c == req[r].conn IN
    /\ req[r].pc = "run"
    /\ mu[c] = None
    /\ \/ /\ closed[c]
          /\ ReqGoto(r, "done")
          /\ UNCHANGED mu
       \/ /\ ~closed[c]
          /\ ReqGoto(r, "push")
          /\ mu' = [mu EXCEPT ![c] = r]
    /\ UNCHANGED <<mgrVars, handler, writer, connVars, dataVars, bcast>>

(* Mutant: the lock is not released when the reply is dropped.             *)
SafeSendPushLocked(r) ==
    LET c == req[r].conn IN
    /\ req[r].pc = "push"
    /\ mu' = IF Len(buf[c]) < SendCap THEN [mu EXCEPT ![c] = None] ELSE mu
    /\ TrySend(c, r)
    /\ ReqGoto(r, "done")
    /\ UNCHANGED <<mgrVars, handler, writer, connVars, bcast>>

SafeSendPush(r) ==
    LET c == req[r].conn IN
    /\ req[r].pc = "push"
    /\ mu' = [mu EXCEPT ![c] = None]
    /\ \/ /\ sendClosed[c]
          /\ ReqGoto(r, "panicked")
          /\ UNCHANGED dataVars
       \/ /\ ~sendClosed[c]
          /\ TrySend(c, r)
          /\ ReqGoto(r, "done")
    /\ UNCHANGED <<mgrVars, handler, writer, connVars, bcast>>

-----------------------------------------------------------------------------
(* Broadcast.  Range visits every connection that is registered all along, *)
(* and no connection twice; it may call the function for a connection that *)
(* has just been deleted.                                                  *)

BroadcastStart(b) ==
    /\ bcast[b].pc = "idle"
    /\ bcast' = [bcast EXCEPT ![b] = [@ EXCEPT !.pc = "range", !.must = connections]]
    /\ UNCHANGED <<mgrVars, handler, writer, mu, connVars, dataVars, req>>

(* Mutant: Range visits a connection again.                                *)
BroadcastNextAgain(b) ==
    /\ bcast[b].pc = "range"
    /\ \/ \E c \in connections :
             bcast' = [bcast EXCEPT ![b] = [@ EXCEPT !.pc = "send", !.conn = c,
                                                     !.seen = bcast[b].seen \cup {c}]]
       \/ /\ bcast[b].must \cap connections \subseteq bcast[b].seen
          /\ bcast' = [bcast EXCEPT ![b].pc = "done"]
    /\ UNCHANGED <<mgrVars, handler, writer, mu, connVars, dataVars, req>>

BroadcastNext(b) ==
    /\ bcast[b].pc = "range"
    /\ \/ \E c \in connections \ bcast[b].seen :
             bcast' = [bcast EXCEPT ![b] = [@ EXCEPT !.pc = "send", !.conn = c,
                                                     !.seen = bcast[b].seen \cup {c}]]
       \/ /\ bcast[b].must \cap connections \subseteq bcast[b].seen
          /\ bcast' = [bcast EXCEPT ![b].pc = "done"]
    /\ UNCHANGED <<mgrVars, handler, writer, mu, connVars, dataVars, req>>

(* A send to a closed channel panics, inside a select too.                 *)
BroadcastSend(b) ==
    LET c == bcast[b].conn IN
    /\ bcast[b].pc = "send"
    /\ \/ /\ sendClosed[c]
          /\ bcast' = [bcast EXCEPT ![b].pc = "panicked"]
          /\ UNCHANGED dataVars
       \/ /\ ~sendClosed[c]
          /\ TrySend(c, b)
          /\ bcast' = [bcast EXCEPT ![b].pc = "range"]
    /\ UNCHANGED <<mgrVars, handler, writer, mu, connVars, req>>

-----------------------------------------------------------------------------
Connect(c) == Upgrade(c) \/ RegisterCheck(c) \/ RegisterStore(c)
              \/ RegisterCount(c) \/ WelcomeOK(c) \/ WelcomeFails(c)
TearDown(c) == ReadError(c) \/ SetClosed(c) \/ CloseSend(c)
               \/ UnregisterDelete(c) \/ UnregisterCount(c) \/ HangUp(c)
HandleWebSocket(c) ==
    FirstCheck(c) \/ Connect(c) \/ TearDown(c) \/ \E r \in Requests : ReadMessage(c, r)
WsWriter(c) == WriterReceive(c) \/ WriterLen(c) \/ WriterDrain(c)
               \/ WriterFlush(c) \/ WriterExit(c)
SafeSend(r) == SafeSendLock(r) \/ SafeSendPush(r)
Broadcast(b) == BroadcastStart(b) \/ BroadcastNext(b) \/ BroadcastSend(b)

Next ==
    \/ \E c \in Conns : HandleWebSocket(c) \/ WsWriter(c) \/ PeerGone(c)
    \/ \E r \in Requests : SafeSend(r)
    \/ \E b \in Broadcasts : Broadcast(b)

(* Every goroutine that can run does.  A read ends with an error once the  *)
(* deadline has passed or the connection is closed; a script ends because  *)
(* the VM pool interrupts it.  No peer has to connect, to send or to leave.*)
Fairness ==
    /\ \A c \in Conns : WF_vars(Connect(c)) /\ WF_vars(TearDown(c)) /\ WF_vars(WsWriter(c))
    /\ \A r \in Requests : WF_vars(SafeSend(r))

Spec == Init /\ [][Next]_vars
FairSpec == Spec /\ Fairness
-----------------------------------------------------------------------------
Messages == Requests \cup Broadcasts

(* Every variable has its type, and no channel is over its capacity.       *)
TypeOK ==
    /\ connections \subseteq Conns
    /\ active \in Int /\ total \in Nat /\ dropped \in Nat
    /\ handler \in [Conns -> HandlerPC]
    /\ writer \in [Conns -> [pc : {"off", "select", "len", "drain", "exited"}, n : Nat]]
    /\ mu \in [Conns -> Requests \cup {None}]
    /\ closed \in [Conns -> BOOLEAN] /\ sendClosed \in [Conns -> BOOLEAN]
    /\ open \in [Conns -> BOOLEAN] /\ peerGone \in [Conns -> BOOLEAN]
    /\ buf \in [Conns -> Seq(Messages)]
    /\ \A c \in Conns : Len(buf[c]) <= SendCap
    /\ frame \in [Conns -> Seq(Messages)]
    /\ sent \in [Conns -> Seq(Messages \cup {Welcome})]
    /\ accepted \in [Conns -> Seq(Messages)]
    /\ req \in [Requests -> [pc : {"none", "run", "push", "done", "panicked"},
                             conn : Conns \cup {None}]]
    /\ bcast \in [Broadcasts -> [pc : {"idle", "range", "send", "done", "panicked"},
                                 conn : Conns \cup {None},
                                 seen : SUBSET Conns, must : SUBSET Conns]]

(* safeSend never sends to a closed channel: the handler sets closed under *)
(* the lock before it closes send, and safeSend offers its reply under the *)
(* lock after it has looked at closed.                                     *)
SafeSendNeverPanics == \A r \in Requests : req[r].pc # "panicked"

(* What has been written after the welcome message.                        *)
Delivered(c) == IF sent[c] = <<>> THEN <<>> ELSE Tail(sent[c])

(* What was accepted for a connection is what has been written, what is in *)
(* the current frame and what is still queued, in this order: wsWriter     *)
(* loses, repeats and reorders nothing although it batches messages while  *)
(* more of them arrive.                                                    *)
QueueInOrder ==
    \A c \in Conns : Delivered(c) \o frame[c] \o buf[c] = accepted[c]

(* The turn of a message at a connection has come: it was queued, dropped, *)
(* or not sent because the connection is closed.                           *)
Over(c, m) ==
    \/ m \in Requests /\ req[m].conn = c /\ req[m].pc \in {"done", "panicked"}
    \/ /\ m \in Broadcasts /\ c \in bcast[m].seen
       /\ bcast[m].pc = "send" => bcast[m].conn # c

Offered == {x \in Conns \X Messages : Over(x[1], x[2])}

(* A connection gets a reply only to what it has asked itself, every reply *)
(* once, and no broadcast twice, however the registry that Broadcast walks *)
(* through changes meanwhile.                                              *)
AtMostOnce ==
    \A c \in Conns :
        /\ \A i, j \in 1..Len(accepted[c]) : accepted[c][i] = accepted[c][j] => i = j
        /\ \A i \in 1..Len(accepted[c]) : Over(c, accepted[c][i])

Outstanding == [c \in Conns |-> frame[c] \o buf[c]]

Mail == INSTANCE Mailbox
    WITH Peers <- Conns, Limit <- SendCap + DrainMax + 1, Greeting <- Welcome,
         mailbox <- Outstanding, wire <- sent, offered <- Offered

(* The manager is a mailbox for every connection: no matter how wsWriter   *)
(* batches, how connections end and who else is sending, a message is      *)
(* offered to a connection once, is written after the welcome message and  *)
(* in its turn or not at all, and no more than the channel and one frame   *)
(* hold is outstanding for a peer that is slow.                            *)
Delivers == Mail!Spec

(* The peer gets the welcome message before everything else, although a    *)
(* broadcast reaches the connection as soon as Register has stored it.     *)
WelcomeFirst == \A c \in Conns : sent[c] # <<>> => Head(sent[c]) = Welcome

(* The registry and its counter agree whenever no Register or Unregister   *)
(* is halfway, and a handler that has returned leaves neither an entry nor *)
(* an open connection behind, on whichever path it returned.               *)
RegistryExact ==
    /\ (\A c \in Conns : handler[c] \notin {"count", "uncount"}) => active = Count
    /\ \A c \in Conns : handler[c] = "done" => c \notin connections /\ ~open[c]

(* The number of registered connections never exceeds maxConns.            *)
ConnectionLimit == Count <= MaxConns

(* Broadcast reaches the registered connections without failing.           *)
BroadcastNeverPanics == \A b \in Broadcasts : bcast[b].pc # "panicked"

(* Once the peer has gone its handler returns, its registration is undone  *)
(* and its writer, if it was started, has returned.                        *)
TornDown ==
    \A c \in Conns : peerGone[c] ~> /\ handler[c] = "done"
                                    /\ c \notin connections
                                    /\ writer[c].pc \in {"off", "exited"}

(* Every script that was started comes to an end of its reply: queued,     *)
(* dropped because the queue was full, or discarded on a closed connection.*)
RequestsSettle == \A r \in Requests : req[r].pc = "run" ~> req[r].pc = "done"

Queued(r, c) == \E i \in 1..Len(buf[c]) : buf[c][i] = r

(* A reply that was queued leaves the queue, unless the writer gave up.    *)
QueuedIsWritten ==
    \A r \in Requests, c \in Conns :
        Queued(r, c) ~> (~Queued(r, c) \/ writer[c].pc = "exited")

=============================================================================
