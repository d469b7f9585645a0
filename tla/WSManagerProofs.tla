-------------------------- MODULE WSManagerProofs --------------------------
(***************************************************************************)
(* Proofs about WSManager, for every set of connections, requests and      *)
(* broadcasts and every capacity.                                          *)
(***************************************************************************)
EXTENDS WSManager, FiniteSetTheorems, SequenceTheorems, TLAPS

(* The part of the type invariant that the argument needs.                 *)
LockTypes ==
    /\ handler \in [Conns -> HandlerPC]
    /\ mu \in [Conns -> Requests \cup {None}]
    /\ closed \in [Conns -> BOOLEAN]
    /\ sendClosed \in [Conns -> BOOLEAN]
    /\ req \in [Requests -> [pc : {"none", "run", "push", "done", "panicked"},
                             conn : Conns \cup {None}]]

(* A request that is about to offer its reply holds the lock of a          *)
(* connection that is not marked closed; send is closed only on a          *)
(* connection that is.                                                     *)
LockInv ==
    /\ LockTypes
    /\ \A r \in Requests : req[r].pc \in {"run", "push"} => req[r].conn \in Conns
    /\ \A r \in Requests : req[r].pc = "push" =>
            mu[req[r].conn] = r /\ ~closed[req[r].conn]
    /\ \A c \in Conns : handler[c] = "close" => closed[c]
    /\ \A c \in Conns : sendClosed[c] => closed[c]
    /\ \A r \in Requests : req[r].pc # "panicked"

LEMMA LockInit == Init => LockInv
  BY WSAssumption DEF Init, LockInv, LockTypes, HandlerPC

(* Steps that touch neither the requests nor the locks nor the flags, and  *)
(* that leave the handlers outside "close".                                *)
LEMMA LockOther ==
    ASSUME LockInv, UNCHANGED <<mu, closed, sendClosed, req>>,
           handler' \in [Conns -> HandlerPC],
           \A c \in Conns : handler'[c] = "close" => handler[c] = "close"
    PROVE  LockInv'
  BY DEF LockInv, LockTypes

LEMMA LockConnect ==
    ASSUME LockInv, NEW c \in Conns,
           FirstCheck(c) \/ Connect(c) \/ ReadError(c) \/ UnregisterDelete(c)
           \/ UnregisterCount(c) \/ HangUp(c) \/ WsWriter(c) \/ PeerGone(c)
    PROVE  LockInv'
  <1>1. UNCHANGED <<mu, closed, sendClosed, req>>
    BY DEF FirstCheck, Connect, Upgrade, RegisterCheck, RegisterStore, RegisterCount,
           WelcomeOK, WelcomeFails, ReadError, UnregisterDelete, UnregisterCount,
           HangUp, WsWriter, WriterReceive, WriterLen, WriterDrain, WriterFlush,
           WriterExit, PeerGone, connVars
  <1>2. handler' = handler \/ \E q \in HandlerPC \ {"close"} : handler' = [handler EXCEPT ![c] = q]
    BY DEF FirstCheck, Connect, Upgrade, RegisterCheck, RegisterStore, RegisterCount,
           WelcomeOK, WelcomeFails, ReadError, UnregisterDelete, UnregisterCount,
           HangUp, WsWriter, WriterReceive, WriterLen, WriterDrain, WriterFlush,
           WriterExit, PeerGone, Goto, HandlerPC
  <1>3. handler' \in [Conns -> HandlerPC]
        /\ \A d \in Conns : handler'[d] = "close" => handler[d] = "close"
    BY <1>2 DEF LockInv, LockTypes
  <1> QED
    BY <1>1, <1>3, LockOther

LEMMA LockRead ==
    ASSUME LockInv, NEW c \in Conns, NEW r \in Requests, ReadMessage(c, r)
    PROVE  LockInv'
  <1>1. /\ req[r].pc = "none" /\ req' = [req EXCEPT ![r] = [pc |-> "run", conn |-> c]]
        /\ UNCHANGED <<handler, mu, closed, sendClosed>>
    BY DEF ReadMessage, connVars
  <1> QED
    BY <1>1 DEF LockInv, LockTypes

(* The handler can mark the connection only while nobody holds its lock.   *)
LEMMA LockSetClosed ==
    ASSUME LockInv, NEW c \in Conns, SetClosed(c)
    PROVE  LockInv'
  <1>1. /\ mu[c] = None /\ closed' = [closed EXCEPT ![c] = TRUE]
        /\ handler' = [handler EXCEPT ![c] = "close"]
        /\ UNCHANGED <<mu, sendClosed, req>>
    BY DEF SetClosed, Goto
  <1>2. \A r \in Requests : req[r].pc = "push" => req[r].conn # c
    BY <1>1, WSAssumption DEF LockInv
  <1>3. LockTypes'
    BY <1>1 DEF LockInv, LockTypes, HandlerPC
  <1>4. \A r \in Requests : req'[r].pc = "push" => ~closed'[req'[r].conn]
    BY <1>1, <1>2 DEF LockInv, LockTypes
  <1> QED
    BY <1>1, <1>3, <1>4 DEF LockInv, LockTypes

LEMMA LockCloseSend ==
    ASSUME LockInv, NEW c \in Conns, CloseSend(c)
    PROVE  LockInv'
  <1>1. /\ handler[c] = "close" /\ handler' = [handler EXCEPT ![c] = "delete"]
        /\ sendClosed' = [sendClosed EXCEPT ![c] = TRUE]
        /\ UNCHANGED <<mu, closed, req>>
    BY DEF CloseSend, Goto
  <1> QED
    BY <1>1 DEF LockInv, LockTypes, HandlerPC

LEMMA LockSafeSend ==
    ASSUME LockInv, NEW r \in Requests, SafeSend(r)
    PROVE  LockInv'
  <1> DEFINE c == req[r].conn
  <1>0. UNCHANGED <<handler, closed, sendClosed>>
    BY DEF SafeSend, SafeSendLock, SafeSendPush, connVars
  <1>1. CASE SafeSendLock(r)
    <2>1. /\ req[r].pc = "run" /\ c \in Conns /\ mu[c] = None
      BY <1>1 DEF SafeSendLock, LockInv
    <2>2. CASE closed[c]
      <3>1. mu' = mu /\ req' = [req EXCEPT ![r] = [pc |-> "done", conn |-> c]]
        BY <1>1, <2>2 DEF SafeSendLock, ReqGoto
      <3> QED
        BY <1>0, <2>1, <3>1 DEF LockInv, LockTypes
    <2>3. CASE ~closed[c]
      <3>1. /\ mu' = [mu EXCEPT ![c] = r]
            /\ req' = [req EXCEPT ![r] = [pc |-> "push", conn |-> c]]
        BY <1>1, <2>3 DEF SafeSendLock, ReqGoto
      <3>2. \A s \in Requests : req[s].pc = "push" => req[s].conn # c
        BY <2>1, WSAssumption DEF LockInv
      <3> QED
        BY <1>0, <2>1, <2>3, <3>1, <3>2 DEF LockInv, LockTypes
    <2> QED
      BY <2>2, <2>3
  <1>2. CASE SafeSendPush(r)
    <2>1. /\ req[r].pc = "push" /\ c \in Conns /\ mu[c] = r /\ ~closed[c] /\ ~sendClosed[c]
      BY <1>2 DEF SafeSendPush, LockInv, LockTypes
    <2>2. /\ mu' = [mu EXCEPT ![c] = None]
          /\ req' = [req EXCEPT ![r] = [pc |-> "done", conn |-> c]]
      BY <1>2, <2>1 DEF SafeSendPush, ReqGoto
    <2>3. \A s \in Requests \ {r} : req[s].pc = "push" => req[s].conn # c
      BY <2>1 DEF LockInv
    <2> QED
      BY <1>0, <2>1, <2>2, <2>3 DEF LockInv, LockTypes
  <1> QED
    BY <1>1, <1>2 DEF SafeSend

LEMMA LockStep == LockInv /\ [Next]_vars => LockInv'
  <1> SUFFICES ASSUME LockInv, [Next]_vars PROVE LockInv'
    OBVIOUS
  <1>1. ASSUME NEW c \in Conns, HandleWebSocket(c) \/ WsWriter(c) \/ PeerGone(c)
        PROVE  LockInv'
    BY <1>1, LockConnect, LockRead, LockSetClosed, LockCloseSend
       DEF HandleWebSocket, TearDown
  <1>2. ASSUME NEW r \in Requests, SafeSend(r) PROVE LockInv'
    BY <1>2, LockSafeSend
  <1>3. ASSUME NEW b \in Broadcasts, Broadcast(b) PROVE LockInv'
    <2>1. UNCHANGED <<handler, mu, closed, sendClosed, req>>
      BY <1>3 DEF Broadcast, BroadcastStart, BroadcastNext, BroadcastSend, connVars
    <2> QED
      BY <2>1, LockOther DEF LockInv, LockTypes
  <1>4. CASE UNCHANGED vars
    BY <1>4, LockOther DEF vars, connVars, LockInv, LockTypes
  <1> QED
    BY <1>1, <1>2, <1>3, <1>4 DEF Next

(* No goroutine of handleMessage ever panics by sending to a channel that  *)
(* its handler has closed, however replies and the end of the connection   *)
(* interleave.                                                             *)
THEOREM SafeSendSafe == Spec => []SafeSendNeverPanics
  <1>1. LockInv => SafeSendNeverPanics
    BY DEF LockInv, SafeSendNeverPanics
  <1> QED
    BY LockInit, LockStep, <1>1, PTL DEF Spec

-----------------------------------------------------------------------------
(* The registry.  A connection is registered from the moment its handler   *)
(* has stored it until it deletes it, and counted a step later both times; *)
(* a handler that has not upgraded, or that has returned, has no open      *)
(* connection.                                                             *)
StoredAt  == {"count", "welcome", "reading", "flag", "close", "delete"}
CountedAt == {"welcome", "reading", "flag", "close", "delete", "uncount"}

Counted == {c \in Conns : handler[c] \in CountedAt}

RegistryInv ==
    /\ handler \in [Conns -> HandlerPC]
    /\ active \in Int /\ total \in Nat
    /\ open \in [Conns -> BOOLEAN]
    /\ connections = {c \in Conns : handler[c] \in StoredAt}
    /\ IsFiniteSet(Counted) /\ active = Cardinality(Counted)
    /\ \A c \in Conns : handler[c] \in {"new", "upgrade", "done"} => ~open[c]

LEMMA RegistryInit == Init => RegistryInv
  <1> SUFFICES ASSUME Init PROVE RegistryInv
    OBVIOUS
  <1>1. Counted = {} /\ connections = {c \in Conns : handler[c] \in StoredAt}
    BY DEF Init, Counted, CountedAt, StoredAt
  <1> QED
    BY <1>1, FS_EmptySet DEF Init, RegistryInv, HandlerPC

(* A handler moves on: what it does to the registry, to the counter and to *)
(* its connection is what its new place asks for.                          *)
Fits(c, q) ==
    /\ handler' = [handler EXCEPT ![c] = q]
    /\ connections' = IF q \in StoredAt THEN connections \cup {c}
                                        ELSE connections \ {c}
    /\ active' = IF q \in CountedAt
                    THEN IF handler[c] \in CountedAt THEN active ELSE active + 1
                    ELSE IF handler[c] \in CountedAt THEN active - 1 ELSE active
    /\ total' \in Nat
    /\ open' \in [Conns -> BOOLEAN]
    /\ q \in {"new", "upgrade", "done"} => ~open'[c]
    /\ \A d \in Conns \ {c} : open'[d] = open[d]

LEMMA RegistryMove ==
    ASSUME RegistryInv, NEW c \in Conns, NEW q \in HandlerPC, Fits(c, q)
    PROVE  RegistryInv'
  <1> USE DEF Fits
  <1>1. /\ handler' \in [Conns -> HandlerPC] /\ handler'[c] = q
        /\ \A d \in Conns \ {c} : handler'[d] = handler[d]
    BY DEF RegistryInv
  <1>2. connections' = {d \in Conns : handler'[d] \in StoredAt}
    BY <1>1 DEF RegistryInv
  <1>3. IsFiniteSet(Counted) /\ active = Cardinality(Counted) /\ active \in Int
    BY DEF RegistryInv
  <1>4. Counted' = IF q \in CountedAt THEN Counted \cup {c} ELSE Counted \ {c}
    BY <1>1 DEF Counted
  <1>5. c \in Counted <=> handler[c] \in CountedAt
    BY DEF Counted
  <1>6. IsFiniteSet(Counted') /\ active' = Cardinality(Counted')
    <2>1. CASE q \in CountedAt
      BY <1>3, <1>4, <1>5, <2>1, FS_AddElement
    <2>2. CASE q \notin CountedAt
      BY <1>3, <1>4, <1>5, <2>2, FS_RemoveElement
    <2> QED
      BY <2>1, <2>2
  <1>7. active' \in Int
    BY <1>3
  <1>8. \A d \in Conns : handler'[d] \in {"new", "upgrade", "done"} => ~open'[d]
    BY <1>1 DEF RegistryInv
  <1> QED
    BY <1>1, <1>2, <1>6, <1>7, <1>8 DEF RegistryInv

LEMMA RegistrySame ==
    ASSUME RegistryInv, UNCHANGED <<connections, active, total, handler>>,
           open' \in [Conns -> BOOLEAN],
           \A d \in Conns : open'[d] => open[d]
    PROVE  RegistryInv'
  <1>1. Counted' = Counted
    BY DEF Counted
  <1> QED
    BY <1>1 DEF RegistryInv

(* The part of HandleWebSocket before and after the read loop.             *)
LEMMA RegistryConnect ==
    ASSUME RegistryInv, NEW c \in Conns, FirstCheck(c) \/ Connect(c)
    PROVE  RegistryInv'
  <1>0. /\ c \in connections <=> handler[c] \in StoredAt
        /\ active \in Int /\ total \in Nat /\ open \in [Conns -> BOOLEAN]
        /\ handler \in [Conns -> HandlerPC]
        /\ handler[c] \in {"new", "upgrade", "done"} => ~open[c]
    BY DEF RegistryInv
  <1>1. CASE FirstCheck(c)
    <2>1. PICK q \in {"upgrade", "done"} : handler[c] = "new" /\ handler' = [handler EXCEPT ![c] = q]
      BY <1>1 DEF FirstCheck, Goto
    <2>2. UNCHANGED <<connections, active, total, open>>
      BY <1>1 DEF FirstCheck, Goto, mgrVars, connVars
    <2>3. Fits(c, q) /\ q \in HandlerPC
      BY <1>0, <2>1, <2>2
         DEF Fits, StoredAt, CountedAt, HandlerPC
    <2> QED
      BY <2>3, RegistryMove
  <1>2. CASE Upgrade(c)
    <2>1. UNCHANGED <<connections, active, total>> /\ handler[c] = "upgrade"
      BY <1>2 DEF Upgrade, Goto, mgrVars
    <2>2. CASE handler' = [handler EXCEPT ![c] = "check"] /\ open' = [open EXCEPT ![c] = TRUE]
      <3>1. Fits(c, "check") /\ "check" \in HandlerPC
        BY <1>0, <2>1, <2>2 DEF Fits, StoredAt, CountedAt, HandlerPC
      <3> QED
        BY <3>1, RegistryMove
    <2>3. CASE handler' = [handler EXCEPT ![c] = "done"] /\ open' = open
      <3>1. Fits(c, "done") /\ "done" \in HandlerPC
        BY <1>0, <2>1, <2>3 DEF Fits, StoredAt, CountedAt, HandlerPC
      <3> QED
        BY <3>1, RegistryMove
    <2> QED
      BY <1>2, <2>2, <2>3 DEF Upgrade, Goto
  <1>3. CASE RegisterCheck(c)
    <2>1. PICK q \in {"store", "hangup"} : handler[c] = "check" /\ handler' = [handler EXCEPT ![c] = q]
      BY <1>3 DEF RegisterCheck, Goto
    <2>2. UNCHANGED <<connections, active, total, open>>
      BY <1>3 DEF RegisterCheck, Goto, mgrVars, connVars
    <2>3. Fits(c, q) /\ q \in HandlerPC
      BY <1>0, <2>1, <2>2
         DEF Fits, StoredAt, CountedAt, HandlerPC
    <2> QED
      BY <2>3, RegistryMove
  <1>4. CASE RegisterStore(c)
    <2>1. /\ handler[c] = "store" /\ handler' = [handler EXCEPT ![c] = "count"]
          /\ connections' = connections \cup {c} /\ UNCHANGED <<active, total, open>>
      BY <1>4 DEF RegisterStore, Goto, connVars
    <2>2. Fits(c, "count") /\ "count" \in HandlerPC
      BY <1>0, <2>1
         DEF Fits, StoredAt, CountedAt, HandlerPC
    <2> QED
      BY <2>2, RegistryMove
  <1>5. CASE RegisterCount(c)
    <2>1. /\ handler[c] = "count" /\ handler' = [handler EXCEPT ![c] = "welcome"]
          /\ active' = active + 1 /\ total' = total + 1 /\ UNCHANGED <<connections, open>>
      BY <1>5 DEF RegisterCount, Goto, connVars
    <2>2. Fits(c, "welcome") /\ "welcome" \in HandlerPC
      BY <1>0, <2>1
         DEF Fits, StoredAt, CountedAt, HandlerPC
    <2> QED
      BY <2>2, RegistryMove
  <1>6. CASE WelcomeOK(c) \/ WelcomeFails(c)
    <2>1. PICK q \in {"reading", "delete"} :
              handler[c] = "welcome" /\ handler' = [handler EXCEPT ![c] = q]
      BY <1>6 DEF WelcomeOK, WelcomeFails, Goto
    <2>2. UNCHANGED <<connections, active, total, open>>
      BY <1>6 DEF WelcomeOK, WelcomeFails, Goto, mgrVars, connVars
    <2>3. Fits(c, q) /\ q \in HandlerPC
      BY <1>0, <2>1, <2>2
         DEF Fits, StoredAt, CountedAt, HandlerPC
    <2> QED
      BY <2>3, RegistryMove
  <1> QED
    BY <1>1, <1>2, <1>3, <1>4, <1>5, <1>6 DEF Connect

LEMMA RegistryTearDown ==
    ASSUME RegistryInv, NEW c \in Conns, TearDown(c)
    PROVE  RegistryInv'
  <1>0. /\ c \in connections <=> handler[c] \in StoredAt
        /\ active \in Int /\ total \in Nat /\ open \in [Conns -> BOOLEAN]
        /\ handler \in [Conns -> HandlerPC]
    BY DEF RegistryInv
  <1>1. CASE ReadError(c) \/ SetClosed(c) \/ CloseSend(c)
    <2>1. PICK q \in {"flag", "close", "delete"} :
              /\ handler[c] \in {"reading", "flag", "close"}
              /\ handler' = [handler EXCEPT ![c] = q]
      BY <1>1 DEF ReadError, SetClosed, CloseSend, Goto
    <2>2. UNCHANGED <<connections, active, total, open>>
      BY <1>1 DEF ReadError, SetClosed, CloseSend, Goto, mgrVars, connVars
    <2>3. Fits(c, q) /\ q \in HandlerPC
      BY <1>0, <2>1, <2>2
         DEF Fits, StoredAt, CountedAt, HandlerPC
    <2> QED
      BY <2>3, RegistryMove
  <1>2. CASE UnregisterDelete(c)
    <2>1. /\ handler[c] = "delete" /\ handler' = [handler EXCEPT ![c] = "uncount"]
          /\ connections' = connections \ {c} /\ UNCHANGED <<active, total, open>>
      BY <1>2 DEF UnregisterDelete, Goto, connVars
    <2>2. Fits(c, "uncount") /\ "uncount" \in HandlerPC
      BY <1>0, <2>1
         DEF Fits, StoredAt, CountedAt, HandlerPC
    <2> QED
      BY <2>2, RegistryMove
  <1>3. CASE UnregisterCount(c)
    <2>1. /\ handler[c] = "uncount" /\ handler' = [handler EXCEPT ![c] = "hangup"]
          /\ active' = active - 1 /\ UNCHANGED <<connections, total, open>>
      BY <1>3 DEF UnregisterCount, Goto, connVars
    <2>2. Fits(c, "hangup") /\ "hangup" \in HandlerPC
      BY <1>0, <2>1
         DEF Fits, StoredAt, CountedAt, HandlerPC
    <2> QED
      BY <2>2, RegistryMove
  <1>4. CASE HangUp(c)
    <2>1. /\ handler[c] = "hangup" /\ handler' = [handler EXCEPT ![c] = "done"]
          /\ open' = [open EXCEPT ![c] = FALSE] /\ UNCHANGED <<connections, active, total>>
      BY <1>4 DEF HangUp, Goto, mgrVars
    <2>2. Fits(c, "done") /\ "done" \in HandlerPC
      BY <1>0, <2>1
         DEF Fits, StoredAt, CountedAt, HandlerPC
    <2> QED
      BY <2>2, RegistryMove
  <1> QED
    BY <1>1, <1>2, <1>3, <1>4 DEF TearDown

LEMMA RegistryStep == RegistryInv /\ [Next]_vars => RegistryInv'
  <1> SUFFICES ASSUME RegistryInv, [Next]_vars PROVE RegistryInv'
    OBVIOUS
  <1>0. open \in [Conns -> BOOLEAN]
    BY DEF RegistryInv
  <1>1. ASSUME NEW c \in Conns, HandleWebSocket(c) PROVE RegistryInv'
    <2>1. ASSUME NEW r \in Requests, ReadMessage(c, r) PROVE RegistryInv'
      <3>1. UNCHANGED <<connections, active, total, handler, open>>
        BY <2>1 DEF ReadMessage, mgrVars, connVars
      <3> QED
        BY <1>0, <3>1, RegistrySame
    <2> QED
      BY <1>1, <2>1, RegistryConnect, RegistryTearDown DEF HandleWebSocket
  <1>2. ASSUME NEW c \in Conns, WsWriter(c) \/ PeerGone(c) PROVE RegistryInv'
    <2>1. UNCHANGED <<connections, active, total, handler>>
      BY <1>2 DEF WsWriter, WriterReceive, WriterLen, WriterDrain, WriterFlush,
                  WriterExit, PeerGone, mgrVars
    <2>2. open' = open \/ open' = [open EXCEPT ![c] = FALSE]
      BY <1>2 DEF WsWriter, WriterReceive, WriterLen, WriterDrain, WriterFlush,
                  WriterExit, PeerGone, connVars
    <2> QED
      BY <1>0, <2>1, <2>2, RegistrySame
  <1>3. ASSUME NEW r \in Requests, SafeSend(r) PROVE RegistryInv'
    <2>1. UNCHANGED <<connections, active, total, handler, open>>
      BY <1>3 DEF SafeSend, SafeSendLock, SafeSendPush, mgrVars, connVars
    <2> QED
      BY <1>0, <2>1, RegistrySame
  <1>4. ASSUME NEW b \in Broadcasts, Broadcast(b) PROVE RegistryInv'
    <2>1. UNCHANGED <<connections, active, total, handler, open>>
      BY <1>4 DEF Broadcast, BroadcastStart, BroadcastNext, BroadcastSend, mgrVars, connVars
    <2> QED
      BY <1>0, <2>1, RegistrySame
  <1>5. CASE UNCHANGED vars
    <2>1. UNCHANGED <<connections, active, total, handler, open>>
      BY <1>5 DEF vars, mgrVars, connVars
    <2> QED
      BY <1>0, <2>1, RegistrySame
  <1> QED
    BY <1>1, <1>2, <1>3, <1>4, <1>5 DEF Next

(* The counter of active connections agrees with the registry whenever no  *)
(* handler is between the two steps of Register or of Unregister, and a    *)
(* handler that has returned, on whichever path, leaves neither an entry   *)
(* nor an open connection behind.                                          *)
THEOREM RegistryCorrect == Spec => []RegistryExact
  <1>1. RegistryInv => RegistryExact
    <2> SUFFICES ASSUME RegistryInv PROVE RegistryExact
      OBVIOUS
    <2>1. ASSUME \A c \in Conns : handler[c] \notin {"count", "uncount"}
          PROVE  active = Count
      <3>1. connections = Counted
        BY <2>1 DEF RegistryInv, Counted, StoredAt, CountedAt
      <3> QED
        BY <3>1 DEF RegistryInv, Count
    <2>2. \A c \in Conns : handler[c] = "done" => c \notin connections /\ ~open[c]
      BY DEF RegistryInv, StoredAt
    <2> QED
      BY <2>1, <2>2 DEF RegistryExact
  <1> QED
    BY RegistryInit, RegistryStep, <1>1, PTL DEF Spec

-----------------------------------------------------------------------------
(* The queue.  The number of messages that wsWriter will still drain is    *)
(* covered by what the channel holds, since nobody else receives; wsWriter *)
(* exists from the welcome message on, and waits with an empty frame.      *)
QueueTypes ==
    /\ writer \in [Conns -> [pc : {"off", "select", "len", "drain", "exited"}, n : Nat]]
    /\ buf \in [Conns -> Seq(Messages)]
    /\ frame \in [Conns -> Seq(Messages)]
    /\ sent \in [Conns -> Seq(Messages \cup {Welcome})]
    /\ accepted \in [Conns -> Seq(Messages)]
    /\ dropped \in Nat

Early == {"new", "upgrade", "check", "store", "count", "welcome"}

Flows(c) ==
    /\ Len(buf[c]) <= SendCap
    /\ writer[c].n <= Len(buf[c])
    /\ handler[c] \in Early => writer[c].pc = "off"
    /\ writer[c].pc = "off" => sent[c] = <<>>
    /\ writer[c].pc # "off" => sent[c] # <<>> /\ Head(sent[c]) = Welcome
    /\ writer[c].pc \in {"off", "select"} => frame[c] = <<>>
    /\ Delivered(c) \in Seq(Messages)
    /\ Delivered(c) \o frame[c] \o buf[c] = accepted[c]

QueueInv == QueueTypes /\ \A c \in Conns : Flows(c)

(* What the moves of messages between queue, frame and network do to the   *)
(* concatenation of the three.                                             *)
LEMMA PushOrder ==
    \A d, f, b \in Seq(Messages) : \A m \in Messages :
        d \o f \o Append(b, m) = Append(d \o f \o b, m)
  <1> DEFINE S == Messages
  <1> HIDE DEF S
  <1> SUFFICES ASSUME NEW d \in Seq(S), NEW f \in Seq(S), NEW b \in Seq(S), NEW m \in S
               PROVE  d \o f \o Append(b, m) = Append(d \o f \o b, m)
    BY DEF S
  <1>1. d \o f \in Seq(S) /\ <<m>> \in Seq(S) /\ (d \o f) \o b \in Seq(S)
    BY ConcatProperties
  <1>2. Append(b, m) = b \o <<m>> /\ Append(d \o f \o b, m) = (d \o f \o b) \o <<m>>
    BY <1>1, AppendIsConcat
  <1> QED
    BY <1>1, <1>2, ConcatAssociative

LEMMA HeadFirst ==
    ASSUME NEW S, NEW b \in Seq(S), b # <<>>
    PROVE  /\ Head(b) \in S /\ <<Head(b)>> \in Seq(S) /\ Tail(b) \in Seq(S)
           /\ <<Head(b)>> \o Tail(b) = b
           /\ Len(Tail(b)) = Len(b) - 1 /\ Len(b) \in Nat
  OBVIOUS

LEMMA TakeOrder ==
    \A d, f, b \in Seq(Messages) :
        b # <<>> => d \o Append(f, Head(b)) \o Tail(b) = d \o f \o b
  <1> DEFINE S == Messages
  <1> HIDE DEF S
  <1> SUFFICES ASSUME NEW d \in Seq(S), NEW f \in Seq(S), NEW b \in Seq(S), b # <<>>
               PROVE  d \o Append(f, Head(b)) \o Tail(b) = d \o f \o b
    BY DEF S
  <1>1. Head(b) \in S /\ <<Head(b)>> \in Seq(S) /\ Tail(b) \in Seq(S)
        /\ <<Head(b)>> \o Tail(b) = b
    BY HeadFirst
  <1>2. Append(f, Head(b)) = f \o <<Head(b)>>
    BY <1>1, AppendIsConcat
  <1>3. d \o f \in Seq(S)
    BY ConcatProperties
  <1>4. d \o (f \o <<Head(b)>>) = (d \o f) \o <<Head(b)>>
    BY <1>1, ConcatAssociative
  <1>5. ((d \o f) \o <<Head(b)>>) \o Tail(b) = (d \o f) \o (<<Head(b)>> \o Tail(b))
    BY <1>1, <1>3, ConcatAssociative
  <1> QED
    BY <1>1, <1>2, <1>4, <1>5

LEMMA WriteOrder ==
    \A w \in Seq(Messages \cup {Welcome}) : \A f \in Seq(Messages) :
        w # <<>> /\ Tail(w) \in Seq(Messages) =>
            /\ w \o f \in Seq(Messages \cup {Welcome})
            /\ w \o f # <<>> /\ Head(w \o f) = Head(w)
            /\ Tail(w \o f) = Tail(w) \o f /\ Tail(w) \o f \in Seq(Messages)
  <1> DEFINE S == Messages
             T == Messages \cup {Welcome}
  <1>0. S \subseteq T
    OBVIOUS
  <1> HIDE DEF S, T
  <1> SUFFICES ASSUME NEW w \in Seq(T), w # <<>>, Tail(w) \in Seq(S), NEW f \in Seq(S)
               PROVE  /\ w \o f \in Seq(T) /\ w \o f # <<>> /\ Head(w \o f) = Head(w)
                      /\ Tail(w \o f) = Tail(w) \o f /\ Tail(w) \o f \in Seq(S)
    BY DEF S, T
  <1>1. f \in Seq(T) /\ Tail(w) \in Seq(T)
    BY <1>0
  <1>2. w \o f \in Seq(T) /\ w \o f # <<>> /\ Head(w \o f) = Head(w)
    BY <1>1
  <1>3. Tail(w) \o f \in Seq(S)
    BY ConcatProperties
  <1>4. Len(Tail(w \o f)) = Len(Tail(w) \o f)
    BY <1>1, <1>2
  <1>5. \A i \in 1..Len(Tail(w) \o f) : Tail(w \o f)[i] = (Tail(w) \o f)[i]
    BY <1>1, <1>2
  <1>6. Tail(w \o f) = Tail(w) \o f
    <2>1. Tail(w \o f) \in Seq(T) /\ Tail(w) \o f \in Seq(T)
      BY <1>1, <1>2, ConcatProperties
    <2> QED
      BY <1>4, <1>5, <2>1, SeqEqual
  <1> QED
    BY <1>2, <1>3, <1>6

LEMMA QueueInit == Init => QueueInv
  <1> SUFFICES ASSUME Init PROVE QueueInv
    OBVIOUS
  <1>1. QueueTypes
    BY DEF Init, QueueTypes
  <1>2. \A c \in Conns : Delivered(c) = <<>>
    BY DEF Init, Delivered
  <1>3. <<>> \o <<>> \o <<>> = <<>> /\ <<>> \in Seq(Messages)
    OBVIOUS
  <1>4. ASSUME NEW c \in Conns PROVE Flows(c)
    <2>1. /\ buf[c] = <<>> /\ frame[c] = <<>> /\ sent[c] = <<>> /\ accepted[c] = <<>>
          /\ writer[c].pc = "off" /\ writer[c].n = 0 /\ Len(buf[c]) = 0
      BY DEF Init
    <2>2. Len(buf[c]) <= SendCap /\ writer[c].n <= Len(buf[c])
      BY <2>1, WSAssumption
    <2> QED
      BY <1>2, <1>3, <2>1, <2>2, Zenon DEF Flows
  <1> QED
    BY <1>1, <1>4 DEF QueueInv

(* A connection that a step does not touch keeps its queue in order.       *)
LEMMA FlowsSame ==
    ASSUME NEW c \in Conns, Flows(c),
           handler'[c] \in Early => handler[c] \in Early,
           writer'[c] = writer[c], buf'[c] = buf[c], frame'[c] = frame[c],
           sent'[c] = sent[c], accepted'[c] = accepted[c]
    PROVE  Flows(c)'
  BY DEF Flows, Delivered

LEMMA QueueSame ==
    ASSUME QueueInv, UNCHANGED <<writer, buf, frame, sent, accepted, dropped>>,
           \A c \in Conns : handler'[c] \in Early => handler[c] \in Early
    PROVE  QueueInv'
  <1>1. QueueTypes'
    BY DEF QueueInv, QueueTypes
  <1>2. \A c \in Conns : Flows(c)'
    BY FlowsSame DEF QueueInv
  <1> QED
    BY <1>1, <1>2 DEF QueueInv

LEMMA FlowTypes ==
    ASSUME QueueInv, NEW c \in Conns
    PROVE  /\ buf[c] \in Seq(Messages) /\ frame[c] \in Seq(Messages)
           /\ sent[c] \in Seq(Messages \cup {Welcome}) /\ accepted[c] \in Seq(Messages)
           /\ writer[c].n \in Nat /\ Len(buf[c]) \in Nat
           /\ Delivered(c) \in Seq(Messages)
           /\ Delivered(c) \o frame[c] \o buf[c] = accepted[c]
           /\ Flows(c)
  <1>1. QueueTypes /\ Flows(c)
    BY Zenon DEF QueueInv
  <1>2. /\ buf[c] \in Seq(Messages) /\ frame[c] \in Seq(Messages)
        /\ sent[c] \in Seq(Messages \cup {Welcome}) /\ accepted[c] \in Seq(Messages)
        /\ writer[c].n \in Nat
    BY <1>1 DEF QueueTypes
  <1>3. Len(buf[c]) \in Nat
    BY <1>2, LenProperties
  <1>4. Delivered(c) \in Seq(Messages) /\ Delivered(c) \o frame[c] \o buf[c] = accepted[c]
    BY <1>1, Zenon DEF Flows
  <1> QED
    BY <1>1, <1>2, <1>3, <1>4, Zenon

(* select with a default: the message joins the queue or is dropped.       *)
LEMMA QueueTrySend ==
    ASSUME QueueInv, NEW c \in Conns, NEW m \in Messages, TrySend(c, m),
           UNCHANGED <<handler, writer>>
    PROVE  QueueInv'
  <1>0. frame' = frame /\ sent' = sent
    BY DEF TrySend
  <1>1. CASE dropped' = dropped + 1 /\ UNCHANGED <<buf, frame, sent, accepted>>
    <2>1. QueueTypes'
      BY <1>1 DEF QueueInv, QueueTypes
    <2>2. \A d \in Conns : Flows(d)'
      BY <1>1, FlowsSame DEF QueueInv
    <2> QED
      BY <2>1, <2>2 DEF QueueInv
  <1>2. CASE /\ Len(buf[c]) < SendCap
             /\ buf' = [buf EXCEPT ![c] = Append(buf[c], m)]
             /\ accepted' = [accepted EXCEPT ![c] = Append(accepted[c], m)]
             /\ UNCHANGED <<frame, sent, dropped>>
    <2>0. buf[c] \in Seq(Messages) /\ accepted[c] \in Seq(Messages)
      BY FlowTypes, Zenon
    <2>1. /\ Append(buf[c], m) \in Seq(Messages) /\ Append(accepted[c], m) \in Seq(Messages)
          /\ Len(Append(buf[c], m)) = Len(buf[c]) + 1
      BY <2>0, AppendProperties
    <2>2. QueueTypes'
      BY <1>2, <2>1 DEF QueueInv, QueueTypes
    <2>3. ASSUME NEW d \in Conns \ {c} PROVE Flows(d)'
      BY <1>2, FlowsSame DEF QueueInv, QueueTypes
    <2>4. Flows(c)'
      <3>1. /\ buf'[c] = Append(buf[c], m) /\ accepted'[c] = Append(accepted[c], m)
            /\ Delivered(c)' = Delivered(c) /\ frame'[c] = frame[c]
            /\ sent'[c] = sent[c] /\ writer'[c] = writer[c] /\ handler'[c] = handler[c]
        BY <1>2 DEF QueueInv, QueueTypes, Delivered
      <3>2. Delivered(c) \o frame[c] \o Append(buf[c], m) = Append(accepted[c], m)
        <4>1. /\ buf[c] \in Seq(Messages) /\ frame[c] \in Seq(Messages)
              /\ Delivered(c) \in Seq(Messages)
              /\ Delivered(c) \o frame[c] \o buf[c] = accepted[c]
          BY FlowTypes
        <4>2. Delivered(c) \o frame[c] \o Append(buf[c], m)
                = Append(Delivered(c) \o frame[c] \o buf[c], m)
          BY <4>1, PushOrder
        <4> QED
          BY <4>1, <4>2
      <3>3. writer[c].n \in Nat /\ Len(buf[c]) \in Nat /\ writer[c].n <= Len(buf[c]) /\ Flows(c)
        BY FlowTypes DEF Flows
      <3>4. Len(buf'[c]) <= SendCap /\ writer[c].n <= Len(buf'[c])
        BY <1>2, <2>1, <3>1, <3>3, WSAssumption
      <3> QED
        BY <3>1, <3>2, <3>3, <3>4, Zenon DEF Flows
    <2> QED
      BY <2>2, <2>3, <2>4 DEF QueueInv
  <1> QED
    BY <1>1, <1>2 DEF TrySend

(* The welcome message is the first to be written; wsWriter starts then.   *)
LEMMA QueueWelcome ==
    ASSUME QueueInv, NEW c \in Conns, WelcomeOK(c), handler \in [Conns -> HandlerPC]
    PROVE  QueueInv'
  <1>1. /\ handler[c] = "welcome" /\ handler' = [handler EXCEPT ![c] = "reading"]
        /\ sent' = [sent EXCEPT ![c] = Append(sent[c], Welcome)]
        /\ writer' = [writer EXCEPT ![c] = [pc |-> "select", n |-> 0]]
        /\ UNCHANGED <<buf, frame, accepted, dropped>>
    BY DEF WelcomeOK, Goto
  <1>2. writer[c].pc = "off" /\ sent[c] = <<>> /\ frame[c] = <<>>
    BY <1>1, FlowTypes DEF Flows, Early
  <1>3. /\ Append(sent[c], Welcome) = <<Welcome>> /\ <<Welcome>> # <<>>
        /\ <<Welcome>> \in Seq(Messages \cup {Welcome})
        /\ Head(<<Welcome>>) = Welcome /\ Tail(<<Welcome>>) = <<>>
    BY <1>2
  <1>4. QueueTypes'
    BY <1>1, <1>3 DEF QueueInv, QueueTypes
  <1>5. ASSUME NEW d \in Conns \ {c} PROVE Flows(d)'
    BY <1>1, FlowsSame DEF QueueInv, QueueTypes
  <1>6. Flows(c)'
    <2>1. /\ sent'[c] = <<Welcome>> /\ writer'[c] = [pc |-> "select", n |-> 0]
          /\ handler'[c] = "reading" /\ buf'[c] = buf[c] /\ frame'[c] = frame[c]
          /\ accepted'[c] = accepted[c]
      BY <1>1, <1>3 DEF QueueInv, QueueTypes
    <2>2. Delivered(c) = <<>> /\ Delivered(c)' = <<>>
      BY <1>2, <1>3, <2>1 DEF Delivered
    <2>3. /\ Flows(c) /\ Len(buf[c]) \in Nat /\ Delivered(c) \in Seq(Messages)
      BY FlowTypes
    <2>4. /\ writer'[c].pc = "select" /\ writer'[c].n <= Len(buf[c])
          /\ handler'[c] \notin Early
      BY <2>1, <2>3 DEF Early
    <2> QED
      BY <1>2, <1>3, <2>1, <2>2, <2>3, <2>4, Zenon DEF Flows
  <1> QED
    BY <1>4, <1>5, <1>6 DEF QueueInv

(* wsWriter moves messages from the queue to its frame, one at a time and  *)
(* no more than it has counted, and writes the frame.                      *)
LEMMA QueueReceive ==
    ASSUME QueueInv, NEW c \in Conns, WriterReceive(c)
    PROVE  QueueInv'
  <1>1. /\ writer[c].pc = "select" /\ buf[c] # <<>>
        /\ frame' = [frame EXCEPT ![c] = <<Head(buf[c])>>]
        /\ buf' = [buf EXCEPT ![c] = Tail(buf[c])]
        /\ writer' = [writer EXCEPT ![c] = [pc |-> "len", n |-> 0]]
        /\ UNCHANGED <<handler, sent, accepted, dropped>>
    BY DEF WriterReceive, WriterAt, WriterGoto
  <1>2. /\ buf[c] \in Seq(Messages) /\ Delivered(c) \in Seq(Messages) /\ frame[c] = <<>>
        /\ Delivered(c) \o frame[c] \o buf[c] = accepted[c] /\ Flows(c)
        /\ Len(buf[c]) <= SendCap /\ frame[c] \in Seq(Messages)
    BY <1>1, FlowTypes DEF Flows
  <1>3. /\ Head(buf[c]) \in Messages /\ <<Head(buf[c])>> \in Seq(Messages)
        /\ Tail(buf[c]) \in Seq(Messages)
        /\ Len(Tail(buf[c])) = Len(buf[c]) - 1 /\ Len(buf[c]) \in Nat
        /\ Len(Tail(buf[c])) \in Nat
    BY <1>1, <1>2, HeadFirst
  <1>4. QueueTypes'
    BY <1>1, <1>3 DEF QueueInv, QueueTypes
  <1>5. ASSUME NEW d \in Conns \ {c} PROVE Flows(d)'
    BY <1>1, FlowsSame DEF QueueInv, QueueTypes
  <1>6. Flows(c)'
    <2>1. /\ writer'[c].pc = "len" /\ writer'[c].n = 0 /\ buf'[c] = Tail(buf[c])
          /\ frame'[c] = <<Head(buf[c])>> /\ sent'[c] = sent[c]
          /\ handler'[c] = handler[c] /\ accepted'[c] = accepted[c]
      BY <1>1 DEF QueueInv, QueueTypes
    <2>2. Delivered(c)' = Delivered(c)
      BY <2>1 DEF Delivered
    <2>3. Append(frame[c], Head(buf[c])) = <<Head(buf[c])>>
      BY <1>2
    <2>4. Delivered(c) \o Append(frame[c], Head(buf[c])) \o Tail(buf[c])
            = Delivered(c) \o frame[c] \o buf[c]
      BY <1>1, <1>2, TakeOrder
    <2>5. Len(buf'[c]) <= SendCap /\ writer'[c].n <= Len(buf'[c])
      BY <1>2, <1>3, <2>1, WSAssumption
    <2>6. "len" # "off" /\ "len" # "select" /\ writer[c].pc # "off"
          /\ "len" \notin {"off", "select"}
      BY <1>1
    <2> QED
      BY <1>2, <2>1, <2>2, <2>3, <2>4, <2>5, <2>6, Zenon DEF Flows
  <1> QED
    BY <1>4, <1>5, <1>6 DEF QueueInv

LEMMA QueueDrain ==
    ASSUME QueueInv, NEW c \in Conns, WriterDrain(c)
    PROVE  QueueInv'
  <1>1. /\ writer[c].pc = "drain" /\ writer[c].n > 0
        /\ frame' = [frame EXCEPT ![c] = Append(frame[c], Head(buf[c]))]
        /\ buf' = [buf EXCEPT ![c] = Tail(buf[c])]
        /\ writer' = [writer EXCEPT ![c] = [pc |-> "drain", n |-> writer[c].n - 1]]
        /\ UNCHANGED <<handler, sent, accepted, dropped>>
    BY DEF WriterDrain, WriterAt, WriterGoto
  <1>2. /\ buf[c] \in Seq(Messages) /\ Delivered(c) \in Seq(Messages)
        /\ frame[c] \in Seq(Messages) /\ writer[c].n \in Nat /\ Len(buf[c]) \in Nat
        /\ Delivered(c) \o frame[c] \o buf[c] = accepted[c] /\ Flows(c)
        /\ Len(buf[c]) <= SendCap /\ writer[c].n <= Len(buf[c])
    BY <1>1, FlowTypes DEF Flows
  <1>3. buf[c] # <<>>
    <2>1. Len(buf[c]) > 0
      BY <1>1, <1>2
    <2> QED
      BY <2>1
  <1>4. /\ Head(buf[c]) \in Messages /\ Tail(buf[c]) \in Seq(Messages)
        /\ Len(Tail(buf[c])) = Len(buf[c]) - 1
    BY <1>2, <1>3, HeadFirst
  <1>5. Append(frame[c], Head(buf[c])) \in Seq(Messages) /\ writer[c].n - 1 \in Nat
    BY <1>1, <1>2, <1>4
  <1>6. QueueTypes'
    BY <1>1, <1>4, <1>5 DEF QueueInv, QueueTypes
  <1>7. ASSUME NEW d \in Conns \ {c} PROVE Flows(d)'
    BY <1>1, FlowsSame DEF QueueInv, QueueTypes
  <1>8. Flows(c)'
    <2>1. /\ writer'[c].pc = "drain" /\ writer'[c].n = writer[c].n - 1
          /\ buf'[c] = Tail(buf[c]) /\ frame'[c] = Append(frame[c], Head(buf[c]))
          /\ sent'[c] = sent[c] /\ handler'[c] = handler[c] /\ accepted'[c] = accepted[c]
      BY <1>1 DEF QueueInv, QueueTypes
    <2>2. Delivered(c)' = Delivered(c)
      BY <2>1 DEF Delivered
    <2>3. Delivered(c) \o Append(frame[c], Head(buf[c])) \o Tail(buf[c])
            = Delivered(c) \o frame[c] \o buf[c]
      BY <1>2, <1>3, TakeOrder
    <2>4. Len(buf'[c]) <= SendCap /\ writer'[c].n <= Len(buf'[c])
      BY <1>2, <1>4, <2>1, WSAssumption
    <2>5. "drain" # "off" /\ "drain" \notin {"off", "select"}
      OBVIOUS
    <2> QED
      BY <1>1, <1>2, <2>1, <2>2, <2>3, <2>4, <2>5, Zenon DEF Flows
  <1> QED
    BY <1>6, <1>7, <1>8 DEF QueueInv

LEMMA QueueFlush ==
    ASSUME QueueInv, NEW c \in Conns, WriterFlush(c)
    PROVE  QueueInv'
  <1>1. /\ writer[c].pc = "drain"
        /\ sent' = [sent EXCEPT ![c] = sent[c] \o frame[c]]
        /\ frame' = [frame EXCEPT ![c] = <<>>]
        /\ writer' = [writer EXCEPT ![c] = [pc |-> "select", n |-> 0]]
        /\ UNCHANGED <<handler, buf, accepted, dropped>>
    BY DEF WriterFlush, WriterAt, WriterGoto
  <1>2. /\ buf[c] \in Seq(Messages) /\ Delivered(c) \in Seq(Messages)
        /\ frame[c] \in Seq(Messages) /\ Len(buf[c]) \in Nat
        /\ sent[c] \in Seq(Messages \cup {Welcome})
        /\ Delivered(c) \o frame[c] \o buf[c] = accepted[c] /\ Flows(c)
        /\ sent[c] # <<>> /\ Head(sent[c]) = Welcome
    BY <1>1, FlowTypes DEF Flows
  <1>3. Delivered(c) = Tail(sent[c])
    BY <1>2 DEF Delivered
  <1>4. /\ sent[c] \o frame[c] \in Seq(Messages \cup {Welcome})
        /\ sent[c] \o frame[c] # <<>> /\ Head(sent[c] \o frame[c]) = Head(sent[c])
        /\ Tail(sent[c] \o frame[c]) = Tail(sent[c]) \o frame[c]
        /\ Tail(sent[c]) \o frame[c] \in Seq(Messages)
    BY <1>2, <1>3, WriteOrder
  <1>5. QueueTypes'
    BY <1>1, <1>4 DEF QueueInv, QueueTypes
  <1>6. ASSUME NEW d \in Conns \ {c} PROVE Flows(d)'
    BY <1>1, FlowsSame DEF QueueInv, QueueTypes
  <1>7. Flows(c)'
    <2>1. /\ writer'[c].pc = "select" /\ writer'[c].n = 0
          /\ buf'[c] = buf[c] /\ frame'[c] = <<>> /\ sent'[c] = sent[c] \o frame[c]
          /\ handler'[c] = handler[c] /\ accepted'[c] = accepted[c]
      BY <1>1 DEF QueueInv, QueueTypes
    <2>2. Delivered(c)' = Delivered(c) \o frame[c]
      BY <1>3, <1>4, <2>1 DEF Delivered
    <2>3. (Delivered(c) \o frame[c]) \o <<>> = Delivered(c) \o frame[c]
      BY <1>3, <1>4, ConcatEmptySeq
    <2>4. writer'[c].n <= Len(buf'[c])
      BY <1>2, <2>1
    <2>5. "select" # "off" /\ writer[c].pc # "off"
      BY <1>1
    <2> QED
      BY <1>2, <1>3, <1>4, <2>1, <2>2, <2>3, <2>4, <2>5, Zenon DEF Flows
  <1> QED
    BY <1>5, <1>6, <1>7 DEF QueueInv

(* wsWriter reads the length of the queue, or returns.                     *)
LEMMA QueueCount ==
    ASSUME QueueInv, NEW c \in Conns, WriterLen(c) \/ WriterExit(c)
    PROVE  QueueInv'
  <1>1. PICK p \in {"drain", "exited"}, n \in Nat :
            /\ writer[c].pc # "off" /\ n <= Len(buf[c])
            /\ writer' = [writer EXCEPT ![c] = [pc |-> p, n |-> n]]
    <2> DEFINE k == IF Len(buf[c]) < DrainMax THEN Len(buf[c]) ELSE DrainMax
    <2>1. Len(buf[c]) \in Nat
      BY FlowTypes
    <2>2. k \in Nat /\ k <= Len(buf[c]) /\ 0 \in Nat /\ 0 <= Len(buf[c])
      BY <2>1, WSAssumption
    <2>3. CASE WriterLen(c)
      <3>1. writer[c].pc = "len" /\ writer' = [writer EXCEPT ![c] = [pc |-> "drain", n |-> k]]
        BY <2>3 DEF WriterLen, WriterAt, WriterGoto
      <3> HIDE DEF k
      <3> QED
        BY <2>2, <3>1
    <2>4. CASE WriterExit(c)
      <3>1. /\ writer[c].pc \in {"len", "drain", "select"}
            /\ writer' = [writer EXCEPT ![c] = [pc |-> "exited", n |-> 0]]
        BY <2>4 DEF WriterExit, WriterAt, WriterGoto
      <3> QED
        BY <2>2, <3>1
    <2> QED
      BY <2>3, <2>4
  <1>2. UNCHANGED <<handler, buf, frame, sent, accepted, dropped>>
    BY DEF WriterLen, WriterExit, dataVars
  <1>3. QueueTypes'
    BY <1>1, <1>2 DEF QueueInv, QueueTypes
  <1>4. ASSUME NEW d \in Conns \ {c} PROVE Flows(d)'
    BY <1>1, <1>2, FlowsSame DEF QueueInv, QueueTypes
  <1>5. Flows(c)'
    <2>1. /\ writer'[c].pc = p /\ writer'[c].n = n /\ p # "off" /\ p \notin {"off", "select"}
      BY <1>1 DEF QueueInv, QueueTypes
    <2>2. Flows(c) /\ Delivered(c)' = Delivered(c)
      BY <1>2 DEF QueueInv, Delivered
    <2> QED
      BY <1>1, <1>2, <2>1, <2>2, Zenon DEF Flows
  <1> QED
    BY <1>3, <1>4, <1>5 DEF QueueInv

(* The invariant of the manager: the four parts, and what is left of the   *)
(* types.  A broadcast that is about to send has a connection to send to.  *)
BroadcastInv ==
    /\ peerGone \in [Conns -> BOOLEAN]
    /\ bcast \in [Broadcasts -> [pc : {"idle", "range", "send", "done", "panicked"},
                                 conn : Conns \cup {None},
                                 seen : SUBSET Conns, must : SUBSET Conns]]
    /\ \A b \in Broadcasts : bcast[b].pc = "send" => bcast[b].conn \in Conns

IInv == LockInv /\ RegistryInv /\ QueueInv /\ BroadcastInv

LEMMA QueueStep ==
    ASSUME IInv, [Next]_vars
    PROVE  QueueInv'
  <1>0. QueueInv /\ handler \in [Conns -> HandlerPC]
    BY DEF IInv, RegistryInv
  <1>1. ASSUME NEW c \in Conns, HandleWebSocket(c) \/ PeerGone(c), ~WelcomeOK(c)
        PROVE  QueueInv'
    <2>1. UNCHANGED <<writer, buf, frame, sent, accepted, dropped>>
      BY <1>1 DEF HandleWebSocket, FirstCheck, Connect, Upgrade, RegisterCheck,
             RegisterStore, RegisterCount, WelcomeFails, TearDown, ReadError,
             SetClosed, CloseSend, UnregisterDelete, UnregisterCount, HangUp,
             ReadMessage, PeerGone, dataVars
    <2>2. \/ handler' = handler
          \/ \E q \in HandlerPC :
                /\ handler' = [handler EXCEPT ![c] = q]
                /\ q \in Early => handler[c] \in Early
      BY <1>1 DEF HandleWebSocket, FirstCheck, Connect, Upgrade, RegisterCheck,
             RegisterStore, RegisterCount, WelcomeFails, TearDown, ReadError,
             SetClosed, CloseSend, UnregisterDelete, UnregisterCount, HangUp,
             ReadMessage, PeerGone, Goto, Early, HandlerPC
    <2>3. \A d \in Conns : handler'[d] \in Early => handler[d] \in Early
      BY <1>0, <2>2
    <2> QED
      BY <1>0, <2>1, <2>3, QueueSame
  <1>2. ASSUME NEW c \in Conns, WelcomeOK(c) \/ WsWriter(c) PROVE QueueInv'
    BY <1>0, <1>2, QueueWelcome, QueueReceive, QueueDrain, QueueFlush, QueueCount
       DEF WsWriter
  <1>3. ASSUME NEW r \in Requests, SafeSend(r) PROVE QueueInv'
    <2>1. UNCHANGED <<handler, writer>> /\ r \in Messages
      BY <1>3 DEF SafeSend, SafeSendLock, SafeSendPush, Messages
    <2>2. CASE UNCHANGED <<buf, frame, sent, accepted, dropped>>
      BY <1>0, <2>1, <2>2, QueueSame
    <2>3. CASE req[r].pc = "push" /\ TrySend(req[r].conn, r)
      <3>1. req[r].conn \in Conns
        BY <2>3 DEF IInv, LockInv
      <3> QED
        BY <1>0, <2>1, <2>3, <3>1, QueueTrySend
    <2> QED
      BY <1>3, <2>2, <2>3 DEF SafeSend, SafeSendLock, SafeSendPush, dataVars
  <1>4. ASSUME NEW b \in Broadcasts, Broadcast(b) PROVE QueueInv'
    <2>1. UNCHANGED <<handler, writer>> /\ b \in Messages
      BY <1>4 DEF Broadcast, BroadcastStart, BroadcastNext, BroadcastSend, Messages
    <2>2. CASE UNCHANGED <<buf, frame, sent, accepted, dropped>>
      BY <1>0, <2>1, <2>2, QueueSame
    <2>3. CASE bcast[b].pc = "send" /\ TrySend(bcast[b].conn, b)
      <3>1. bcast[b].conn \in Conns
        BY <2>3 DEF IInv, BroadcastInv
      <3> QED
        BY <1>0, <2>1, <2>3, <3>1, QueueTrySend
    <2> QED
      BY <1>4, <2>2, <2>3 DEF Broadcast, BroadcastStart, BroadcastNext, BroadcastSend, dataVars
  <1>5. CASE UNCHANGED vars
    <2>1. UNCHANGED <<handler, writer, buf, frame, sent, accepted, dropped>>
      BY <1>5 DEF vars, dataVars
    <2> QED
      BY <1>0, <2>1, QueueSame
  <1> QED
    BY <1>1, <1>2, <1>3, <1>4, <1>5 DEF Next

LEMMA BroadcastStep ==
    ASSUME IInv, [Next]_vars
    PROVE  BroadcastInv'
  <1>0. BroadcastInv /\ connections \subseteq Conns
    BY DEF IInv, RegistryInv
  <1>1. CASE UNCHANGED <<peerGone, bcast>>
    BY <1>0, <1>1 DEF BroadcastInv
  <1>2. ASSUME NEW c \in Conns, PeerGone(c) PROVE BroadcastInv'
    <2>1. peerGone' = [peerGone EXCEPT ![c] = TRUE] /\ bcast' = bcast
      BY <1>2 DEF PeerGone
    <2> QED
      BY <1>0, <2>1 DEF BroadcastInv
  <1>3. ASSUME NEW b \in Broadcasts, Broadcast(b) PROVE BroadcastInv'
    <2>0. peerGone' = peerGone
      BY <1>3 DEF Broadcast, BroadcastStart, BroadcastNext, BroadcastSend, connVars
    <2>1. CASE BroadcastStart(b)
      <3>1. bcast' = [bcast EXCEPT ![b] = [bcast[b] EXCEPT !.pc = "range", !.must = connections]]
        BY <2>1 DEF BroadcastStart
      <3> QED
        BY <1>0, <2>0, <3>1 DEF BroadcastInv
    <2>2. ASSUME NEW c \in connections,
                 bcast' = [bcast EXCEPT ![b] = [bcast[b] EXCEPT !.pc = "send", !.conn = c,
                                                 !.seen = bcast[b].seen \cup {c}]]
          PROVE  BroadcastInv'
      <3>1. c \in Conns /\ bcast[b].seen \cup {c} \in SUBSET Conns
        BY <1>0 DEF BroadcastInv
      <3> QED
        BY <1>0, <2>0, <2>2, <3>1 DEF BroadcastInv
    <2>3. ASSUME NEW p \in {"done", "panicked", "range"}, bcast' = [bcast EXCEPT ![b].pc = p]
          PROVE  BroadcastInv'
      BY <1>0, <2>0, <2>3 DEF BroadcastInv
    <2> QED
      BY <1>3, <2>1, <2>2, <2>3 DEF Broadcast, BroadcastNext, BroadcastSend
  <1>4. ASSUME NEW c \in Conns, HandleWebSocket(c) \/ WsWriter(c)
        PROVE  UNCHANGED <<peerGone, bcast>>
    BY <1>4 DEF HandleWebSocket, FirstCheck, Connect, Upgrade, RegisterCheck,
           RegisterStore, RegisterCount, WelcomeOK, WelcomeFails, TearDown, ReadError,
           SetClosed, CloseSend, UnregisterDelete, UnregisterCount, HangUp,
           ReadMessage, WsWriter, WriterReceive, WriterLen, WriterDrain, WriterFlush,
           WriterExit, connVars
  <1>5. ASSUME NEW r \in Requests, SafeSend(r) PROVE UNCHANGED <<peerGone, bcast>>
    BY <1>5 DEF SafeSend, SafeSendLock, SafeSendPush, connVars
  <1>6. UNCHANGED vars => UNCHANGED <<peerGone, bcast>>
    BY DEF vars, connVars
  <1> QED
    BY <1>1, <1>2, <1>3, <1>4, <1>5, <1>6 DEF Next

LEMMA InitIInv == Init => IInv
  <1>1. Init => BroadcastInv
    BY DEF Init, BroadcastInv
  <1> QED
    BY <1>1, LockInit, RegistryInit, QueueInit DEF IInv

LEMMA StepIInv == IInv /\ [Next]_vars => IInv'
  BY LockStep, RegistryStep, QueueStep, BroadcastStep DEF IInv

(* Every variable keeps its type, and no channel is ever over its capacity,*)
(* whoever sends to it.                                                    *)
THEOREM ManagerTypeCorrect == Spec => []TypeOK
  <1>1. IInv => TypeOK
    BY DEF IInv, LockInv, LockTypes, RegistryInv, QueueInv, QueueTypes, Flows,
           BroadcastInv, TypeOK
  <1> QED
    BY InitIInv, StepIInv, <1>1, PTL DEF Spec

(* wsWriter loses, repeats and reorders nothing: what was accepted for a   *)
(* connection is what has been written after the welcome message, then the *)
(* frame in progress, then the queue.  It rests on wsWriter being the only *)
(* receiver, so that what it has counted is still there when it drains it. *)
THEOREM QueueCorrect == Spec => []QueueInOrder
  <1>1. IInv => QueueInOrder
    BY DEF IInv, QueueInv, Flows, QueueInOrder
  <1> QED
    BY InitIInv, StepIInv, <1>1, PTL DEF Spec

(* The welcome message is written before every reply and every broadcast,  *)
(* although both may be queued before it.                                  *)
THEOREM WelcomeIsFirst == Spec => []WelcomeFirst
  <1>1. IInv => WelcomeFirst
    BY DEF IInv, QueueInv, Flows, WelcomeFirst
  <1> QED
    BY InitIInv, StepIInv, <1>1, PTL DEF Spec

-----------------------------------------------------------------------------
(* The mailboxes.  A frame has room for what wsWriter has still to drain,  *)
(* and a broadcast that is about to send counts the connection as visited. *)
Batch(c) ==
    /\ writer[c].pc = "len" => Len(frame[c]) = 1
    /\ writer[c].pc = "drain" =>
          frame[c] # <<>> /\ Len(frame[c]) + writer[c].n <= DrainMax + 1
    /\ Len(frame[c]) <= DrainMax + 1

Visits == \A b \in Broadcasts : bcast[b].pc = "send" => bcast[b].conn \in bcast[b].seen

MailInv == Visits /\ (\A c \in Conns : Batch(c)) /\ AtMostOnce

(* No message has its turn by a step, or exactly one has.                  *)
NoTurn == \A d \in Conns, n \in Messages : Over(d, n)' <=> Over(d, n)
Turn(c, m) ==
    /\ ~Over(c, m)
    /\ \A d \in Conns, n \in Messages : Over(d, n)' <=> (Over(d, n) \/ (d = c /\ n = m))

LEMMA NoTurnSame == UNCHANGED <<req, bcast>> => NoTurn
  BY DEF NoTurn, Over

LEMMA TurnRequest ==
    ASSUME LockTypes, NEW r \in Requests, NEW c \in Conns,
           NEW q \in {"run", "push", "done", "panicked"},
           req[r].pc \in {"none", "run", "push"}, bcast' = bcast,
           req' = [req EXCEPT ![r] = [pc |-> q, conn |-> c]]
    PROVE  /\ q \in {"run", "push"} => NoTurn
           /\ q \in {"done", "panicked"} => Turn(c, r)
  <1>1. req'[r].pc = q /\ req'[r].conn = c
    BY DEF LockTypes
  <1>2. \A s \in Requests \ {r} : req'[s] = req[s]
    BY DEF LockTypes
  <1>3. r \notin Broadcasts
    BY WSAssumption
  <1>4. \A d \in Conns : ~Over(d, r)
    BY <1>3 DEF Over
  <1>5. \A d \in Conns : Over(d, r)' <=> (d = c /\ q \in {"done", "panicked"})
    BY <1>1, <1>3 DEF Over
  <1>6. \A d \in Conns, n \in Messages \ {r} : Over(d, n)' <=> Over(d, n)
    BY <1>2 DEF Over
  <1>7. r \in Messages
    BY DEF Messages
  <1> QED
    BY <1>4, <1>5, <1>6, <1>7 DEF NoTurn, Turn

LEMMA TurnBroadcast ==
    ASSUME BroadcastInv, NEW b \in Broadcasts, req' = req,
           \A a \in Broadcasts \ {b} : bcast'[a] = bcast[a]
    PROVE  /\ (\A d \in Conns : Over(d, b)' <=> Over(d, b)) => NoTurn
           /\ \A c \in Conns :
                 /\ ~Over(c, b)
                 /\ \A d \in Conns : Over(d, b)' <=> (Over(d, b) \/ d = c)
                 => Turn(c, b)
  <1>1. \A d \in Conns, n \in Messages \ {b} : Over(d, n)' <=> Over(d, n)
    BY DEF Over
  <1>2. b \in Messages
    BY DEF Messages
  <1> QED
    BY <1>1, <1>2 DEF NoTurn, Turn

(* What a call of Broadcast does to the turns of its message.              *)
LEMMA BroadcastTurns ==
    ASSUME IInv, Visits, NEW b \in Broadcasts, Broadcast(b)
    PROVE  /\ Visits'
           /\ \/ NoTurn /\ UNCHANGED <<buf, frame, sent, accepted>>
              \/ \E c \in Conns : /\ Turn(c, b)
                                  /\ TrySend(c, b) \/ UNCHANGED dataVars
  <1>0. /\ BroadcastInv /\ connections \subseteq Conns /\ b \notin Requests
        /\ bcast[b].seen \subseteq Conns
    BY WSAssumption DEF IInv, RegistryInv, BroadcastInv
  <1>1. req' = req
    BY DEF Broadcast, BroadcastStart, BroadcastNext, BroadcastSend
  <1>2. CASE BroadcastStart(b)
    <2>1. /\ bcast[b].pc = "idle" /\ UNCHANGED <<buf, frame, sent, accepted>>
          /\ bcast' = [bcast EXCEPT ![b] = [bcast[b] EXCEPT !.pc = "range", !.must = connections]]
      BY <1>2 DEF BroadcastStart, dataVars
    <2>2. /\ bcast'[b].pc = "range" /\ bcast'[b].seen = bcast[b].seen
          /\ \A a \in Broadcasts \ {b} : bcast'[a] = bcast[a]
      BY <1>0, <2>1 DEF BroadcastInv
    <2>3. \A d \in Conns : Over(d, b)' <=> Over(d, b)
      BY <1>0, <2>1, <2>2 DEF Over
    <2>4. Visits'
      BY <2>2 DEF Visits
    <2> QED
      BY <1>0, <1>1, <2>1, <2>2, <2>3, <2>4, TurnBroadcast
  <1>3. ASSUME bcast[b].pc = "range", NEW c \in connections \ bcast[b].seen, UNCHANGED dataVars,
               bcast' = [bcast EXCEPT ![b] = [bcast[b] EXCEPT !.pc = "send", !.conn = c,
                                              !.seen = bcast[b].seen \cup {c}]]
        PROVE  Visits' /\ NoTurn
    <2>1. /\ bcast'[b].pc = "send" /\ bcast'[b].conn = c
          /\ bcast'[b].seen = bcast[b].seen \cup {c}
          /\ \A a \in Broadcasts \ {b} : bcast'[a] = bcast[a]
      BY <1>0, <1>3 DEF BroadcastInv
    <2>2. \A d \in Conns : Over(d, b)' <=> Over(d, b)
      BY <1>0, <1>3, <2>1 DEF Over
    <2>3. Visits'
      BY <2>1 DEF Visits
    <2> QED
      BY <1>0, <1>1, <2>1, <2>2, <2>3, TurnBroadcast
  <1>4. ASSUME bcast[b].pc = "range", UNCHANGED dataVars,
               bcast' = [bcast EXCEPT ![b].pc = "done"]
        PROVE  Visits' /\ NoTurn
    <2>1. /\ bcast'[b].pc = "done" /\ bcast'[b].seen = bcast[b].seen
          /\ \A a \in Broadcasts \ {b} : bcast'[a] = bcast[a]
      BY <1>0, <1>4 DEF BroadcastInv
    <2>2. \A d \in Conns : Over(d, b)' <=> Over(d, b)
      BY <1>0, <1>4, <2>1 DEF Over
    <2>3. Visits'
      BY <2>1 DEF Visits
    <2> QED
      BY <1>0, <1>1, <2>1, <2>2, <2>3, TurnBroadcast
  <1>5. ASSUME bcast[b].pc = "send", NEW q \in {"panicked", "range"},
               bcast' = [bcast EXCEPT ![b].pc = q]
        PROVE  Visits' /\ Turn(bcast[b].conn, b) /\ bcast[b].conn \in Conns
    <2>1. /\ bcast'[b].pc = q /\ bcast'[b].seen = bcast[b].seen
          /\ bcast'[b].conn = bcast[b].conn
          /\ \A a \in Broadcasts \ {b} : bcast'[a] = bcast[a]
      BY <1>0, <1>5 DEF BroadcastInv
    <2>2. bcast[b].conn \in Conns /\ bcast[b].conn \in bcast[b].seen
      BY <1>0, <1>5 DEF BroadcastInv, Visits
    <2>3. ~Over(bcast[b].conn, b)
      BY <1>0, <1>5 DEF Over
    <2>4. \A d \in Conns : Over(d, b)' <=> (Over(d, b) \/ d = bcast[b].conn)
      BY <1>0, <1>5, <2>1, <2>2 DEF Over
    <2>5. Visits'
      BY <2>1, <2>2 DEF Visits
    <2> QED
      BY <1>0, <1>1, <2>1, <2>2, <2>3, <2>4, <2>5, TurnBroadcast
  <1>6. CASE BroadcastNext(b)
    BY <1>3, <1>4, <1>6 DEF BroadcastNext, dataVars
  <1>7. CASE BroadcastSend(b)
    BY <1>5, <1>7 DEF BroadcastSend
  <1> QED
    BY <1>2, <1>6, <1>7 DEF Broadcast

(* A call of safeSend: the reply has its turn when it is offered, or when  *)
(* the connection is found closed.                                         *)
LEMMA SafeSendTurns ==
    ASSUME IInv, NEW r \in Requests, SafeSend(r)
    PROVE  \/ NoTurn /\ UNCHANGED dataVars
           \/ \E c \in Conns : Turn(c, r) /\ (TrySend(c, r) \/ UNCHANGED dataVars)
  <1>0. LockTypes /\ bcast' = bcast
    BY DEF IInv, LockInv, SafeSend, SafeSendLock, SafeSendPush
  <1>1. req[r].pc \in {"run", "push"} /\ req[r].conn \in Conns
    BY DEF IInv, LockInv, SafeSend, SafeSendLock, SafeSendPush
  <1>4. req[r].pc \in {"none", "run", "push"}
    BY <1>1
  <1> PICK c \in Conns : c = req[r].conn
    BY <1>1
  <1>2. CASE SafeSendLock(r)
    <2>1. UNCHANGED dataVars
      BY <1>2 DEF SafeSendLock
    <2>2. PICK q \in {"push", "done"} :
              req' = [req EXCEPT ![r] = [pc |-> q, conn |-> c]]
      BY <1>2 DEF SafeSendLock, ReqGoto
    <2>3. NoTurn \/ Turn(c, r)
      BY <1>0, <1>4, <2>2, TurnRequest
    <2> QED
      BY <2>1, <2>3
  <1>3. CASE SafeSendPush(r)
    <2>1. TrySend(c, r) \/ UNCHANGED dataVars
      BY <1>3 DEF SafeSendPush
    <2>2. PICK q \in {"panicked", "done"} :
              req' = [req EXCEPT ![r] = [pc |-> q, conn |-> c]]
      BY <1>3 DEF SafeSendPush, ReqGoto
    <2>3. Turn(c, r)
      BY <1>0, <1>4, <2>2, TurnRequest
    <2> QED
      BY <2>1, <2>3
  <1> QED
    BY <1>2, <1>3 DEF SafeSend

(* What a step of the manager is for the mailboxes.                        *)
Takes(c) == WriterReceive(c) \/ WriterDrain(c)
MailStep ==
    \/ NoTurn /\ UNCHANGED <<buf, frame, sent, accepted>>
    \/ \E c \in Conns : NoTurn /\ (WelcomeOK(c) \/ Takes(c) \/ WriterFlush(c))
    \/ \E c \in Conns, m \in Messages : Turn(c, m) /\ (TrySend(c, m) \/ UNCHANGED dataVars)

LEMMA StepIsMailStep ==
    ASSUME IInv, Visits, [Next]_vars
    PROVE  Visits' /\ MailStep
  <1>1. ASSUME NEW b \in Broadcasts, Broadcast(b) PROVE Visits' /\ MailStep
    <2>1. b \in Messages
      BY DEF Messages
    <2> QED
      BY <1>1, <2>1, BroadcastTurns DEF MailStep
  <1>2. bcast' = bcast => Visits'
    BY DEF Visits
  <1>3. ASSUME NEW r \in Requests, SafeSend(r) PROVE Visits' /\ MailStep
    <2>1. r \in Messages /\ bcast' = bcast
      BY <1>3 DEF Messages, SafeSend, SafeSendLock, SafeSendPush
    <2> QED
      BY <1>2, <1>3, <2>1, SafeSendTurns DEF MailStep, dataVars
  <1>4. ASSUME NEW c \in Conns, NEW r \in Requests, ReadMessage(c, r) PROVE Visits' /\ MailStep
    <2>1. /\ UNCHANGED <<buf, frame, sent, accepted, bcast>> /\ req[r].pc = "none"
          /\ req' = [req EXCEPT ![r] = [pc |-> "run", conn |-> c]]
      BY <1>4 DEF ReadMessage, dataVars
    <2>2. LockTypes
      BY DEF IInv, LockInv
    <2>3. NoTurn
      BY <2>1, <2>2, TurnRequest
    <2> QED
      BY <1>2, <2>1, <2>3 DEF MailStep
  <1>5. ASSUME NEW c \in Conns, WsWriter(c) \/ WelcomeOK(c) PROVE Visits' /\ MailStep
    <2>1. UNCHANGED <<req, bcast>>
      BY <1>5 DEF WsWriter, WriterReceive, WriterLen, WriterDrain, WriterFlush, WriterExit,
             WelcomeOK
    <2>2. NoTurn
      BY <2>1, NoTurnSame
    <2>3. CASE WriterLen(c) \/ WriterExit(c)
      <3>1. UNCHANGED <<buf, frame, sent, accepted>>
        BY <2>3 DEF WriterLen, WriterExit, dataVars
      <3> QED
        BY <1>2, <2>1, <2>2, <3>1 DEF MailStep
    <2> QED
      BY <1>2, <1>5, <2>1, <2>2, <2>3 DEF MailStep, WsWriter, Takes
  <1>6. ASSUME NEW c \in Conns, HandleWebSocket(c) \/ PeerGone(c), ~WelcomeOK(c),
               ~\E r \in Requests : ReadMessage(c, r)
        PROVE  Visits' /\ MailStep
    <2>1. UNCHANGED <<buf, frame, sent, accepted, req, bcast>>
      BY <1>6 DEF HandleWebSocket, FirstCheck, Connect, Upgrade, RegisterCheck,
             RegisterStore, RegisterCount, WelcomeFails, TearDown, ReadError,
             SetClosed, CloseSend, UnregisterDelete, UnregisterCount, HangUp,
             PeerGone, dataVars
    <2> QED
      BY <1>2, <2>1, NoTurnSame DEF MailStep
  <1>7. CASE UNCHANGED vars
    <2>1. UNCHANGED <<buf, frame, sent, accepted, req, bcast>>
      BY <1>7 DEF vars, dataVars
    <2> QED
      BY <1>2, <2>1, NoTurnSame DEF MailStep
  <1> QED
    BY <1>1, <1>3, <1>4, <1>5, <1>6, <1>7 DEF Next

(* A message that is queued had not been queued before.                    *)
LEMMA OnceStep ==
    ASSUME IInv, AtMostOnce, MailStep
    PROVE  AtMostOnce'
  <1>0. accepted \in [Conns -> Seq(Messages)]
    BY DEF IInv, QueueInv, QueueTypes
  <1>1. CASE NoTurn /\ accepted' = accepted
    <2>1. ASSUME NEW c \in Conns, NEW i \in 1..Len(accepted[c])
          PROVE  Over(c, accepted[c][i])'
      <3>1. accepted[c][i] \in Messages
        BY <1>0
      <3> QED
        BY <1>1, <3>1 DEF NoTurn, AtMostOnce
    <2> QED
      BY <1>1, <2>1 DEF AtMostOnce
  <1>2. ASSUME NEW c \in Conns, NEW m \in Messages, Turn(c, m), accepted' = accepted
        PROVE  AtMostOnce'
    <2>1. ASSUME NEW d \in Conns, NEW i \in 1..Len(accepted[d])
          PROVE  Over(d, accepted[d][i])'
      <3>1. accepted[d][i] \in Messages
        BY <1>0
      <3> QED
        BY <1>2, <3>1 DEF Turn, AtMostOnce
    <2> QED
      BY <1>2, <2>1 DEF AtMostOnce
  <1>3. ASSUME NEW c \in Conns, NEW m \in Messages, Turn(c, m),
               accepted' = [accepted EXCEPT ![c] = Append(accepted[c], m)]
        PROVE  AtMostOnce'
    <2>1. ASSUME NEW d \in Conns
          PROVE  /\ \A i, j \in 1..Len(accepted'[d]) : accepted'[d][i] = accepted'[d][j] => i = j
                 /\ \A i \in 1..Len(accepted'[d]) : Over(d, accepted[d][i])'
      <3>0. accepted[d] \in Seq(Messages) /\ Len(accepted[d]) \in Nat
        BY <1>0
      <3>1. ASSUME NEW i \in 1..Len(accepted[d]), NEW n, n = accepted[d][i]
            PROVE  Over(d, n) /\ Over(d, n)'
        <4>1. n \in Messages
          BY <1>0, <3>1
        <4>2. Over(d, n)
          BY <3>1 DEF AtMostOnce
        <4> QED
          BY <1>3, <4>1, <4>2 DEF Turn
      <3>2. CASE d # c
        <4>1. accepted'[d] = accepted[d]
          BY <1>0, <1>3, <3>2
        <4>2. ASSUME NEW i \in 1..Len(accepted'[d]) PROVE Over(d, accepted[d][i])'
          <5>1. ASSUME NEW n, n = accepted'[d][i] PROVE Over(d, n)'
            BY <3>1, <4>1, <5>1
          <5> QED
            BY <5>1 DEF Over
        <4> QED
          BY <4>1, <4>2 DEF AtMostOnce
      <3>3. CASE d = c
        <4>1. /\ accepted'[d] = Append(accepted[d], m)
              /\ Len(accepted'[d]) = Len(accepted[d]) + 1
              /\ accepted'[d][Len(accepted[d]) + 1] = m
              /\ \A i \in 1..Len(accepted[d]) : accepted'[d][i] = accepted[d][i]
          BY <1>0, <1>3, <3>0, <3>3
        <4>2. \A i \in 1..Len(accepted[d]) : accepted[d][i] # m
          BY <1>3, <3>1, <3>3 DEF Turn
        <4>3. Over(d, m)'
          BY <1>3, <3>3 DEF Turn
        <4>4. \A i \in 1..Len(accepted'[d]) : i \in 1..Len(accepted[d]) \/ i = Len(accepted[d]) + 1
          BY <3>0, <4>1
        <4>5. \A i, j \in 1..Len(accepted[d]) : accepted[d][i] = accepted[d][j] => i = j
          BY DEF AtMostOnce
        <4>6. ASSUME NEW i \in 1..Len(accepted'[d]) PROVE Over(d, accepted[d][i])'
          <5>1. ASSUME NEW n, n = accepted'[d][i] PROVE Over(d, n)'
            BY <3>1, <4>1, <4>3, <4>4, <5>1
          <5> QED
            BY <5>1 DEF Over
        <4>7. \A i, j \in 1..Len(accepted'[d]) : accepted'[d][i] = accepted'[d][j] => i = j
          BY <4>1, <4>2, <4>4, <4>5
        <4> QED
          BY <4>6, <4>7
      <3> QED
        BY <3>2, <3>3
    <2> QED
      BY <2>1 DEF AtMostOnce
  <1>4. ASSUME NEW c \in Conns, WelcomeOK(c) \/ Takes(c) \/ WriterFlush(c)
        PROVE  accepted' = accepted
    BY <1>4 DEF WelcomeOK, Takes, WriterReceive, WriterDrain, WriterFlush
  <1> QED
    BY <1>1, <1>2, <1>3, <1>4 DEF MailStep, TrySend, dataVars

LEMMA BatchSame ==
    ASSUME NEW c \in Conns, Batch(c), writer'[c] = writer[c], frame'[c] = frame[c]
    PROVE  Batch(c)'
  BY DEF Batch

(* wsWriter never counts more messages than fit into its frame.            *)
LEMMA BatchStep ==
    ASSUME IInv, \A c \in Conns : Batch(c), [Next]_vars
    PROVE  \A c \in Conns : Batch(c)'
  <1>0. /\ QueueInv /\ writer \in [Conns -> [pc : {"off", "select", "len", "drain", "exited"}, n : Nat]]
        /\ frame \in [Conns -> Seq(Messages)] /\ DrainMax \in Nat
    BY WSAssumption DEF IInv, QueueInv, QueueTypes
  <1>1. CASE UNCHANGED <<writer, frame>>
    BY <1>1, BatchSame
  <1>2. ASSUME NEW c \in Conns, NEW p \in {"select", "exited", "len", "drain"}, NEW n \in Nat,
               writer' = [writer EXCEPT ![c] = [pc |-> p, n |-> n]],
               NEW f \in Seq(Messages), frame' = [frame EXCEPT ![c] = f],
               Len(f) <= DrainMax + 1, p = "len" => Len(f) = 1,
               p = "drain" => f # <<>> /\ Len(f) + n <= DrainMax + 1
        PROVE  \A d \in Conns : Batch(d)'
    <2>1. writer'[c].pc = p /\ writer'[c].n = n /\ frame'[c] = f
      BY <1>0, <1>2
    <2>2. Batch(c)'
      BY <1>2, <2>1 DEF Batch
    <2>3. \A d \in Conns \ {c} : writer'[d] = writer[d] /\ frame'[d] = frame[d]
      BY <1>0, <1>2
    <2> QED
      BY <2>2, <2>3, BatchSame
  <1>3. ASSUME NEW c \in Conns, WelcomeOK(c) PROVE \A d \in Conns : Batch(d)'
    <2>1. /\ writer' = [writer EXCEPT ![c] = [pc |-> "select", n |-> 0]] /\ frame' = frame
          /\ Len(frame[c]) <= DrainMax + 1 /\ frame[c] \in Seq(Messages)
      BY <1>0, <1>3 DEF WelcomeOK, Batch
    <2>2. frame' = [frame EXCEPT ![c] = frame[c]]
      BY <1>0, <2>1
    <2> QED
      BY <1>2, <2>1, <2>2
  <1>4. ASSUME NEW c \in Conns, WriterReceive(c) PROVE \A d \in Conns : Batch(d)'
    <2>1. /\ frame' = [frame EXCEPT ![c] = <<Head(buf[c])>>] /\ buf[c] # <<>>
          /\ writer' = [writer EXCEPT ![c] = [pc |-> "len", n |-> 0]]
      BY <1>4 DEF WriterReceive, WriterGoto
    <2>2. Head(buf[c]) \in Messages
      BY <1>0, <2>1, FlowTypes, HeadFirst
    <2>3. <<Head(buf[c])>> \in Seq(Messages) /\ Len(<<Head(buf[c])>>) = 1
      BY <2>2
    <2>4. PICK f \in Seq(Messages) : f = <<Head(buf[c])>> /\ Len(f) = 1
      BY <2>3
    <2>5. 1 <= DrainMax + 1 /\ 0 \in Nat
      BY <1>0
    <2>6. frame' = [frame EXCEPT ![c] = f]
      BY <2>1, <2>4
    <2> QED
      BY <1>2, <2>1, <2>4, <2>5, <2>6
  <1>5. ASSUME NEW c \in Conns, WriterLen(c) PROVE \A d \in Conns : Batch(d)'
    <2> DEFINE k == IF Len(buf[c]) < DrainMax THEN Len(buf[c]) ELSE DrainMax
    <2>1. /\ writer[c].pc = "len" /\ frame' = frame
          /\ writer' = [writer EXCEPT ![c] = [pc |-> "drain", n |-> k]]
      BY <1>5 DEF WriterLen, WriterAt, WriterGoto, dataVars
    <2>2. k \in Nat /\ k <= DrainMax
      <3>1. Len(buf[c]) \in Nat
        BY <1>0, FlowTypes
      <3> QED
        BY <1>0, <3>1
    <2>3. Len(frame[c]) = 1 /\ frame[c] \in Seq(Messages) /\ frame' = [frame EXCEPT ![c] = frame[c]]
      BY <1>0, <2>1 DEF Batch
    <2>4. frame[c] # <<>>
      <3>1. frame[c] = <<>> <=> Len(frame[c]) = 0
        BY <2>3, EmptySeq, Zenon
      <3> QED
        BY <2>3, <3>1
    <2> HIDE DEF k
    <2>5. Len(frame[c]) + k <= DrainMax + 1 /\ Len(frame[c]) <= DrainMax + 1
      BY <1>0, <2>2, <2>3
    <2> QED
      BY <1>2, <2>1, <2>2, <2>3, <2>4, <2>5
  <1>6. ASSUME NEW c \in Conns, WriterDrain(c) PROVE \A d \in Conns : Batch(d)'
    <2>1. /\ frame' = [frame EXCEPT ![c] = Append(frame[c], Head(buf[c]))]
          /\ writer[c].pc = "drain" /\ writer[c].n > 0
          /\ writer' = [writer EXCEPT ![c] = [pc |-> "drain", n |-> writer[c].n - 1]]
      BY <1>6 DEF WriterDrain, WriterAt, WriterGoto
    <2>2. /\ writer[c].n \in Nat /\ Len(buf[c]) \in Nat /\ writer[c].n <= Len(buf[c])
          /\ buf[c] \in Seq(Messages) /\ frame[c] \in Seq(Messages) /\ Len(frame[c]) \in Nat
      <3>1. buf[c] \in Seq(Messages) /\ frame[c] \in Seq(Messages) /\ writer[c].n \in Nat
        BY <1>0 DEF QueueInv, QueueTypes
      <3>2. Len(buf[c]) \in Nat /\ Len(frame[c]) \in Nat
        BY <3>1
      <3>3. writer[c].n <= Len(buf[c])
        BY <1>0, <2>1 DEF QueueInv, Flows
      <3> QED
        BY <3>1, <3>2, <3>3
    <2>3. Len(buf[c]) > 0
      BY <2>1, <2>2
    <2>4. buf[c] # <<>>
      BY <2>3
    <2>5. Head(buf[c]) \in Messages
      BY <2>2, <2>4, HeadFirst
    <2>6. /\ Append(frame[c], Head(buf[c])) \in Seq(Messages)
          /\ Len(Append(frame[c], Head(buf[c]))) = Len(frame[c]) + 1
          /\ Append(frame[c], Head(buf[c])) # <<>>
      BY <2>2, <2>5
    <2>7. Len(frame[c]) + writer[c].n <= DrainMax + 1
      BY <2>1 DEF Batch
    <2>8. /\ Len(Append(frame[c], Head(buf[c]))) + (writer[c].n - 1) <= DrainMax + 1
          /\ Len(Append(frame[c], Head(buf[c]))) <= DrainMax + 1 /\ writer[c].n - 1 \in Nat
      BY <1>0, <2>1, <2>2, <2>6, <2>7
    <2> QED
      BY <1>2, <2>1, <2>6, <2>8
  <1>7. ASSUME NEW c \in Conns, WriterFlush(c) PROVE \A d \in Conns : Batch(d)'
    <2>1. /\ frame' = [frame EXCEPT ![c] = <<>>] /\ <<>> \in Seq(Messages) /\ Len(<<>>) = 0
          /\ writer' = [writer EXCEPT ![c] = [pc |-> "select", n |-> 0]]
      BY <1>7 DEF WriterFlush, WriterGoto
    <2>2. PICK f \in Seq(Messages) : f = <<>> /\ Len(f) = 0
      BY <2>1
    <2>3. 0 <= DrainMax + 1 /\ 0 \in Nat
      BY <1>0
    <2>4. frame' = [frame EXCEPT ![c] = f]
      BY <2>1, <2>2
    <2> QED
      BY <1>2, <2>1, <2>2, <2>3, <2>4
  <1>8. ASSUME NEW c \in Conns, WriterExit(c) PROVE \A d \in Conns : Batch(d)'
    <2>1. /\ frame' = frame /\ frame[c] \in Seq(Messages) /\ Len(frame[c]) <= DrainMax + 1
          /\ writer' = [writer EXCEPT ![c] = [pc |-> "exited", n |-> 0]]
      BY <1>0, <1>8 DEF WriterExit, WriterGoto, Batch, dataVars
    <2>2. frame' = [frame EXCEPT ![c] = frame[c]]
      BY <1>0, <2>1
    <2> QED
      BY <1>2, <2>1, <2>2
  <1>9. ASSUME NEW c \in Conns, HandleWebSocket(c) \/ PeerGone(c), ~WelcomeOK(c)
        PROVE  UNCHANGED <<writer, frame>>
    BY <1>9 DEF HandleWebSocket, FirstCheck, Connect, Upgrade, RegisterCheck,
           RegisterStore, RegisterCount, WelcomeFails, TearDown, ReadError,
           SetClosed, CloseSend, UnregisterDelete, UnregisterCount, HangUp,
           ReadMessage, PeerGone, dataVars
  <1>10. ASSUME NEW r \in Requests, SafeSend(r) PROVE UNCHANGED <<writer, frame>>
    BY <1>10 DEF SafeSend, SafeSendLock, SafeSendPush, TrySend, dataVars
  <1>11. ASSUME NEW b \in Broadcasts, Broadcast(b) PROVE UNCHANGED <<writer, frame>>
    BY <1>11 DEF Broadcast, BroadcastStart, BroadcastNext, BroadcastSend, TrySend, dataVars
  <1>12. UNCHANGED vars => UNCHANGED <<writer, frame>>
    BY DEF vars, dataVars
  <1> QED
    BY <1>1, <1>3, <1>4, <1>5, <1>6, <1>7, <1>8, <1>9, <1>10, <1>11, <1>12 DEF Next, WsWriter

LEMMA MailInit == Init => MailInv
  <1> SUFFICES ASSUME Init PROVE MailInv
    OBVIOUS
  <1>1. Visits
    BY DEF Init, Visits
  <1>2. ASSUME NEW c \in Conns PROVE Batch(c)
    <2>1. frame[c] = <<>> /\ writer[c].pc = "off" /\ Len(<<>>) = 0
      BY DEF Init
    <2> QED
      BY <2>1, WSAssumption DEF Batch
  <1>3. \A c \in Conns : accepted[c] = <<>>
    BY DEF Init
  <1>4. AtMostOnce
    BY <1>3 DEF AtMostOnce
  <1> QED
    BY <1>1, <1>2, <1>4 DEF MailInv

LEMMA MailInvStep == IInv /\ MailInv /\ [Next]_vars => MailInv'
  BY StepIsMailStep, OnceStep, BatchStep DEF MailInv

(* A connection gets a reply only to its own requests, and no reply and no *)
(* broadcast twice, for any number of connections that come and go while   *)
(* Broadcast walks through the registry.                                   *)
THEOREM NothingTwice == Spec => []AtMostOnce
  <1>1. MailInv => AtMostOnce
    BY DEF MailInv
  <1> QED
    BY InitIInv, StepIInv, MailInit, MailInvStep, <1>1, PTL DEF Spec


-----------------------------------------------------------------------------
(* The refinement of the mailboxes.                                        *)

LEMMA OfferedTurns ==
    /\ NoTurn => Offered' = Offered
    /\ \A c \in Conns, m \in Messages :
          Turn(c, m) => <<c, m>> \notin Offered /\ Offered' = Offered \cup {<<c, m>>}
  <1>1. \A d \in Conns, n \in Messages :
           /\ <<d, n>> \in Offered <=> Over(d, n)
           /\ <<d, n>> \in Offered' <=> Over(d, n)'
    BY DEF Offered
  <1>2. Offered \subseteq Conns \X Messages /\ Offered' \subseteq Conns \X Messages
    BY DEF Offered
  <1>3. NoTurn => Offered' = Offered
    BY <1>1, <1>2 DEF NoTurn
  <1>4. ASSUME NEW c \in Conns, NEW m \in Messages, Turn(c, m)
        PROVE  <<c, m>> \notin Offered /\ Offered' = Offered \cup {<<c, m>>}
    BY <1>1, <1>2, <1>4 DEF Turn
  <1> QED
    BY <1>3, <1>4

(* The mailbox of a connection is what wsWriter has in its frame, then     *)
(* what is queued.                                                         *)
LEMMA BoxTake ==
    ASSUME NEW S, NEW f \in Seq(S), NEW b \in Seq(S), b # <<>>
    PROVE  Append(f, Head(b)) \o Tail(b) = f \o b
  <1>1. Head(b) \in S /\ <<Head(b)>> \in Seq(S) /\ Tail(b) \in Seq(S)
        /\ <<Head(b)>> \o Tail(b) = b
    BY HeadFirst
  <1>2. Append(f, Head(b)) = f \o <<Head(b)>>
    BY <1>1, AppendIsConcat
  <1> QED
    BY <1>1, <1>2, ConcatAssociative

LEMMA BoxPut ==
    ASSUME NEW S, NEW f \in Seq(S), NEW b \in Seq(S), NEW m \in S
    PROVE  /\ f \o Append(b, m) = Append(f \o b, m)
           /\ Len(f \o b) = Len(f) + Len(b)
  <1>1. <<m>> \in Seq(S) /\ f \o b \in Seq(S)
    BY ConcatProperties
  <1>2. Append(b, m) = b \o <<m>> /\ Append(f \o b, m) = (f \o b) \o <<m>>
    BY <1>1, AppendIsConcat
  <1>3. f \o Append(b, m) = Append(f \o b, m)
    BY <1>1, <1>2, ConcatAssociative
  <1> QED
    BY <1>3

LEMMA BoxWrite ==
    ASSUME NEW S, NEW f \in Seq(S), NEW b \in Seq(S), f # <<>>
    PROVE  /\ Len(f) \in 1..Len(f \o b)
           /\ SubSeq(f \o b, 1, Len(f)) = f
           /\ SubSeq(f \o b, Len(f) + 1, Len(f \o b)) = b
           /\ <<>> \o b = b
  <1>1. /\ f \o b \in Seq(S) /\ Len(f \o b) = Len(f) + Len(b)
        /\ Len(f) \in Nat /\ Len(b) \in Nat /\ Len(f) > 0
        /\ \A i \in 1..Len(f) : (f \o b)[i] = f[i]
        /\ \A i \in 1..Len(b) : (f \o b)[Len(f) + i] = b[i]
    OBVIOUS
  <1> DEFINE w == f \o b
             k == Len(f)
             n == Len(w)
  <1>2. /\ w \in Seq(S) /\ n = k + Len(b) /\ k \in Nat /\ n \in Nat /\ k > 0 /\ Len(b) \in Nat
        /\ \A i \in 1..k : w[i] = f[i]
        /\ \A i \in 1..Len(b) : w[k + i] = b[i]
        /\ n = Len(w) /\ k = Len(f)
    BY <1>1
  <1> HIDE DEF w, k, n
  <1>3. SubSeq(w, 1, k) = f
    <2>1. SubSeq(w, 1, k) \in Seq(S) /\ Len(SubSeq(w, 1, k)) = Len(f)
      BY <1>2
    <2>2. \A i \in 1..Len(f) : SubSeq(w, 1, k)[i] = f[i]
      BY <1>2
    <2> QED
      BY <2>1, <2>2, SeqEqual
  <1>4. SubSeq(w, k + 1, n) = b
    <2>1. SubSeq(w, k + 1, n) \in Seq(S) /\ Len(SubSeq(w, k + 1, n)) = Len(b)
      BY <1>2
    <2>2. \A i \in 1..Len(b) : SubSeq(w, k + 1, n)[i] = b[i]
      BY <1>2
    <2> QED
      BY <2>1, <2>2, SeqEqual
  <1>5. k \in 1..n
    BY <1>2
  <1>6. <<>> \o b = b
    OBVIOUS
  <1> QED
    BY <1>3, <1>4, <1>5, <1>6 DEF w, k, n

LEMMA GreetStep ==
    ASSUME IInv, NEW c \in Conns, WelcomeOK(c), NoTurn
    PROVE  Mail!Greet(c)
  <1>1. handler[c] = "welcome" /\ QueueInv
    BY DEF IInv, WelcomeOK, Goto
  <1>2. sent[c] = <<>>
    BY <1>1 DEF QueueInv, Flows, Early
  <1>3. sent' = [sent EXCEPT ![c] = Append(sent[c], Welcome)] /\ UNCHANGED <<buf, frame>>
    BY DEF WelcomeOK
  <1>4. sent' = [sent EXCEPT ![c] = <<Welcome>>]
    <2>1. Append(<<>>, Welcome) = <<Welcome>>
      OBVIOUS
    <2> QED
      BY <1>2, <1>3, <2>1
  <1>5. UNCHANGED <<Outstanding, Offered>>
    BY <1>3, OfferedTurns DEF Outstanding
  <1> QED
    BY <1>2, <1>4, <1>5 DEF Mail!Greet

LEMMA TakesStep ==
    ASSUME IInv, MailInv, NEW c \in Conns, Takes(c), NoTurn
    PROVE  UNCHANGED <<Outstanding, sent, Offered>>
  <1>0. /\ QueueInv /\ frame[c] \in Seq(Messages) /\ buf[c] \in Seq(Messages)
        /\ buf \in [Conns -> Seq(Messages)] /\ frame \in [Conns -> Seq(Messages)]
    BY DEF IInv, QueueInv, QueueTypes
  <1>1. sent' = sent /\ buf' = [buf EXCEPT ![c] = Tail(buf[c])]
    BY DEF Takes, WriterReceive, WriterDrain
  <1>2. /\ buf[c] # <<>>
        /\ frame' = [frame EXCEPT ![c] = Append(frame[c], Head(buf[c]))]
    <2>1. CASE WriterReceive(c)
      <3>1. frame[c] = <<>>
        BY <1>0, <2>1 DEF QueueInv, Flows, WriterReceive, WriterAt
      <3>2. Append(<<>>, Head(buf[c])) = <<Head(buf[c])>>
        OBVIOUS
      <3> QED
        BY <2>1, <3>1, <3>2 DEF WriterReceive
    <2>2. CASE WriterDrain(c)
      <3>1. writer[c].n > 0 /\ writer[c].n <= Len(buf[c])
        BY <1>0, <2>2 DEF QueueInv, Flows, WriterDrain
      <3>2. writer[c].n \in Nat /\ Len(buf[c]) \in Nat
        BY <1>0 DEF QueueInv, QueueTypes
      <3>3. Len(buf[c]) # 0
        BY <3>1, <3>2
      <3>4. buf[c] = <<>> <=> Len(buf[c]) = 0
        BY <1>0, EmptySeq, Zenon
      <3> QED
        BY <2>2, <3>3, <3>4 DEF WriterDrain
    <2> QED
      BY <2>1, <2>2 DEF Takes
  <1>3. Append(frame[c], Head(buf[c])) \o Tail(buf[c]) = frame[c] \o buf[c]
    BY <1>0, <1>2, BoxTake
  <1>4. \A d \in Conns : frame'[d] \o buf'[d] = frame[d] \o buf[d]
    BY <1>0, <1>1, <1>2, <1>3
  <1>5. Outstanding' = Outstanding
    BY <1>4 DEF Outstanding
  <1> QED
    BY <1>1, <1>5, OfferedTurns

LEMMA OfferStep ==
    ASSUME IInv, MailInv, NEW c \in Conns, NEW m \in Messages, Turn(c, m),
           TrySend(c, m) \/ UNCHANGED dataVars
    PROVE  Mail!Offer(c, m)
  <1>0. /\ QueueInv /\ frame[c] \in Seq(Messages) /\ buf[c] \in Seq(Messages)
        /\ buf \in [Conns -> Seq(Messages)] /\ frame \in [Conns -> Seq(Messages)]
    BY DEF IInv, QueueInv, QueueTypes
  <1>1. <<c, m>> \notin Offered /\ Offered' = Offered \cup {<<c, m>>}
    BY OfferedTurns
  <1>2. sent' = sent /\ frame' = frame
    BY DEF TrySend, dataVars
  <1>3. CASE buf' = buf
    <2>1. Outstanding' = Outstanding
      BY <1>2, <1>3 DEF Outstanding
    <2> QED
      BY <1>1, <1>2, <2>1 DEF Mail!Offer
  <1>4. CASE Len(buf[c]) < SendCap /\ buf' = [buf EXCEPT ![c] = Append(buf[c], m)]
    <2>1. /\ frame[c] \o Append(buf[c], m) = Append(frame[c] \o buf[c], m)
          /\ Len(frame[c] \o buf[c]) = Len(frame[c]) + Len(buf[c])
      BY <1>0, BoxPut
    <2>2. Len(frame[c]) <= DrainMax + 1
      BY DEF MailInv, Batch
    <2>3. Len(frame[c]) \in Nat /\ Len(buf[c]) \in Nat /\ DrainMax \in Nat /\ SendCap \in Nat
      BY <1>0, WSAssumption
    <2>4. Len(frame[c] \o buf[c]) < SendCap + DrainMax + 1
      <3>1. \A x, y, u, v \in Nat : x <= u + 1 /\ y < v => x + y < v + u + 1
        OBVIOUS
      <3>2. Len(frame[c]) + Len(buf[c]) < SendCap + DrainMax + 1
        BY <1>4, <2>2, <2>3, <3>1
      <3> QED
        BY <2>1, <3>2, Zenon
    <2>5. buf'[c] = Append(buf[c], m) /\ \A d \in Conns \ {c} : buf'[d] = buf[d]
      BY <1>0, <1>4
    <2>6. Outstanding' = [d \in Conns |-> IF d = c THEN Append(frame[c] \o buf[c], m)
                                          ELSE frame[d] \o buf[d]]
      BY <1>2, <2>1, <2>5 DEF Outstanding
    <2>7. Outstanding' = [Outstanding EXCEPT ![c] = Append(Outstanding[c], m)]
      BY <2>6 DEF Outstanding
    <2>8. Len(Outstanding[c]) < SendCap + DrainMax + 1
      BY <2>4 DEF Outstanding
    <2> QED
      BY <1>1, <1>2, <2>7, <2>8 DEF Mail!Offer
  <1> QED
    BY <1>3, <1>4 DEF TrySend, dataVars

LEMMA WriteStep ==
    ASSUME IInv, MailInv, NEW c \in Conns, WriterFlush(c), NoTurn
    PROVE  Mail!Write(c)
  <1>0. /\ QueueInv /\ frame[c] \in Seq(Messages) /\ buf[c] \in Seq(Messages)
        /\ buf \in [Conns -> Seq(Messages)] /\ frame \in [Conns -> Seq(Messages)]
    BY DEF IInv, QueueInv, QueueTypes
  <1>1. /\ writer[c].pc = "drain" /\ buf' = buf /\ frame' = [frame EXCEPT ![c] = <<>>]
        /\ sent' = [sent EXCEPT ![c] = sent[c] \o frame[c]]
    BY DEF WriterFlush, WriterAt
  <1>2. sent[c] # <<>>
    BY <1>0, <1>1 DEF QueueInv, Flows
  <1>3. frame[c] # <<>>
    BY <1>1 DEF MailInv, Batch
  <1>4. /\ Len(frame[c]) \in 1..Len(frame[c] \o buf[c])
        /\ SubSeq(frame[c] \o buf[c], 1, Len(frame[c])) = frame[c]
        /\ SubSeq(frame[c] \o buf[c], Len(frame[c]) + 1, Len(frame[c] \o buf[c])) = buf[c]
        /\ <<>> \o buf[c] = buf[c]
    BY <1>0, <1>3, BoxWrite
  <1>5. frame'[c] = <<>> /\ \A d \in Conns \ {c} : frame'[d] = frame[d]
    BY <1>0, <1>1
  <1>6. Outstanding' = [d \in Conns |-> IF d = c THEN buf[c] ELSE frame[d] \o buf[d]]
    <2>1. \A d \in Conns : frame'[d] \o buf'[d] = IF d = c THEN buf[c] ELSE frame[d] \o buf[d]
      <3>1. frame'[c] \o buf'[c] = buf[c]
        BY <1>1, <1>4, <1>5, Zenon
      <3>2. ASSUME NEW d \in Conns, d # c PROVE frame'[d] \o buf'[d] = frame[d] \o buf[d]
        <4>1. frame'[d] = frame[d] /\ buf'[d] = buf[d]
          BY <1>1, <1>5, <3>2
        <4> QED
          BY <4>1, Zenon
      <3>3. ASSUME NEW d \in Conns
            PROVE  frame'[d] \o buf'[d] = IF d = c THEN buf[c] ELSE frame[d] \o buf[d]
        <4>1. CASE d = c
          BY <3>1, <4>1, Zenon
        <4>2. CASE d # c
          BY <3>2, <4>2, Zenon
        <4> QED
          BY <4>1, <4>2
      <3> QED
        BY <3>3, Zenon
    <2> QED
      BY <2>1 DEF Outstanding
  <1>7. Outstanding' = [Outstanding EXCEPT ![c] = buf[c]]
    BY <1>6 DEF Outstanding
  <1>8. Outstanding[c] = frame[c] \o buf[c]
    BY DEF Outstanding
  <1>9. PICK k \in 1..Len(Outstanding[c]) :
           /\ SubSeq(Outstanding[c], 1, k) = frame[c]
           /\ SubSeq(Outstanding[c], k + 1, Len(Outstanding[c])) = buf[c]
    BY <1>4, <1>8
  <1>10. sent' = [sent EXCEPT ![c] = sent[c] \o SubSeq(Outstanding[c], 1, k)]
    BY <1>1, <1>9
  <1>11. Outstanding' = [Outstanding EXCEPT ![c] =
                            SubSeq(Outstanding[c], k + 1, Len(Outstanding[c]))]
    BY <1>7, <1>9
  <1>12. Offered' = Offered
    BY OfferedTurns
  <1> QED
    BY <1>2, <1>10, <1>11, <1>12 DEF Mail!Write

LEMMA MailRefined ==
    IInv /\ MailInv /\ [Next]_vars => [Mail!Next]_(Mail!mailboxVars)
  <1> SUFFICES ASSUME IInv, MailInv, [Next]_vars
               PROVE  Mail!Next \/ UNCHANGED <<Outstanding, sent, Offered>>
    BY DEF Mail!mailboxVars
  <1>1. MailStep
    BY StepIsMailStep DEF MailInv
  <1>2. CASE NoTurn /\ UNCHANGED <<buf, frame, sent, accepted>>
    <2>1. Outstanding' = Outstanding
      BY <1>2 DEF Outstanding
    <2> QED
      BY <1>2, <2>1, OfferedTurns
  <1>3. ASSUME NEW c \in Conns, NoTurn, WelcomeOK(c) \/ WriterFlush(c)
        PROVE  Mail!Next
    BY <1>3, GreetStep, WriteStep DEF Mail!Next
  <1>4. ASSUME NEW c \in Conns, NoTurn, Takes(c)
        PROVE  UNCHANGED <<Outstanding, sent, Offered>>
    BY <1>4, TakesStep
  <1>5. ASSUME NEW c \in Conns, NEW m \in Messages, Turn(c, m),
               TrySend(c, m) \/ UNCHANGED dataVars
        PROVE  Mail!Next
    BY <1>5, OfferStep DEF Mail!Next
  <1> QED
    BY <1>1, <1>2, <1>3, <1>4, <1>5 DEF MailStep

LEMMA MailStarts == Init => Mail!Init
  <1> SUFFICES ASSUME Init PROVE Mail!Init
    OBVIOUS
  <1>1. \A c \in Conns : frame[c] \o buf[c] = <<>>
    BY DEF Init
  <1>2. Outstanding = [c \in Conns |-> <<>>]
    BY <1>1 DEF Outstanding
  <1>3. \A d \in Conns, n \in Messages : ~Over(d, n)
    BY DEF Init, Over
  <1>4. Offered = {}
    BY <1>3 DEF Offered
  <1>5. sent = [c \in Conns |-> <<>>]
    BY DEF Init
  <1> QED
    BY <1>2, <1>4, <1>5 DEF Mail!Init

(* The manager implements the mailboxes.  The frame followed by the queue  *)
(* is the mailbox; moving a message from the one to the other is invisible,*)
(* and a message has its turn at a connection in one step.                 *)
THEOREM ManagerDelivers == Spec => Delivers
  <1> QED
    BY InitIInv, StepIInv, MailInit, MailInvStep, MailStarts, MailRefined, PTL
       DEF Spec, Delivers, Mail!Spec

=============================================================================
