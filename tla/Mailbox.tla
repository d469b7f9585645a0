------------------------------ MODULE Mailbox -------------------------------
(***************************************************************************)
(* What the WebSocket manager promises about messages, without channels,   *)
(* frames, locks and the registry: every peer has a mailbox.  A message is *)
(* offered to a peer once; the mailbox takes it or it is lost, and a       *)
(* mailbox that is full takes nothing.  The peer gets a greeting first and *)
(* then what its mailbox took, in that order.                              *)
(***************************************************************************)
EXTENDS Integers, Sequences

CONSTANTS Peers,     \* who gets messages
          Messages,  \* what is sent to peers
          Limit,     \* how many messages a mailbox holds
          Greeting

VARIABLES mailbox,  \* mailbox[p]: taken for p and not yet written to it
          wire,     \* wire[p]: what has been written to p
          offered   \* the pairs of a peer and a message offered to it

mailboxVars == <<mailbox, wire, offered>>

Init ==
    /\ mailbox = [p \in Peers |-> <<>>]
    /\ wire = [p \in Peers |-> <<>>]
    /\ offered = {}

Greet(p) ==
    /\ wire[p] = <<>>
    /\ wire' = [wire EXCEPT ![p] = <<Greeting>>]
    /\ UNCHANGED <<mailbox, offered>>

Offer(p, m) ==
    /\ <<p, m>> \notin offered
    /\ offered' = offered \cup {<<p, m>>}
    /\ \/ /\ Len(mailbox[p]) < Limit
          /\ mailbox' = [mailbox EXCEPT ![p] = Append(@, m)]
       \/ UNCHANGED mailbox
    /\ UNCHANGED wire

(* The oldest messages are written, one or several at a time.              *)
Write(p) ==
    /\ wire[p] # <<>>
    /\ \E k \in 1..Len(mailbox[p]) :
          /\ wire' = [wire EXCEPT ![p] = @ \o SubSeq(mailbox[p], 1, k)]
          /\ mailbox' = [mailbox EXCEPT ![p] = SubSeq(@, k + 1, Len(@))]
    /\ UNCHANGED offered

Next == \E p \in Peers : Greet(p) \/ Write(p) \/ \E m \in Messages : Offer(p, m)

Spec == Init /\ [][Next]_mailboxVars
=============================================================================
