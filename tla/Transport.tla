------------------------------ MODULE Transport ------------------------------
(***************************************************************************)
(* The transport managers of two nodes and the datagram network between    *)
(* them (crates/ub-transport/src/manager.rs).  A manager keeps its         *)
(* sessions per peer, so a pair of nodes shows every interaction.          *)
(*                                                                         *)
(* A session's key is the peer's epoch.  `sess[n]` maps the keys of node   *)
(* n's session map to sessions, `cur[n]` is peer_epochs[peer].  Frames     *)
(* carry no epoch.  The bounded channel and the write loop of a peer       *)
(* (`sender[n]`) hand frames to a network that may lose, duplicate and     *)
(* reorder them.  This module has the managers' steps; DataPlane composes  *)
(* them with the verb engine.                                              *)
(***************************************************************************)
EXTENDS ReliableSession

CONSTANTS
    InitialCredits,        \* config.flow.initial_credits, sent in HELLO
    RtoTask,               \* whether start_rto_task was called
    ChannelMayFill,        \* whether the channel of a peer may be full
    MaxSends,              \* bound: how many frames a node queues
    MaxDups,               \* bound: how many datagrams the network duplicates
    MaxLosses              \* bound: how many datagrams the network loses

ASSUME TransportAssumption ==
    /\ \E p, q \in Nodes : p # q /\ Nodes = {p, q}
    /\ InitialCredits \in Nat
    /\ RtoTask \in BOOLEAN
    /\ ChannelMayFill \in BOOLEAN
    /\ MaxSends \in [Nodes -> Nat]
    /\ MaxDups \in Nat
    /\ MaxLosses \in Nat

VARIABLES
    epoch,      \* epoch[n]: n's incarnation (a random u32 drawn at start)
    sess,       \* sess[n]: n's session map
    cur,        \* cur[n]: the peer's epoch as n knows it, 0 when it has none
    sender,     \* sender[n]: whether n has a channel to the peer
    data,       \* the DATA frames in flight, a bag
    acks,       \* the ACK frames in flight, a bag
    inbound,    \* inbound[n]: frames handed to n's verb engine
    issued,     \* history: issued[n][k] is the verb of n's k-th queued frame
    faults      \* how many datagrams were duplicated and lost so far

transportVars == <<epoch, sess, cur, sender, data, acks, inbound, issued, faults>>

Peer(n) == CHOOSE m \in Nodes : m # n

Verb == FireAndForget \cup Requests \cup Responses

\* `err` is ExtFlags::ERR_RESP.
DataFrame == [src : Nodes, seq : Nat, verb : Verb, opaque : Nat, id : Id, err : BOOLEAN]
AckFrame == [src : Nodes, ack_seq : Nat, credit_grant : Nat, sack : BOOLEAN]

\* The frames in flight, each with the number of its copies.
NoFrames == << >>
InFlight(net) == DOMAIN net
Copies(net, f) == IF f \in InFlight(net) THEN net[f] ELSE 0
Put(net, F) == [f \in InFlight(net) \cup F |-> Copies(net, f) + (IF f \in F THEN 1 ELSE 0)]
Take(net, f) == [g \in {g \in InFlight(net) : g # f \/ net[g] > 1} |->
                    IF g = f THEN net[g] - 1 ELSE net[g]]

-----------------------------------------------------------------------------
(* Sessions *)

HasSession(n) == cur[n] # 0 /\ cur[n] \in DOMAIN sess[n]

CurrentSession(n) == sess[n][cur[n]]

Update(n, s) == [sess EXCEPT ![n][cur[n]] = s]

\* Err when the key exists: the session found there is kept as it is.
create_session(n, e, initial_credits) ==
    IF e \in DOMAIN sess[n]
    THEN UNCHANGED <<sess, cur>>
    ELSE /\ sess' = [sess EXCEPT ![n] =
                [k \in DOMAIN @ \cup {e} |->
                    IF k = e THEN new_session(initial_credits) ELSE @[k]]]
         /\ cur' = [cur EXCEPT ![n] = e]

notify_peer_down(n) ==
    /\ sess' = [sess EXCEPT ![n] = << >>]
    /\ cur' = [cur EXCEPT ![n] = 0]
    /\ sender' = [sender EXCEPT ![n] = FALSE]

-----------------------------------------------------------------------------
(* Sending *)

CanSend(n) ==
    /\ HasSession(n)
    /\ CurrentSession(n).state = "Active"
    /\ CurrentSession(n).available_credits > 0

NextId(n) == <<n, Len(issued[n]) + 1>>

EntryFrame(n, e) ==
    [src |-> n, seq |-> e.seq, verb |-> e.verb, opaque |-> e.opaque, id |-> e.id,
     err |-> FALSE]

\* The frame is numbered and queued first; the channel takes it or not (it is
\* full, or the peer has none), and the caller of a frame that was not taken
\* gets LinkDown with the entry still queued.
send(n, verb, opaque, taken) ==
    LET s == CurrentSession(n)
    IN  /\ CanSend(n)
        /\ Len(issued[n]) < MaxSends[n]
        /\ IF taken THEN sender[n] ELSE ChannelMayFill \/ ~sender[n]
        /\ sess' = Update(n, assign_seq(consume_credit(s), verb, opaque, NextId(n)))
        /\ issued' = [issued EXCEPT ![n] = Append(@, verb)]
        /\ data' = IF taken
                   THEN Put(data, {[src |-> n, seq |-> s.next_seq, verb |-> verb,
                                    opaque |-> opaque, id |-> NextId(n), err |-> FALSE]})
                   ELSE data

\* What data is once n has passed the frames F to send_frame_to_peer.
SentToPeer(n, F) == IF sender[n] THEN Put(data, F) ELSE data

\* One session's part of a tick of the RTO task.
RtoTick(n) ==
    /\ RtoTask
    /\ \E k \in DOMAIN sess[n] :
       \E expired \in SUBSET sess[n][k].retransmit_queue \ {{}} :
           LET after == check_rto(sess[n][k], expired)
           IN  /\ sess[n][k].state = "Active"
               /\ sess' = [sess EXCEPT ![n][k] = after]
               /\ data' = IF after.state = "Dead" THEN data
                          ELSE SentToPeer(n, {EntryFrame(n, e) : e \in expired})
    /\ UNCHANGED <<epoch, cur, sender, acks, inbound, issued, faults>>

-----------------------------------------------------------------------------
(* Receiving *)

HandOver(n, f) == inbound' = [inbound EXCEPT ![n] = Append(@, f)]

Resendable == {"ReadReq", "AtomicCas", "AtomicFaa"}

\* A frame with no sequence number, or from a peer without a session, is
\* handed over without a look at any window.
DeliverUnchecked(n, f) ==
    /\ f.seq = 0 \/ ~HasSession(n)
    /\ HandOver(n, f)
    /\ UNCHANGED <<sess, acks>>

DropOnDeadSession(n, f) ==
    /\ f.seq # 0 /\ HasSession(n)
    /\ CurrentSession(n).state = "Dead"
    /\ UNCHANGED <<sess, inbound, acks>>

\* A mistake to compare with: a frame after a gap is handed over at once.
ReceiveInSession_no_order(n, f) ==
    LET s       == CurrentSession(n)
        result  == check(s.dedup, f.seq)
        counted == receive_frame(s, f.seq)
    IN  /\ f.seq # 0 /\ HasSession(n)
        /\ s.state = "Active"
        /\ IF result \in {"InOrder", "OutOfOrder"} \/ (result = "AlreadySeen" /\ f.verb \in Resendable)
           THEN HandOver(n, f) ELSE UNCHANGED inbound
        /\ sess' = Update(n, counted)
        /\ UNCHANGED acks

ReceiveInSession(n, f) ==
    LET s       == CurrentSession(n)
        result  == check(s.dedup, f.seq)
        counted == receive_frame(s, f.seq)
        ackNow  == /\ result # "BeyondWindow"
                   /\ \/ result \in {"AlreadySeen", "OutOfOrder"}
                      \/ should_send_ack(counted)
        payload == build_ack_payload(counted, result = "OutOfOrder")
    IN  /\ f.seq # 0 /\ HasSession(n)
        /\ s.state = "Active"
        /\ IF result = "InOrder" \/ (result = "AlreadySeen" /\ f.verb \in Resendable)
           THEN HandOver(n, f) ELSE UNCHANGED inbound
        /\ sess' = Update(n, IF ackNow THEN ack_sent(counted) ELSE counted)
        /\ acks' = IF ackNow /\ sender[n]
                   THEN Put(acks, {[src |-> n, ack_seq |-> payload.ack_seq,
                            credit_grant |-> payload.credit_grant, sack |-> payload.sack]})
                   ELSE acks

handle_data_frame(n) ==
    \E f \in InFlight(data) :
        /\ f.src = Peer(n)
        /\ data' = Take(data, f)
        /\ \/ DeliverUnchecked(n, f)
           \/ DropOnDeadSession(n, f)
           \/ ReceiveInSession(n, f)
        /\ UNCHANGED <<epoch, cur, sender, issued, faults>>

\* The duplicate-ACK check moves last_ack_seq before process_ack reads it.
handle_ack_frame(n) ==
    \E f \in InFlight(acks) :
        /\ f.src = Peer(n)
        /\ acks' = Take(acks, f)
        /\ IF HasSession(n)
           THEN LET r == process_ack_for_fast_retransmit(CurrentSession(n), f)
                    again == get_retransmit_entry(r.session, r.resend)
                IN  /\ sess' = Update(n, process_ack(r.session, f))
                    /\ data' = SentToPeer(n, {EntryFrame(n, e) : e \in again})
           ELSE UNCHANGED <<sess, data>>
        /\ UNCHANGED <<epoch, cur, sender, inbound, issued, faults>>

-----------------------------------------------------------------------------
(* The network *)

LoseData ==
    /\ faults.lost < MaxLosses
    /\ \E f \in InFlight(data) : data' = Take(data, f)
    /\ faults' = [faults EXCEPT !.lost = @ + 1]
    /\ UNCHANGED <<epoch, sess, cur, sender, acks, inbound, issued>>

LoseAck ==
    /\ faults.lost < MaxLosses
    /\ \E f \in InFlight(acks) : acks' = Take(acks, f)
    /\ faults' = [faults EXCEPT !.lost = @ + 1]
    /\ UNCHANGED <<epoch, sess, cur, sender, data, inbound, issued>>

DuplicateData ==
    /\ faults.duplicated < MaxDups
    /\ \E f \in InFlight(data) : data' = Put(data, {f})
    /\ faults' = [faults EXCEPT !.duplicated = @ + 1]
    /\ UNCHANGED <<epoch, sess, cur, sender, acks, inbound, issued>>

DuplicateAck ==
    /\ faults.duplicated < MaxDups
    /\ \E f \in InFlight(acks) : acks' = Put(acks, {f})
    /\ faults' = [faults EXCEPT !.duplicated = @ + 1]
    /\ UNCHANGED <<epoch, sess, cur, sender, data, inbound, issued>>
=============================================================================
