--------------------------- MODULE MrPublication ---------------------------
(***************************************************************************)
(* How a peer learns which regions a node has registered: the node's       *)
(* MrTable, the task of its control plane that broadcasts the table's      *)
(* events (ub-control/src/control.rs, start), the connections on which the *)
(* peer says HELLO and is sent the existing regions (send_existing_mrs),   *)
(* and the cache the peer keeps of them (MrCacheTable).                    *)
(*                                                                         *)
(* A pair of nodes may have several control connections: each dials the    *)
(* other.  The member table keeps the sender of the last one that said     *)
(* HELLO, and none after a MEMBER_SNAPSHOT that lists the peer; the        *)
(* messages of two connections overtake each other.                        *)
(***************************************************************************)
EXTENDS MrTable

CONSTANTS
    Conns,      \* control connections to the peer
    NoConn,     \* no sender in the member table
    MaxHellos   \* bound on the HELLO, HELLO_ACK and JOIN messages received

ASSUME PublicationAssumption == MaxHellos \in Nat /\ NoConn \notin Conns

VARIABLES
    tx,       \* sender of the peer in the node's member table
    up,       \* the peer is in the member table and not Down
    closed,   \* connections that have ended
    hellos,   \* HELLO, HELLO_ACK and JOIN messages received
    greet,    \* conn -> [pc, left]: the greeting its read task is sending
    drain,    \* the broadcast under way: <<>> or <<[event, to]>>
    wire,     \* conn -> messages sent on it and not yet processed by the peer
    cache     \* handles in the peer's MrCacheTable

peerVars == <<tx, up, closed, hellos, greet, drain, wire, cache>>
vars == <<tableVars, peerVars>>

Init ==
    /\ TableInit
    /\ tx = NoConn
    /\ up = FALSE
    /\ closed = {}
    /\ hellos = 0
    /\ greet = [c \in Conns |-> [pc |-> "idle", left |-> {}]]
    /\ drain = <<>>
    /\ wire = [c \in Conns |-> <<>>]
    /\ cache = {}

\* A message queued on a connection; on a closed one it is lost.
Sent(c, e) ==
    wire' = IF c \in closed THEN wire ELSE [wire EXCEPT ![c] = Append(@, e)]

-----------------------------------------------------------------------------
(* The broadcast task.  It reads the senders, then sends: the table may    *)
(* change between.                                                         *)

broadcast_take ==
    /\ events # <<>>
    /\ drain = <<>>
    /\ drain' = IF up /\ tx # NoConn THEN <<[event |-> Head(events), to |-> tx]>> ELSE <<>>
    /\ events' = Tail(events)
    /\ UNCHANGED <<mr, unpublished, acc, dereg, tx, up, closed, hellos, greet, wire, cache>>

broadcast_send ==
    /\ drain # <<>>
    /\ Sent(drain[1].to, drain[1].event)
    /\ drain' = <<>>
    /\ UNCHANGED <<tableVars, tx, up, closed, hellos, greet, cache>>

-----------------------------------------------------------------------------
(* A greeting: upsert the member with this connection's sender, then read  *)
(* the table, then send one MR_PUBLISH for each entry read.                *)

\* A mistake to compare with: a greeting that sends no regions.
hello_no_mrs(c) ==
    /\ c \notin closed
    /\ greet[c].pc = "idle"
    /\ hellos < MaxHellos
    /\ hellos' = hellos + 1
    /\ tx' = c
    /\ up' = TRUE
    /\ UNCHANGED <<tableVars, closed, greet, drain, wire, cache>>

hello(c) ==
    /\ c \notin closed
    /\ greet[c].pc = "idle"
    /\ hellos < MaxHellos
    /\ hellos' = hellos + 1
    /\ tx' = c
    /\ up' = TRUE
    /\ greet' = [greet EXCEPT ![c].pc = "upserted"]
    /\ UNCHANGED <<tableVars, closed, drain, wire, cache>>

\* The greeting is over when nothing is left to send.
Left(c, hs) ==
    greet' = [greet EXCEPT ![c] = [pc |-> IF hs = {} THEN "idle" ELSE "sending",
                                   left |-> hs]]

send_existing_list(c) ==
    /\ greet[c].pc = "upserted"
    /\ Left(c, {h \in Handles : mr[h].listed})
    /\ UNCHANGED <<tableVars, tx, up, closed, hellos, drain, wire, cache>>

send_existing_one(c) ==
    /\ \E h \in greet[c].left :
         /\ Sent(c, [type |-> "Publish", h |-> h])
         /\ Left(c, greet[c].left \ {h})
    /\ UNCHANGED <<tableVars, tx, up, closed, hellos, drain, cache>>

-----------------------------------------------------------------------------
(* The peer processes a message; the peer is marked Down (by missed        *)
(* heartbeats or MEMBER_DOWN); a connection ends, which the member table   *)
(* does not notice.                                                        *)

mr_message(c) ==
    /\ wire[c] # <<>>
    /\ cache' = LET m == Head(wire[c])
                IN  IF m.type = "Publish" THEN cache \union {m.h} ELSE cache \ {m.h}
    /\ wire' = [wire EXCEPT ![c] = Tail(@)]
    /\ UNCHANGED <<tableVars, tx, up, closed, hellos, greet, drain>>

mark_down ==
    /\ up
    /\ up' = FALSE
    /\ UNCHANGED <<tableVars, tx, closed, hellos, greet, drain, wire, cache>>

\* A MEMBER_SNAPSHOT lists the peer, also when it is the sender of the
\* snapshot itself: upsert takes the state it gives and leaves no sender.
member_snapshot(alive) ==
    /\ tx' = NoConn
    /\ up' = alive
    /\ UNCHANGED <<tableVars, closed, hellos, greet, drain, wire, cache>>

connection_end(c) ==
    /\ c \notin closed
    /\ closed' = closed \union {c}
    /\ wire' = [wire EXCEPT ![c] = <<>>]
    /\ UNCHANGED <<tableVars, tx, up, hellos, greet, drain, cache>>

PeerNext ==
    \/ broadcast_take
    \/ broadcast_send
    \/ \E c \in Conns : \/ hello(c)
                        \/ send_existing_list(c)
                        \/ send_existing_one(c)
                        \/ mr_message(c)
                        \/ connection_end(c)
    \/ mark_down
    \/ \E alive \in BOOLEAN : member_snapshot(alive)

Next ==
    \/ TableNext /\ UNCHANGED peerVars
    \/ PeerNext

Spec == Init /\ [][Next]_vars

-----------------------------------------------------------------------------
(* Properties.                                                             *)

\* The shape of every variable.
TypeOK ==
    /\ TableTypeOK
    /\ tx \in Conns \union {NoConn}
    /\ up \in BOOLEAN
    /\ closed \subseteq Conns
    /\ hellos \in 0..MaxHellos
    /\ greet \in [Conns -> [pc : {"idle", "upserted", "sending"}, left : SUBSET Handles]]
    /\ drain \in Seq([event : Event, to : Conns]) /\ Len(drain) <= 1
    /\ wire \in [Conns -> Seq(Event)]
    /\ cache \subseteq Handles

\* Nothing about regions is on its way to the peer.
Settled ==
    /\ unpublished = {}
    /\ events = <<>>
    /\ drain = <<>>
    /\ \A c \in Conns : greet[c].pc = "idle" /\ wire[c] = <<>>

\* The member table has a sender for the peer, on a connection that lives.
Reachable == up /\ tx # NoConn /\ tx \notin closed

\* A region that is registered while the peer connects, reconnects, is taken
\* for Down or is listed in a snapshot is not missed: once everything sent has
\* been processed, a peer that the node takes for alive and has a live sender
\* for knows every Active region, those registered while it had no sender
\* included.  (A registration is in the table before its event is sent, and a
\* greeting upserts the sender before it reads the table.)
NoRegionMissed ==
    Settled /\ Reachable =>
        \A h \in Handles : mr[h].state = "Active" => h \in cache

\* docs/DETAIL_DESIGN.md, 7.6: MR_PUBLISH goes from the owner to all: a peer
\* that is taken for alive and has never lost a connection knows every Active
\* region.
AllAreTold ==
    Settled /\ up /\ closed = {} =>
        \A h \in Handles : mr[h].state = "Active" => h \in cache

\* docs/DETAIL_DESIGN.md, 3.4: a peer that received MR_REVOKE marks the
\* region invalid in its cache, so that later requests are refused locally:
\* once everything sent has been processed, no revoked region is cached by
\* a peer that never was taken for Down.
RevokedForgotten ==
    Settled /\ up /\ closed = {} =>
        \A h \in cache : mr[h].state = "Active"
=============================================================================
