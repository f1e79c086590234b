------------------------- MODULE DataPlaneInvariant -------------------------
(***************************************************************************)
(* The inductive invariant of the transports, IInv, for two engines whose  *)
(* sessions stay, and the words its proof needs for what a step does to a  *)
(* session.                                                                *)
(***************************************************************************)
EXTENDS DataPlane

\* Every set of natural numbers has a least element.  DataPlaneProofs shows it,
\* and the lemmas before it take it as a hypothesis.
NatWellOrdered ==
    \A T \in SUBSET Nat : T # {} => \E x \in T : \A y \in T : x <= y

-----------------------------------------------------------------------------
(* The sessions: windows, senders, receivers and records                   *)

\* The windows the code can be in: the marks lie strictly inside the window.
GoodWindow(w) ==
    /\ w \in Window
    /\ \A k \in w.seen : w.next_expected < k /\ k < w.next_expected + WindowSize

SameSender(t, s) ==
    /\ t.state = s.state
    /\ t.next_seq = s.next_seq
    /\ t.retransmit_queue = s.retransmit_queue

SameReceiver(t, s) ==
    /\ t.dedup = s.dedup
    /\ t.execution_records = s.execution_records

\* The records are distinct numbers up to N.
GoodRecords(r, N) ==
    /\ \A i \in DOMAIN r : r[i] \in 0 .. N
    /\ \A i, j \in DOMAIN r : r[i] = r[j] => i = j

-----------------------------------------------------------------------------
(* IInv, the invariant of the transports, for two engines whose sessions   *)
(* stay                                                                    *)

Session1(n) == sess[n][1]

\* The one session of each node is the one create_session made at the start.
StableTypes ==
    /\ TypeOK
    /\ cur = [n \in Nodes |-> 1]
    /\ sess \in [Nodes -> [{1} -> Session]]
    /\ DOMAIN exec = Nodes
    /\ \A n \in Nodes : Len(issued[n]) <= MaxSends[n]

\* Sequence numbers are positions in the history h of what was queued.
ValidEntry(h, n, e) ==
    /\ e.seq \in DOMAIN h[n]
    /\ e.id = <<n, e.seq>>
    /\ e.verb = h[n][e.seq]

QueueInv ==
    \A n \in Nodes :
        /\ Session1(n).next_seq = Len(issued[n]) + 1
        /\ \A e \in Session1(n).retransmit_queue : ValidEntry(issued, n, e)

\* A numbered frame is the one its sender queued under that number; a frame
\* without a number is a response or an error response to a request.
ValidFrame(h, f) ==
    IF f.seq = 0
    THEN f.verb \in Responses \/ (f.verb \in Requests /\ f.err)
    ELSE /\ f.seq \in DOMAIN h[f.src]
         /\ f.id = <<f.src, f.seq>>
         /\ f.verb = h[f.src][f.seq]
         /\ ~f.err

FrameInv ==
    /\ \A f \in InFlight(data) : ValidFrame(issued, f)
    /\ \A n \in Nodes : \A i \in DOMAIN inbound[n] :
           inbound[n][i].src = Peer(n) /\ ValidFrame(issued, inbound[n][i])

\* A window has marked only what the peer has queued, and an ACK in flight
\* covers only what the window has passed.
WindowInv ==
    \A n \in Nodes :
        /\ GoodWindow(Session1(n).dedup)
        /\ Session1(n).dedup.next_expected \in 1 .. Len(issued[Peer(n)]) + 1
        /\ \A k \in Session1(n).dedup.seen : k <= Len(issued[Peer(n)])

AckInv ==
    \A f \in InFlight(acks) : f.ack_seq < Session1(f.src).dedup.next_expected

FF(n, k) == issued[Peer(n)][k] \in FireAndForget

\* The fire-and-forget frames of n's queue are in order, below the window, and
\* nothing from the first of them on, nor what is not queued yet, has been executed.
OrderInv ==
    \A n \in Nodes :
        /\ \A k \in DOMAIN exec[n] : k > Len(issued[Peer(n)]) => exec[n][k] = 0
        /\ \A k \in DOMAIN issued[Peer(n)] : FF(n, k) =>
               exec[n][k] <= 1 /\ (exec[n][k] > 0 => k < Session1(n).dedup.next_expected)
        /\ \A i \in DOMAIN inbound[n] : inbound[n][i].verb \in FireAndForget =>
               /\ inbound[n][i].seq < Session1(n).dedup.next_expected
               /\ \A k \in DOMAIN issued[Peer(n)] :
                      FF(n, k) /\ k >= inbound[n][i].seq => exec[n][k] = 0
               /\ \A j \in DOMAIN inbound[n] :
                      i < j /\ inbound[n][j].verb \in FireAndForget
                          => inbound[n][i].seq < inbound[n][j].seq

\* While the records are not full, an executed atomic is among them.
RecordInv ==
    \A n \in Nodes :
        /\ GoodRecords(Session1(n).execution_records, Len(issued[Peer(n)]))
        /\ Len(issued[Peer(n)]) < RecordCap =>
               \A k \in DOMAIN issued[Peer(n)] :
                   issued[Peer(n)][k] \in {"AtomicCas", "AtomicFaa"} =>
                       /\ exec[n][k] <= 1
                       /\ exec[n][k] > 0 => is_executed(Session1(n), k)

IInv ==
    /\ StableTypes
    /\ QueueInv
    /\ FrameInv
    /\ WindowInv
    /\ AckInv
    /\ OrderInv
    /\ RecordInv
    /\ DroppedOnlyIfReceived

-----------------------------------------------------------------------------
(* What a step leaves of a session                                         *)

\* The history h continues the present one within the bounds.
Continues(h) ==
    /\ h \in [Nodes -> Seq(FireAndForget \cup Requests)]
    /\ \A m \in Nodes :
           /\ Len(issued[m]) <= Len(h[m])
           /\ Len(h[m]) <= MaxSends[m]
           /\ \A k \in DOMAIN issued[m] : k \in DOMAIN h[m] /\ h[m][k] = issued[m][k]

\* What the engine of n does to its session when it handles the frame f.
SessionKept(n, t) ==
    LET s == Session1(n)
    IN  /\ t.dedup = s.dedup
        /\ t.state = s.state
        /\ t.next_seq = s.next_seq
        /\ t.retransmit_queue \subseteq s.retransmit_queue
        /\ \A e \in s.retransmit_queue \ t.retransmit_queue : e.verb \notin FireAndForget
        /\ GoodRecords(t.execution_records, Len(issued[Peer(n)]))
        /\ Len(issued[Peer(n)]) < RecordCap =>
               \A k \in Nat : is_executed(s, k) => is_executed(t, k)

\* A frame the engine of n may find in its queue.
Arrived(n, f) ==
    /\ f \in DataFrame
    /\ f.src = Peer(n)
    /\ ValidFrame(issued, f)
=============================================================================
