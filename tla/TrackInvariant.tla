--------------------------- MODULE TrackInvariant ---------------------------
(***************************************************************************)
(* TrackInv, where the waiting calls are, through peer events and          *)
(* restarts. The types of the frames do not matter here: that a session    *)
(* has a queue and that a call has a status is enough.                     *)
(***************************************************************************)
EXTENDS DataPlane

HasQueue(s) == "retransmit_queue" \in DOMAIN s

\* A request with opaque o is in the queue of a session of n.
InQueue(n, o) ==
    \E k \in DOMAIN sess[n] : \E e \in sess[n][k].retransmit_queue :
        e.verb \in Requests /\ e.opaque = o

\* The pending table and the queues of node n agree with its calls.
Tracked(n) ==
    /\ \E S : calls[n] \in Seq(S)
    /\ \A o \in DOMAIN calls[n] : "status" \in DOMAIN calls[n][o]
    /\ next_opaque[n] = Len(calls[n]) + 1
    /\ \A k \in DOMAIN sess[n] : HasQueue(sess[n][k])
    /\ pending[n] \subseteq DOMAIN calls[n]
    /\ \A o \in pending[n] : calls[n][o].status \in {"Waiting", "Refused"}
    /\ \A o \in DOMAIN calls[n] : calls[n][o].status = "Waiting" =>
           o \in pending[n] /\ (RtoTask \/ InQueue(n, o))

Tables == DOMAIN sess = Nodes /\ DOMAIN calls = Nodes /\ DOMAIN pending = Nodes
              /\ DOMAIN next_opaque = Nodes

TrackInv == Tables /\ \A n \in Nodes : Tracked(n)

\* The requests of queue s, but for those with opaque o, are in t.
KeepsRequests(t, s, o) ==
    /\ HasQueue(t)
    /\ \A e \in s.retransmit_queue :
           e.verb \in Requests /\ e.opaque # o => e \in t.retransmit_queue

\* The sessions of m have their queues, and only o may have left them, unless
\* a session ran out of retries.
KeptQueues(m, o) ==
    /\ \A k \in DOMAIN sess'[m] : HasQueue(sess'[m][k])
    /\ RtoTask \/ \A p : p # o /\ InQueue(m, p) => InQueue(m, p)'
=============================================================================
