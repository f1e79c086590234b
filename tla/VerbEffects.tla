---------------------------- MODULE VerbEffects -----------------------------
(***************************************************************************)
(* What the steps of the verb handlers and of the receivers do to a        *)
(* session, the history and the frames, as the proof that they preserve    *)
(* IInv uses it.                                                           *)
(***************************************************************************)
EXTENDS DataPlaneInvariant

\* Every entry of queue t was one of queue s, up to its retry count.
Derived(t, s) ==
    \A e \in t : \E d \in s : e.seq = d.seq /\ e.id = d.id /\ e.verb = d.verb

\* What send does: session t of node n has one more entry e, the frame f may be
\* in flight, and the history h has one more element.
SendEffect(n, t, e, f, h) ==
    LET N == Len(issued[n])
    IN  /\ sess' = [sess EXCEPT ![n][1] = t]
        /\ issued' = h
        /\ \A g \in InFlight(data)' : g \in InFlight(data) \/ g = f
        /\ SameReceiver(t, Session1(n))
        /\ t.state = Session1(n).state
        /\ t.next_seq = N + 2
        /\ t.retransmit_queue = Session1(n).retransmit_queue \cup {e}
        /\ e.seq = N + 1 /\ e.id = <<n, N + 1>> /\ e.verb = h[n][N + 1]
        /\ f.src = n /\ f.seq = N + 1 /\ f.id = e.id /\ f.verb = e.verb /\ ~f.err
        /\ Continues(h)
        /\ Len(h[n]) = N + 1
        /\ \A m \in Nodes : m # n => h[m] = issued[m]

Atomics == {"AtomicCas", "AtomicFaa"}

\* How often it has executed what: once more, if f carries a number, and an
\* atomic only when it was not among the records and is among them now.
Executes(n, f, t) ==
    \/ exec' = exec
    \/ /\ f.seq \in DOMAIN issued[Peer(n)]
       /\ f.verb = issued[Peer(n)][f.seq]
       /\ exec' = [exec EXCEPT ![n][f.seq] = @ + 1]
       /\ f.verb \in Atomics =>
              /\ ~is_executed(Session1(n), f.seq)
              /\ Len(issued[Peer(n)]) < RecordCap => is_executed(t, f.seq)

VerbEffect(n, f, t) ==
    /\ sess' = [sess EXCEPT ![n][1] = t]
    /\ SessionKept(n, t)
    /\ Executes(n, f, t)
    /\ \A g \in InFlight(data)' :
           g \in InFlight(data) \/ (g \in DataFrame /\ ValidFrame(issued, g))
    /\ next_opaque' = next_opaque
    /\ pending' \in [Nodes -> SUBSET Nat]
    /\ calls' \in [Nodes -> Seq(Call)]

\* What handling the frame f does at n, whose session becomes t.
ReceiveEffect(n, f, t) ==
    LET w == Session1(n).dedup
        v == t.dedup
    IN  /\ sess' \in [Nodes -> [{1} -> Session]]
        /\ Session1(n)' = t
        /\ \A m \in Nodes : m # n => Session1(m)' = Session1(m)
        /\ SameSender(t, Session1(n))
        /\ t.execution_records = Session1(n).execution_records
        /\ GoodWindow(v)
        /\ w.next_expected <= v.next_expected
        /\ \A k \in Nat : is_seen(w, k) => is_seen(v, k)
        /\ \A k \in Nat : is_seen(v, k) => is_seen(w, k) \/ k = f.seq
        /\ \/ inbound' = inbound
           \/ /\ inbound' = [inbound EXCEPT ![n] = Append(@, f)]
              /\ f.verb \in FireAndForget =>
                     f.seq = w.next_expected /\ f.seq < v.next_expected
        /\ \A a \in InFlight(acks)' : a \in InFlight(acks) \/
               (a \in AckFrame /\ a.src = n /\ a.ack_seq < v.next_expected)
=============================================================================
