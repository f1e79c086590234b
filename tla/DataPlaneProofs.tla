-------------------------- MODULE DataPlaneProofs ---------------------------
(***************************************************************************)
(* Theorems about the data plane of two engines whose sessions stay, for   *)
(* any two nodes, any bounds on the calls and faults, and any sizes of the *)
(* receive window and of the records.                                      *)
(*                                                                         *)
(* The invariant IInv (DataPlaneInvariant) follows a frame from the        *)
(* retransmit queue of its sender to the window and the records of its     *)
(* receiver. EngineProofs has the other steps that keep it; the receiver   *)
(* and the conclusions are here. CallProofs shows that a step keeps the    *)
(* invariants of the calls in the states of IInv.                          *)
(***************************************************************************)
EXTENDS EngineProofs, CallProofs

-----------------------------------------------------------------------------
(* The receiver *)

\* handle_data_frame keeps the invariant.
LEMMA ReceiveKeeps ==
    \A n \in Nodes :
        NatWellOrdered /\ IInv /\ handle_data_frame(n) /\ UNCHANGED engineVars => IInv'
\* receive_frame marks the number of the frame at most, and passes an in-order
\* number.
<1>ReceiveWindow.
      ASSUME NatWellOrdered, NEW s \in Session, GoodWindow(s.dedup), NEW seq \in Nat,
             NEW v, v = receive_frame(s, seq).dedup
      PROVE  /\ GoodWindow(v)
             /\ s.dedup.next_expected <= v.next_expected
             /\ \A k \in Nat : is_seen(s.dedup, k) => is_seen(v, k)
             /\ \A k \in Nat : is_seen(v, k) => is_seen(s.dedup, k) \/ k = seq
             /\ check(s.dedup, seq) = "InOrder" =>
                    seq = s.dedup.next_expected /\ seq < v.next_expected
  <2> USE <1>ReceiveWindow
  <2>1. PICK w \in Window : w = s.dedup /\ w.next_expected \in Nat
    BY DEF GoodWindow, Window
  <2>2. v = IF check(w, seq) \in {"InOrder", "OutOfOrder"}
            THEN mark_and_advance(w, seq) ELSE w
    BY ZenonT(60), <2>1, ReceiveFrame
  <2>3. CASE check(w, seq) \in {"InOrder", "OutOfOrder"}
    <3>1. w.next_expected <= seq /\ seq < w.next_expected + WindowSize
      BY SMTT(60), <2>1, <2>3, WindowAssumption DEF check
    <3>2. check(w, seq) = "InOrder" => seq = w.next_expected
      BY <2>1 DEF check
    <3>3. v = mark_and_advance(w, seq)
      BY ZenonT(60), <2>2, <2>3
    <3>4. /\ GoodWindow(v)
          /\ w.next_expected <= v.next_expected
          /\ \A k \in Nat : is_seen(v, k) <=> is_seen(w, k) \/ k = seq
          /\ seq = w.next_expected => w.next_expected < v.next_expected
      BY SMTT(60), <2>1, <3>1, <3>3, MarkAndAdvance
    <3> QED
      BY ZenonT(60), <2>1, <3>2, <3>4
  <2>4. CASE ~(check(w, seq) \in {"InOrder", "OutOfOrder"})
    BY <2>1, <2>2, <2>4
  <2> QED
    BY ZenonT(60), <2>3, <2>4
\* A frame without a number, or for a dead session, has the effect.
<1>DeliverEffect.
      ASSUME IInv, NEW n \in Nodes, NEW f \in DataFrame, ValidFrame(issued, f),
             DeliverUnchecked(n, f) \/ DropOnDeadSession(n, f)
      PROVE  ReceiveEffect(n, f, Session1(n))
  <2> USE <1>DeliverEffect
  <2>1. /\ HasSession(n) /\ Session1(n) \in Session
        /\ sess \in [Nodes -> [{1} -> Session]]
    BY Current DEF IInv, StableTypes
  <2>2. sess' = sess /\ acks' = acks
    BY DEF DeliverUnchecked, DropOnDeadSession
  <2>3. \/ inbound' = inbound
        \/ inbound' = [inbound EXCEPT ![n] = Append(@, f)] /\ f.verb \notin FireAndForget
    <3>1. f.seq = 0 => f.verb \notin FireAndForget
      BY DEF ValidFrame, Responses, Requests, FireAndForget
    <3> QED
      BY ZenonT(60), <2>1, <3>1 DEF DeliverUnchecked, DropOnDeadSession, HandOver
  <2>4. GoodWindow(Session1(n).dedup) /\ Session1(n).dedup.next_expected \in Nat
    BY DEF IInv, WindowInv, GoodWindow, Window
  <2>5. \A m : Session1(m)' = Session1(m)
    BY <2>2 DEF Session1
  <2> QED
    BY SMTT(60), <2>1, <2>2, <2>3, <2>4, <2>5 DEF ReceiveEffect, SameSender
\* A frame that a living session receives has the effect.
<1>SessionEffect.
      ASSUME NatWellOrdered, IInv, NEW n \in Nodes, NEW f \in DataFrame, ReceiveInSession(n, f)
      PROVE  \E t \in Session : ReceiveEffect(n, f, t)
  <2> USE <1>SessionEffect
  <2>1. PICK s \in Session :
          /\ s = Session1(n) /\ CurrentSession(n) = s
          /\ \A t : Update(n, t) = [sess EXCEPT ![n][1] = t]
    BY ZenonT(60), Current DEF IInv
  <2>2. GoodWindow(s.dedup) /\ s.dedup.next_expected \in Nat \ {0} /\ f.seq \in Nat
    BY <2>1 DEF IInv, WindowInv, GoodWindow, Window, DataFrame
  <2>3. PICK c \in Session :
          /\ c = receive_frame(s, f.seq)
          /\ SameSender(c, s) /\ c.execution_records = s.execution_records
    BY <2>2, ReceiveFrame
  <2>4. PICK v : v = c.dedup
    OBVIOUS
  <2>5. /\ GoodWindow(v)
        /\ s.dedup.next_expected <= v.next_expected
        /\ \A k \in Nat : is_seen(s.dedup, k) => is_seen(v, k)
        /\ \A k \in Nat : is_seen(v, k) => is_seen(s.dedup, k) \/ k = f.seq
        /\ check(s.dedup, f.seq) = "InOrder" =>
               f.seq = s.dedup.next_expected /\ f.seq < v.next_expected
    BY SMTT(60), <2>2, <2>3, <2>4, <1>ReceiveWindow
  <2>6. PICK t \in {c, ack_sent(c)} :
          /\ sess' = [sess EXCEPT ![n][1] = t]
    BY ZenonT(90), <2>1, <2>3 DEF ReceiveInSession
  <2>7. /\ t \in Session /\ SameSender(t, s)
        /\ t.execution_records = s.execution_records /\ t.dedup = v
    BY ZenonT(60), <2>3, <2>4, <2>6, AckSent DEF SameSender, SameReceiver
  <2>8. \/ inbound' = inbound
        \/ /\ inbound' = [inbound EXCEPT ![n] = Append(@, f)]
           /\ check(s.dedup, f.seq) = "InOrder" \/ f.verb \notin FireAndForget
    BY <2>1 DEF ReceiveInSession, HandOver, Resendable, FireAndForget
  <2>9. PICK a :
          /\ a = [src |-> n, ack_seq |-> v.next_expected - 1,
                  credit_grant |-> c.credits_to_grant,
                  sack |-> (check(s.dedup, f.seq) = "OutOfOrder")]
          /\ acks' = acks \/ acks' = Put(acks, {a})
    BY ZenonT(90), <2>1, <2>3, <2>4 DEF ReceiveInSession, build_ack_payload
  <2>10. a \in AckFrame /\ a.src = n /\ a.ack_seq < v.next_expected
    <3>1. v.next_expected \in Nat \ {0}
      BY SMTT(60), <2>2, <2>5 DEF GoodWindow, Window
    <3>2. c.credits_to_grant \in Nat
      BY DEF Session
    <3>3. v.next_expected - 1 \in Nat /\ v.next_expected - 1 < v.next_expected
      BY <3>1
    <3> QED
      BY ZenonT(60), <2>9, <3>2, <3>3 DEF AckFrame
  <2>11. \A b \in InFlight(acks)' : b \in InFlight(acks) \/ b = a
    BY <2>9, PutFrames
  <2>12. /\ sess' \in [Nodes -> [{1} -> Session]]
         /\ Session1(n)' = t
         /\ \A m \in Nodes : m # n => Session1(m)' = Session1(m)
    BY ZenonT(90), <2>6, <2>7, SessionUpdate DEF IInv
  <2>13. ReceiveEffect(n, f, t)
    BY ZenonT(60), <2>1, <2>5, <2>7, <2>8, <2>10, <2>11, <2>12 DEF ReceiveEffect
  <2> QED
    BY ZenonT(60), <2>7, <2>13
\* The window marks only what the peer has queued.
<1>ReceiveWindowInv.
      ASSUME IInv, NEW n \in Nodes, NEW f \in DataFrame, NEW t \in Session,
             f.src = Peer(n), ValidFrame(issued, f), ReceiveEffect(n, f, t), issued' = issued
      PROVE  WindowInv'
  <2> USE <1>ReceiveWindowInv
  <2>1. PICK N \in Nat : N = Len(issued[Peer(n)]) /\ DOMAIN issued[Peer(n)] = 1 .. N
    BY ZenonT(60), IssuedTypes, Peers DEF IInv
  <2>2. f.seq \in Nat /\ f.seq <= N
    BY SMTT(60), <2>1 DEF ValidFrame, DataFrame
  <2>3. PICK w \in Window :
          /\ w = Session1(n).dedup
          /\ w.next_expected \in 1 .. N + 1 /\ \A k \in w.seen : k <= N
    BY ZenonT(60), <2>1 DEF IInv, WindowInv, GoodWindow
  <2>4. PICK v \in Window :
          /\ v = t.dedup /\ GoodWindow(v) /\ w.next_expected <= v.next_expected
          /\ \A k \in Nat : is_seen(v, k) => is_seen(w, k) \/ k = f.seq
    BY <2>3 DEF ReceiveEffect, GoodWindow
  <2>5. w.next_expected \in Nat /\ v.next_expected \in Nat /\ v.seen \subseteq Nat
    BY ZenonT(60) DEF Window
  <2>6. \A k \in Nat : is_seen(w, k) => k <= N
    BY SMTT(60), <2>3, <2>5 DEF is_seen
  <2>7. \A k \in Nat : is_seen(v, k) => k <= N
    BY ZenonT(60), <2>2, <2>4, <2>6
  <2>8. v.next_expected \in 1 .. N + 1
    <3>1. v.next_expected >= 1
      BY SMTT(60), <2>3, <2>4, <2>5
    <3>2. v.next_expected - 1 \in Nat /\ v.next_expected - 1 < v.next_expected
      BY SMTT(60), <2>5, <3>1
    <3>3. v.next_expected - 1 <= N
      BY ZenonT(60), <2>7, <3>2 DEF is_seen
    <3>4. \A k \in Nat : k >= 1 /\ k - 1 <= N => k \in 1 .. N + 1
      OBVIOUS
    <3> QED
      BY Zenon, <2>5, <3>1, <3>3, <3>4
  <2>9. \A k \in v.seen : k <= N
    BY ZenonT(60), <2>5, <2>7 DEF is_seen
  <2>10. Session1(n)'.dedup = v /\ \A m \in Nodes : m # n => Session1(m)' = Session1(m)
    BY ZenonT(60), <2>4 DEF ReceiveEffect
  <2> QED
    BY ZenonT(60), <2>1, <2>4, <2>8, <2>9, <2>10 DEF IInv, WindowInv
\* The first number that is expected never goes back.
<1>ReceiveMonotone.
      ASSUME IInv, NEW n \in Nodes, NEW f, NEW t \in Session, ReceiveEffect(n, f, t)
      PROVE  \A m \in Nodes :
                 /\ Session1(m).dedup.next_expected \in Nat
                 /\ Session1(m)'.dedup.next_expected \in Nat
                 /\ Session1(m).dedup.next_expected <= Session1(m)'.dedup.next_expected
  <2> USE <1>ReceiveMonotone
  <2>1. \A m \in Nodes : Session1(m).dedup.next_expected \in Nat
    BY DEF IInv, WindowInv, GoodWindow, Window
  <2>2. t.dedup.next_expected \in Nat
    BY DEF Session, Window
  <2> QED
    <3> SUFFICES ASSUME NEW m \in Nodes
                 PROVE  /\ Session1(m)'.dedup.next_expected \in Nat
                        /\ Session1(m).dedup.next_expected <= Session1(m)'.dedup.next_expected
      BY Zenon, <2>1
    <3>1. CASE m = n
      <4>1. Session1(n)' = t /\ Session1(n).dedup.next_expected <= t.dedup.next_expected
        BY ZenonT(60) DEF ReceiveEffect
      <4> QED
        BY Zenon, <2>2, <3>1, <4>1
    <3>2. CASE m # n
      <4>1. Session1(m)' = Session1(m)
        BY ZenonT(60), <3>2 DEF ReceiveEffect
      <4>2. \A k \in Nat : k <= k
        OBVIOUS
      <4> QED
        BY Zenon, <2>1, <4>1, <4>2
    <3> QED
      BY Zenon, <3>1, <3>2
\* The ACK built on receipt covers only what the window has passed.
<1>ReceiveAckInv.
      ASSUME IInv, NEW n \in Nodes, NEW f, NEW t \in Session, ReceiveEffect(n, f, t)
      PROVE  AckInv'
  <2> USE <1>ReceiveAckInv
  <2> SUFFICES ASSUME NEW a \in InFlight(acks)'
               PROVE  a.ack_seq < Session1(a.src)'.dedup.next_expected
    BY DEF AckInv
  <2>1. CASE a \in InFlight(acks)
    <3>1. a.src \in Nodes /\ a.ack_seq \in Nat
      BY ZenonT(60), <2>1 DEF IInv, StableTypes, TypeOK, AckFrame
    <3>2. a.ack_seq < Session1(a.src).dedup.next_expected
      BY ZenonT(60), <2>1 DEF IInv, AckInv
    <3> QED
      BY <3>1, <3>2, <1>ReceiveMonotone
  <2>2. CASE a \notin InFlight(acks)
    BY <2>2 DEF ReceiveEffect
  <2> QED
    BY ZenonT(60), <2>1, <2>2
\* The inbound queue of a node, longer by f or not.
<1>InboundGrows.
      ASSUME StableTypes, NEW n \in Nodes, NEW f \in DataFrame,
             inbound' = [inbound EXCEPT ![n] = Append(@, f)]
      PROVE  /\ inbound' \in [Nodes -> Seq(DataFrame)]
             /\ \A m \in Nodes : m # n => inbound'[m] = inbound[m]
             /\ \E L \in Nat :
                  /\ DOMAIN inbound[n] = 1 .. L /\ DOMAIN inbound'[n] = 1 .. L + 1
                  /\ \A i \in 1 .. L : inbound'[n][i] = inbound[n][i]
                  /\ inbound'[n][L + 1] = f
  <2> USE <1>InboundGrows
  <2>1. inbound \in [Nodes -> Seq(DataFrame)] /\ inbound[n] \in Seq(DataFrame)
    BY DEF StableTypes, TypeOK
  <2>2. PICK L \in Nat : L = Len(inbound[n]) /\ DOMAIN inbound[n] = 1 .. L
    BY <2>1, LenProperties
  <2>3. PICK a \in Seq(DataFrame) :
          /\ a = Append(inbound[n], f)
          /\ Len(a) = L + 1
          /\ \A i \in 1 .. L : a[i] = inbound[n][i]
          /\ a[L + 1] = f
    BY ZenonT(60), <2>1, <2>2, AppendProperties
  <2>4. DOMAIN a = 1 .. L + 1
    BY <2>3, LenProperties
  <2>5. inbound' = [inbound EXCEPT ![n] = a]
    BY ZenonT(60), <2>1, <2>3
  <2>6. /\ inbound' \in [Nodes -> Seq(DataFrame)]
        /\ inbound'[n] = a
        /\ \A m \in Nodes : m # n => inbound'[m] = inbound[m]
    BY ZenonT(60), <2>1, <2>5
  <2> QED
    BY ZenonT(60), <2>2, <2>3, <2>4, <2>6
\* The frame handed over is one that was in flight.
<1>ReceiveFrames.
      ASSUME IInv, NEW n \in Nodes, NEW f \in DataFrame, NEW t \in Session,
             f.src = Peer(n), ValidFrame(issued, f), ReceiveEffect(n, f, t), issued' = issued,
             InFlight(data)' \subseteq InFlight(data)
      PROVE  FrameInv' /\ inbound' \in [Nodes -> Seq(DataFrame)]
  <2> USE <1>ReceiveFrames
  <2>1. \A g \in InFlight(data)' : ValidFrame(issued, g)
    BY ZenonT(60) DEF IInv, FrameInv
  <2>2. CASE inbound' = inbound
    BY ZenonT(60), <2>1, <2>2 DEF IInv, FrameInv, StableTypes, TypeOK
  <2>3. CASE inbound' = [inbound EXCEPT ![n] = Append(@, f)]
    <3>1. PICK L \in Nat :
            /\ DOMAIN inbound[n] = 1 .. L /\ DOMAIN inbound'[n] = 1 .. L + 1
            /\ \A i \in 1 .. L : inbound'[n][i] = inbound[n][i]
            /\ inbound'[n][L + 1] = f
      BY ZenonT(90), <2>3, <1>InboundGrows DEF IInv
    <3>2. /\ inbound' \in [Nodes -> Seq(DataFrame)]
          /\ \A m \in Nodes : m # n => inbound'[m] = inbound[m]
      BY ZenonT(90), <2>3, <1>InboundGrows DEF IInv
    <3>3. \A i \in 1 .. L + 1 : i \in 1 .. L \/ i = L + 1
      OBVIOUS
    <3>4. \A i \in DOMAIN inbound'[n] :
            inbound'[n][i].src = Peer(n) /\ ValidFrame(issued, inbound'[n][i])
      BY ZenonT(60), <3>1, <3>3 DEF IInv, FrameInv
    <3>5. \A m \in Nodes : \A i \in DOMAIN inbound'[m] :
            inbound'[m][i].src = Peer(m) /\ ValidFrame(issued, inbound'[m][i])
      BY ZenonT(60), <3>2, <3>4 DEF IInv, FrameInv
    <3> QED
      BY ZenonT(60), <2>1, <3>2, <3>5 DEF FrameInv
  <2> QED
    BY ZenonT(60), <2>2, <2>3 DEF ReceiveEffect
\* The inbound queue of n after the frame: in order, below the window, and
\* not executed yet.
<1>ReceiveQueue.
      ASSUME IInv, NEW n \in Nodes, NEW f \in DataFrame, NEW t \in Session,
             ReceiveEffect(n, f, t), issued' = issued, exec' = exec,
             inbound' = [inbound EXCEPT ![n] = Append(@, f)],
             f.verb \in FireAndForget =>
                 /\ f.seq = Session1(n).dedup.next_expected
                 /\ f.seq < t.dedup.next_expected,
             NEW i \in DOMAIN inbound'[n], inbound'[n][i].verb \in FireAndForget
      PROVE  /\ inbound'[n][i].seq < t.dedup.next_expected
             /\ \A k \in DOMAIN issued[Peer(n)] :
                    FF(n, k) /\ k >= inbound'[n][i].seq => exec[n][k] = 0
             /\ \A j \in DOMAIN inbound'[n] :
                    i < j /\ inbound'[n][j].verb \in FireAndForget
                        => inbound'[n][i].seq < inbound'[n][j].seq
  <2> USE <1>ReceiveQueue
  <2>1. PICK L \in Nat :
          /\ DOMAIN inbound[n] = 1 .. L /\ DOMAIN inbound'[n] = 1 .. L + 1
          /\ \A j \in 1 .. L : inbound'[n][j] = inbound[n][j]
          /\ inbound'[n][L + 1] = f
    BY ZenonT(90), <1>InboundGrows DEF IInv
  <2>2. \A j \in 1 .. L + 1 : j \in 1 .. L \/ j = L + 1
    BY SMTT(60)
  <2>3. PICK w \in Nat, v \in Nat :
          w = Session1(n).dedup.next_expected /\ v = t.dedup.next_expected /\ w <= v
    BY ZenonT(90), <1>ReceiveMonotone DEF ReceiveEffect
  <2>4. f.seq \in Nat
    BY ZenonT(60) DEF DataFrame
  <2>5. CASE i \in 1 .. L
    <3>1. /\ inbound[n][i].seq < w
          /\ \A k \in DOMAIN issued[Peer(n)] :
               FF(n, k) /\ k >= inbound[n][i].seq => exec[n][k] = 0
          /\ \A j \in DOMAIN inbound[n] :
               i < j /\ inbound[n][j].verb \in FireAndForget
                 => inbound[n][i].seq < inbound[n][j].seq
      BY ZenonT(60), <2>1, <2>3, <2>5 DEF IInv, OrderInv
    <3>2. inbound[n][i].seq \in Nat
      BY ZenonT(60), <2>1, <2>5, InboundFrame DEF IInv
    <3>3. inbound[n][i].seq < v
      BY SMTT(60), <2>3, <3>1, <3>2
    <3>4. f.verb \in FireAndForget => inbound[n][i].seq < f.seq
      BY ZenonT(60), <2>3, <3>1
    <3> QED
      BY ZenonT(60), <2>1, <2>2, <2>3, <2>5, <3>1, <3>3, <3>4
  <2>6. CASE i = L + 1
    <3>1. inbound'[n][i] = f /\ f.verb \in FireAndForget
      BY ZenonT(60), <2>1, <2>6
    <3>2. f.seq = w /\ f.seq < v
      BY ZenonT(60), <2>3, <3>1
    <3>3. ASSUME NEW k \in DOMAIN issued[Peer(n)], FF(n, k), k >= f.seq
          PROVE  exec[n][k] = 0
      <4>1. exec[n][k] \in Nat /\ k \in Nat
        BY ZenonT(60), ExecNat DEF IInv
      <4>2. exec[n][k] > 0 => k < w
        BY ZenonT(60), <2>3, <3>3 DEF IInv, OrderInv
      <4> QED
        BY SMTT(60), <3>2, <3>3, <4>1, <4>2
    <3>4. \A j \in 1 .. L + 1 : ~(i < j)
      BY SMTT(60), <2>6
    <3> QED
      BY ZenonT(60), <2>1, <2>3, <3>1, <3>2, <3>3, <3>4
  <2> QED
    BY ZenonT(60), <2>1, <2>2, <2>5, <2>6
\* Receiving keeps the order of the queues.
<1>ReceiveOrder.
      ASSUME IInv, NEW n \in Nodes, NEW f \in DataFrame, NEW t \in Session,
             ReceiveEffect(n, f, t), issued' = issued, exec' = exec
      PROVE  OrderInv'
  <2> USE <1>ReceiveOrder
  <2>1. /\ Session1(n)' = t
        /\ \A m \in Nodes : m # n => Session1(m)' = Session1(m)
        /\ \A m \in Nodes : m # n => inbound'[m] = inbound[m]
    BY ZenonT(60), <1>InboundGrows DEF ReceiveEffect, IInv
  <2>2. ASSUME NEW m \in Nodes, NEW k \in DOMAIN issued[Peer(m)], FF(m, k)
        PROVE  /\ exec[m][k] <= 1
               /\ exec[m][k] > 0 => k < Session1(m)'.dedup.next_expected
    <3>1. PICK w \in Nat, v \in Nat :
            /\ w = Session1(m).dedup.next_expected /\ v = Session1(m)'.dedup.next_expected
            /\ w <= v
      BY ZenonT(60), <1>ReceiveMonotone
    <3>2. exec[m][k] <= 1 /\ (exec[m][k] > 0 => k < w)
      BY ZenonT(60), <2>2, <3>1 DEF IInv, OrderInv
    <3>3. k \in Nat
      BY ZenonT(60), ExecNat DEF IInv
    <3> QED
      BY SMTT(60), <3>1, <3>2, <3>3
  <2>3. ASSUME NEW i \in DOMAIN inbound'[n], inbound'[n][i].verb \in FireAndForget
        PROVE  /\ inbound'[n][i].seq < t.dedup.next_expected
               /\ \A k \in DOMAIN issued[Peer(n)] :
                      FF(n, k) /\ k >= inbound'[n][i].seq => exec[n][k] = 0
               /\ \A j \in DOMAIN inbound'[n] :
                      i < j /\ inbound'[n][j].verb \in FireAndForget
                          => inbound'[n][i].seq < inbound'[n][j].seq
    <3>1. CASE inbound' = inbound
      <4>1. PICK w \in Nat, v \in Nat :
              w = Session1(n).dedup.next_expected /\ v = t.dedup.next_expected /\ w <= v
        BY ZenonT(60), <2>1, <1>ReceiveMonotone
      <4>2. inbound[n][i].seq \in Nat
        BY ZenonT(60), <3>1, InboundFrame DEF IInv
      <4>3. /\ inbound[n][i].seq < w
            /\ \A k \in DOMAIN issued[Peer(n)] :
                 FF(n, k) /\ k >= inbound[n][i].seq => exec[n][k] = 0
            /\ \A j \in DOMAIN inbound[n] :
                 i < j /\ inbound[n][j].verb \in FireAndForget
                   => inbound[n][i].seq < inbound[n][j].seq
        BY ZenonT(60), <2>3, <3>1, <4>1 DEF IInv, OrderInv
      <4>4. inbound[n][i].seq < v
        BY SMTT(60), <4>1, <4>2, <4>3
      <4> QED
        BY ZenonT(60), <3>1, <4>1, <4>3, <4>4
    <3>2. CASE inbound' # inbound
      BY ZenonT(90), <2>3, <3>2, <1>ReceiveQueue DEF ReceiveEffect
    <3> QED
      BY ZenonT(60), <3>1, <3>2
  <2>4. ASSUME NEW m \in Nodes, m # n, NEW i \in DOMAIN inbound[m],
               inbound[m][i].verb \in FireAndForget
        PROVE  /\ inbound[m][i].seq < Session1(m).dedup.next_expected
               /\ \A k \in DOMAIN issued[Peer(m)] :
                      FF(m, k) /\ k >= inbound[m][i].seq => exec[m][k] = 0
               /\ \A j \in DOMAIN inbound[m] :
                      i < j /\ inbound[m][j].verb \in FireAndForget
                          => inbound[m][i].seq < inbound[m][j].seq
    BY ZenonT(60), <2>4 DEF IInv, OrderInv
  <2>5. \A m \in Nodes : \A k \in DOMAIN exec[m] : k > Len(issued[Peer(m)]) => exec[m][k] = 0
    BY ZenonT(60) DEF IInv, OrderInv
  <2>6. ASSUME NEW m \in Nodes, NEW i \in DOMAIN inbound'[m],
               inbound'[m][i].verb \in FireAndForget
        PROVE  /\ inbound'[m][i].seq < Session1(m)'.dedup.next_expected
               /\ \A k \in DOMAIN issued[Peer(m)] :
                      FF(m, k) /\ k >= inbound'[m][i].seq => exec[m][k] = 0
               /\ \A j \in DOMAIN inbound'[m] :
                      i < j /\ inbound'[m][j].verb \in FireAndForget
                          => inbound'[m][i].seq < inbound'[m][j].seq
    BY ZenonT(60), <2>1, <2>3, <2>4, <2>6
  <2> QED
    BY ZenonT(60), <2>2, <2>5, <2>6 DEF OrderInv, FF
<1> QED
  <2> SUFFICES ASSUME NatWellOrdered, IInv, NEW n \in Nodes, handle_data_frame(n),
                      UNCHANGED engineVars
               PROVE  IInv'
    BY Zenon
  <2>1. PICK f \in InFlight(data) :
          /\ f.src = Peer(n)
          /\ data' = Take(data, f)
          /\ \/ DeliverUnchecked(n, f) \/ DropOnDeadSession(n, f)
             \/ ReceiveInSession(n, f)
          /\ UNCHANGED <<epoch, cur, sender, issued, faults>>
    BY SMTT(60) DEF handle_data_frame
  <2>2. f \in DataFrame /\ ValidFrame(issued, f)
    BY DEF IInv, StableTypes, TypeOK, FrameInv
  <2>3. PICK t \in Session : ReceiveEffect(n, f, t)
    BY ZenonT(60), <2>1, <2>2, <1>DeliverEffect, <1>SessionEffect, Current DEF IInv
  <2>4. InFlight(data)' \subseteq InFlight(data)
    BY SMTT(60), <2>1, TakeFrame
  <2>5. issued' = issued /\ exec' = exec
    BY SMTT(60), <2>1 DEF engineVars
  <2>6. FrameInv' /\ inbound' \in [Nodes -> Seq(DataFrame)]
    BY ZenonT(60), <2>1, <2>2, <2>3, <2>4, <2>5, <1>ReceiveFrames
  <2>7. InFlight(acks)' \subseteq AckFrame /\ sess' \in [Nodes -> [{1} -> Session]]
    <3>1. \A a \in InFlight(acks)' : a \in InFlight(acks) \/ a \in AckFrame
      BY ZenonT(90), <2>3 DEF ReceiveEffect
    <3>2. InFlight(acks) \subseteq AckFrame
      BY ZenonT(90) DEF IInv, StableTypes, TypeOK
    <3>3. sess' \in [Nodes -> [{1} -> Session]]
      BY ZenonT(90), <2>3 DEF ReceiveEffect
    <3> QED
      BY ZenonT(90), <3>1, <3>2, <3>3
  <2>8. StableTypes'
    BY ZenonT(90), <2>1, <2>4, <2>5, <2>6, <2>7 DEF IInv, StableTypes, TypeOK, engineVars
  <2>9. WindowInv' /\ AckInv' /\ OrderInv'
    BY ZenonT(60), <2>1, <2>2, <2>3, <2>5, <1>ReceiveWindowInv, <1>ReceiveAckInv, <1>ReceiveOrder
  <2>10. \A m \in Nodes :
           /\ SameSender(Session1(m)', Session1(m))
           /\ Session1(m)'.execution_records = Session1(m).execution_records
    BY SMTT(60), <2>3 DEF ReceiveEffect, SameSender
  <2>11. \A m \in Nodes :
           /\ Session1(m)'.next_seq = Session1(m).next_seq
           /\ Derived(Session1(m)'.retransmit_queue, Session1(m).retransmit_queue)
           /\ Session1(m)'.state = Session1(m).state
           /\ Session1(m)'.retransmit_queue = Session1(m).retransmit_queue
    BY SMTT(60), <2>10 DEF SameSender, Derived
  <2>12. QueueInv' /\ RecordInv'
    BY ZenonT(60), <2>5, <2>10, <2>11, QueueKept, RecordsKept DEF IInv
  <2>13. \A m \in Nodes : \A k \in DOMAIN issued[Peer(m)] :
           is_seen(Session1(m).dedup, k) => is_seen(Session1(m)'.dedup, k)
    <3>1. \A m \in Nodes : \A k \in DOMAIN issued[Peer(m)] : k \in Nat
      BY SMTT(60), ExecNat DEF IInv
    <3> QED
      BY ZenonT(60), <2>3, <3>1 DEF ReceiveEffect
  <2>14. DroppedOnlyIfReceived'
    BY ZenonT(60), <2>5, <2>8, <2>11, <2>13, DroppedKept DEF IInv
  <2> QED
    BY ZenonT(60), <2>6, <2>8, <2>9, <2>12, <2>14 DEF IInv

-----------------------------------------------------------------------------
(* The invariant *)

\* The invariant holds when both nodes have processed the Joined event.
LEMMA InitIInv == InitJoined => IInv
<1> SUFFICES ASSUME InitJoined
             PROVE  IInv
  OBVIOUS
<1>1. PICK s \in Session :
        /\ s = new_session(InitialCredits)
        /\ GoodWindow(s.dedup)
  BY ZenonT(60), NewSession, TransportAssumption
<1>2. /\ s.next_seq = 1 /\ s.retransmit_queue = {} /\ s.dedup = new_window(1)
      /\ s.execution_records = << >>
  BY ZenonT(60), <1>1 DEF new_session
<1>3. \A n \in Nodes : Session1(n) = s
  BY ZenonT(60), <1>1 DEF InitJoined, Session1
<1>4. InFlight(data) = {} /\ InFlight(acks) = {}
  BY DEF InitJoined, NoFrames, InFlight
<1>5. \A n \in Nodes : MaxSends[n] \in Nat /\ Len(issued[n]) = 0 /\ DOMAIN issued[n] = {}
                       /\ DOMAIN inbound[n] = {} /\ Peer(n) \in Nodes
  BY SMTT(60), TransportAssumption, Peers DEF InitJoined
<1>6. StableTypes
  <2>1. /\ epoch \in [Nodes -> Nat] /\ cur \in [Nodes -> Nat] /\ sender \in [Nodes -> BOOLEAN]
        /\ faults \in [duplicated : Nat, lost : Nat]
        /\ next_opaque \in [Nodes -> Nat] /\ pending \in [Nodes -> SUBSET Nat]
    BY DEF InitJoined
  <2>2. /\ inbound \in [Nodes -> Seq(DataFrame)] /\ calls \in [Nodes -> Seq(Call)]
        /\ issued \in [Nodes -> Seq(FireAndForget \cup Requests)]
    BY DEF InitJoined
  <2>3. sess \in [Nodes -> [{1} -> Session]] /\ cur = [n \in Nodes |-> 1]
    BY ZenonT(60), <1>1 DEF InitJoined
  <2>4. DOMAIN exec = Nodes /\ \A n \in Nodes : exec[n] \in [1 .. MaxSends[Peer(n)] -> Nat]
    BY DEF InitJoined
  <2>5. \A n \in Nodes : sess[n] \in [DOMAIN sess[n] -> Session]
    BY ZenonT(60), <2>3
  <2>6. TypeOK
    BY ZenonT(60), <1>4, <2>1, <2>2, <2>4, <2>5 DEF TypeOK
  <2>7. \A n \in Nodes : Len(issued[n]) <= MaxSends[n]
    BY SMTT(60), <1>5
  <2> QED
    BY ZenonT(60), <2>3, <2>4, <2>6, <2>7 DEF StableTypes
<1>7. QueueInv /\ FrameInv /\ AckInv
  <2>1. QueueInv
    <3>1. \A n \in Nodes : Session1(n).next_seq = Len(issued[n]) + 1
      BY <1>2, <1>3, <1>5
    <3> QED
      BY Zenon, <1>2, <1>3, <3>1 DEF QueueInv
  <2>2. FrameInv
    BY Zenon, <1>4, <1>5 DEF FrameInv
  <2>3. AckInv
    BY Zenon, <1>4 DEF AckInv
  <2> QED
    BY Zenon, <2>1, <2>2, <2>3
<1>8. WindowInv
  <2>1. s.dedup.next_expected = 1 /\ s.dedup.seen = {}
    BY <1>2 DEF new_window
  <2>2. \A n \in Nodes : 1 \in 1 .. Len(issued[Peer(n)]) + 1
    BY <1>5
  <2> QED
    BY Zenon, <1>1, <1>3, <2>1, <2>2 DEF WindowInv
<1>9. OrderInv
  BY SMTT(60), <1>5 DEF OrderInv, InitJoined
<1>10. RecordInv
  <2>1. DOMAIN s.execution_records = {}
    BY <1>2
  <2>2. \A n \in Nodes : GoodRecords(Session1(n).execution_records, Len(issued[Peer(n)]))
    BY ZenonT(90), <1>3, <2>1 DEF GoodRecords
  <2>3. \A n \in Nodes : DOMAIN issued[Peer(n)] = {}
    BY ZenonT(90), <1>5
  <2> QED
    BY ZenonT(90), <2>2, <2>3 DEF RecordInv
<1>11. DroppedOnlyIfReceived
  BY ZenonT(90), <1>5 DEF DroppedOnlyIfReceived
<1> QED
  BY ZenonT(60), <1>6, <1>7, <1>8, <1>9, <1>10, <1>11 DEF IInv

\* Every step of the engines, the transports and the network keeps it.
LEMMA NextIInv ==
    ASSUME NatWellOrdered, IInv, [StableNext]_vars
    PROVE  IInv'
<1>1. ASSUME NEW n \in Nodes, CallStep(n)
      PROVE  IInv'
  BY ZenonT(60), <1>1, IssueKeeps, RefuseKeeps, TimeoutKeeps DEF CallStep
<1>2. ASSUME NEW n \in Nodes, TransportStep(n)
      PROVE  IInv'
  BY ZenonT(60), <1>2, RtoKeeps, ReceiveKeeps, AckKeeps DEF TransportStep
<1>3. ASSUME NEW n \in Nodes, handle_verb_frame(n)
      PROVE  IInv'
  BY ZenonT(60), <1>3, VerbKeeps
<1>4. ASSUME NEW n \in Nodes, CacheExpire(n)
      PROVE  IInv'
  BY ZenonT(60), <1>4, CacheExpireKeeps
<1>5. CASE NetworkStep
  BY ZenonT(60), <1>5, NetworkKeeps
<1>6. CASE UNCHANGED vars
  <2>1. UNCHANGED <<epoch, sess, cur, sender, data, acks, inbound, issued, faults,
                    next_opaque, pending, calls, exec>>
    BY ZenonT(60), <1>6 DEF vars, transportVars, engineVars
  <2>2. StableTypes'
    BY ZenonT(60), <2>1 DEF IInv, StableTypes, TypeOK
  <2> QED
    BY ZenonT(60), <2>1, <2>2, QuietStep, SameSession
<1> QED
  BY ZenonT(60), <1>1, <1>2, <1>3, <1>4, <1>5, <1>6 DEF StableNext

-----------------------------------------------------------------------------
(* The refinement of VerbService *)

Times == [n \in Nodes |-> exec[Peer(n)]]

\* Nothing is accepted or executed at the start.
LEMMA ServiceInit == InitJoined => Service!Init
BY Peers DEF InitJoined, Service!Init

\* A call that queues a frame is an Accept step.
LEMMA ServiceAccept ==
    ASSUME NEW n \in Nodes, IssueFireAndForget(n) \/ IssueRequest(n)
    PROVE  Service!Next
<1>1. PICK verb \in Verbs : issued' = [issued EXCEPT ![n] = Append(@, verb)]
  BY ZenonT(90) DEF IssueFireAndForget, IssueRequest, send
<1>2. exec' = exec
  BY DEF IssueFireAndForget, IssueRequest, engineVars
<1>3. Service!Accept(n)
  BY ZenonT(90), <1>1, <1>2 DEF Service!Accept
<1> QED
  BY <1>3 DEF Service!Next

\* Handling a frame is an Execute step or a stutter: OrderInv gives the order
\* of the writes and sends, RecordInv the single execution of an atomic.
LEMMA ServiceExecute ==
    ASSUME NatWellOrdered, \A m \in Nodes : MaxSends[m] < RecordCap,
           IInv, NEW n \in Nodes, handle_verb_frame(n)
    PROVE  Service!Next \/ (issued' = issued /\ exec' = exec)
<1>1. PICK f : \E t \in Session :
        /\ f = inbound[n][1] /\ 1 \in DOMAIN inbound[n]
        /\ Executes(n, f, t)
        /\ issued' = issued
  BY ZenonT(60), VerbStep DEF VerbEffect
<1>2. PICK t \in Session : Executes(n, f, t)
  BY ZenonT(60), <1>1
<1>3. CASE exec' # exec
  <2>1. /\ f.seq \in DOMAIN issued[Peer(n)] /\ f.verb = issued[Peer(n)][f.seq]
        /\ exec' = [exec EXCEPT ![n][f.seq] = @ + 1]
        /\ f.verb \in Atomics => ~is_executed(Session1(n), f.seq)
    BY ZenonT(60), <1>2, <1>3 DEF Executes
  <2>2. PICK p \in Nodes : p = Peer(n) /\ Peer(p) = n /\ p # n
    BY Peers
  <2>3. PICK N \in Nat : /\ N = Len(issued[p]) /\ DOMAIN issued[p] = 1 .. N
                         /\ issued[p] \in Seq(FireAndForget \cup Requests)
    BY ZenonT(60), <2>2, IssuedTypes DEF IInv
  <2>4. exec[n][f.seq] \in Nat /\ f.seq \in Nat
    BY ZenonT(60), <2>1, ExecNat DEF IInv
  <2>5. f.verb \in FireAndForget =>
          \A k \in DOMAIN issued[p] :
            issued[p][k] \in FireAndForget /\ k >= f.seq => exec[n][k] = 0
    BY ZenonT(60), <1>1, <2>2 DEF IInv, OrderInv, FF
  <2>6. issued[p][f.seq] # "ReadReq" => Times[p][f.seq] = 0
    <3>1. N < RecordCap
      <4>1. \A m \in Nodes : Len(issued[m]) <= MaxSends[m] /\ MaxSends[m] < RecordCap
        BY ZenonT(60) DEF IInv, StableTypes
      <4>2. MaxSends[p] \in Nat /\ RecordCap \in Nat
        BY TransportAssumption, SessionAssumption
      <4>3. N <= MaxSends[p] /\ MaxSends[p] < RecordCap
        BY Zenon, <2>3, <4>1
      <4> QED
        BY <4>2, <4>3
    <3>2. CASE f.verb \in FireAndForget
      <4>1. f.seq >= f.seq
        BY <2>4
      <4>2. exec[n][f.seq] = 0
        BY ZenonT(60), <2>1, <2>2, <2>5, <3>2, <4>1
      <4> QED
        BY ZenonT(60), <2>2, <4>2 DEF Times
    <3>3. CASE f.verb \in Atomics
      <4>1. ~(exec[n][f.seq] > 0)
        BY ZenonT(60), <2>1, <2>2, <2>3, <3>1, <3>3 DEF IInv, RecordInv, Atomics
      <4> QED
        BY SMTT(60), <2>2, <2>4, <4>1 DEF Times
    <3>4. f.verb \in FireAndForget \cup Requests
      BY ZenonT(60), <2>1, <2>2, <2>3, ElementOfSeq
    <3> QED
      BY ZenonT(60), <2>1, <2>2, <3>2, <3>3, <3>4 DEF Requests, Atomics
  <2>7. issued[p][f.seq] \in FireAndForget =>
          \A j \in f.seq + 1 .. Len(issued[p]) :
            issued[p][j] \in FireAndForget => Times[p][j] = 0
    <3> SUFFICES ASSUME issued[p][f.seq] \in FireAndForget,
                        NEW j \in f.seq + 1 .. N, issued[p][j] \in FireAndForget
                 PROVE  exec[n][j] = 0
      BY ZenonT(60), <2>2, <2>3 DEF Times
    <3>1. j \in 1 .. N /\ j >= f.seq
      BY <2>4
    <3> QED
      BY ZenonT(60), <2>1, <2>2, <2>3, <2>5, <3>1
  <2>8. Times' = [Times EXCEPT ![p][f.seq] = @ + 1]
    <3>1. DOMAIN exec = Nodes /\ \A m \in Nodes : Peer(m) = n <=> m = p
      BY ZenonT(60), <2>2, Peers DEF IInv, StableTypes
    <3>2. \A m \in Nodes : Times'[m] =
            IF m = p THEN [exec[n] EXCEPT ![f.seq] = @ + 1] ELSE exec[Peer(m)]
      BY ZenonT(60), <2>1, <3>1, Peers DEF Times
    <3> QED
      BY ZenonT(90), <2>2, <3>2 DEF Times
  <2>9. Service!Execute(p, f.seq)
    BY ZenonT(90), <1>1, <2>6, <2>7, <2>8 DEF Service!Execute, Times
  <2> QED
    BY ZenonT(60), <2>1, <2>2, <2>9 DEF Service!Next
<1> QED
  BY ZenonT(60), <1>1, <1>3

\* Every other step is a stutter.
LEMMA ServiceStep ==
    ASSUME NatWellOrdered, \A m \in Nodes : MaxSends[m] < RecordCap, IInv, [StableNext]_vars
    PROVE  [Service!Next]_<<issued, Times>>
<1>1. ASSUME NEW n \in Nodes, CallStep(n)
      PROVE  Service!Next \/ (issued' = issued /\ exec' = exec)
  BY ZenonT(60), <1>1, ServiceAccept DEF CallStep, RefuseRequest, VerbTimeout, transportVars
<1>2. ASSUME NEW n \in Nodes, TransportStep(n) \/ CacheExpire(n)
      PROVE  issued' = issued /\ exec' = exec
  BY ZenonT(90), <1>2
     DEF TransportStep, CacheExpire, RtoTick, handle_data_frame, handle_ack_frame, engineVars
<1>3. NetworkStep => issued' = issued /\ exec' = exec
  BY DEF NetworkStep, LoseData, LoseAck, DuplicateData, DuplicateAck, engineVars
<1>4. UNCHANGED vars => issued' = issued /\ exec' = exec
  BY DEF vars, transportVars, engineVars
<1>5. Service!Next \/ (issued' = issued /\ exec' = exec)
  BY ZenonT(60), <1>1, <1>2, <1>3, <1>4, ServiceExecute DEF StableNext
<1> QED
  BY <1>5 DEF Times

-----------------------------------------------------------------------------
(* The theorems *)

INSTANCE WellFoundedInduction

\* A set of naturals has a least element.
LEMMA LeastElement == NatWellOrdered
<1> SUFFICES ASSUME NEW T \in SUBSET Nat, T # {} PROVE \E x \in T : \A y \in T : x <= y
  BY DEF NatWellOrdered
<1> DEFINE R == OpToRel(<, Nat)
<1>1. IsWellFoundedOn(R, Nat)
  BY ZenonT(90), NatLessThanWellFounded
<1>2. \A x, y \in Nat : x < y => <<x, y>> \in R
  BY DEF OpToRel
<1> HIDE DEF R
<1>3. PICK x \in T : \A y \in T : ~(<<y, x>> \in R)
  BY ZenonT(90), <1>1, WFMin
<1>4. \A y \in T : ~(y < x) /\ x \in Nat /\ y \in Nat
  BY ZenonT(90), <1>2, <1>3
<1>5. \A y \in T : x <= y
  BY <1>4
<1> QED
  BY ZenonT(90), <1>5

\* The inductive invariant holds in every state of the two engines.
THEOREM Invariance == StableSpec => []IInv
<1>1. IInv /\ [StableNext]_vars => IInv'
  BY ZenonT(90), LeastElement, NextIInv
<1> QED
  BY <1>1, InitIInv, PTL DEF StableSpec

\* Every variable keeps its type.
THEOREM TypeCorrectness == StableSpec => []TypeOK
<1>1. IInv => TypeOK
  BY ZenonT(60) DEF IInv, StableTypes
<1> QED
  BY <1>1, Invariance, PTL

\* No write, send or atomic is executed twice.  A write or a send: the window
\* passes its number once, so the queue of the verb engine holds it once.  An
\* atomic: it is handed over again, and found among the execution records.
THEOREM ExecutedAtMostOnce == StableSpec => []AtMostOnce
<1>1. IInv => AtMostOnce
  <2> SUFFICES ASSUME IInv, NEW n \in Nodes, Len(issued[Peer(n)]) < RecordCap,
                      NEW k \in DOMAIN issued[Peer(n)], issued[Peer(n)][k] # "ReadReq"
               PROVE  exec[n][k] <= 1
    BY ZenonT(60) DEF AtMostOnce
  <2>1. issued[Peer(n)][k] \in FireAndForget \cup Requests
    <3>1. issued[Peer(n)] \in Seq(FireAndForget \cup Requests) /\ k \in 1 .. Len(issued[Peer(n)])
      BY ZenonT(60), IssuedTypes, Peers DEF IInv
    <3> QED
      BY ZenonT(60), <3>1, ElementOfSeq
  <2>2. CASE issued[Peer(n)][k] \in FireAndForget
    BY ZenonT(60), <2>2 DEF IInv, OrderInv, FF
  <2>3. CASE issued[Peer(n)][k] \in {"AtomicCas", "AtomicFaa"}
    BY ZenonT(60), <2>3 DEF IInv, RecordInv
  <2> QED
    BY ZenonT(60), <2>1, <2>2, <2>3 DEF Requests
<1> QED
  BY <1>1, Invariance, PTL

\* process_ack drops a write or a send of a living session only when the
\* window of the peer has marked it.
THEOREM DroppedWasReceived == StableSpec => []DroppedOnlyIfReceived
<1>1. IInv => DroppedOnlyIfReceived
  BY DEF IInv
<1> QED
  BY <1>1, Invariance, PTL

\* Two engines that queue fewer frames than a session has execution records
\* implement VerbService: each write, send and atomic is executed at most
\* once, and no write or send after a later one.
THEOREM Refinement ==
    ASSUME \A m \in Nodes : MaxSends[m] < RecordCap
    PROVE  StableSpec => ImplementsVerbService
<1>1. IInv /\ [StableNext]_vars => [Service!Next]_<<issued, [n \in Nodes |-> exec[Peer(n)]]>>
  BY ZenonT(90), LeastElement, ServiceStep DEF Times
<1> QED
  BY <1>1, ServiceInit, Invariance, PTL DEF StableSpec, ImplementsVerbService, Service!Spec

\* The invariant of the calls holds in every state of the two engines.
THEOREM CallInvariance == StableSpec => []CallInv
<1>1. InitJoined => CallInv
  BY ZenonT(90), InitCalls
<1>2. IInv /\ CallInv /\ [StableNext]_vars => CallInv'
  BY ZenonT(90), LeastElement, NextCalls
<1> QED
  BY <1>1, <1>2, Invariance, PTL DEF StableSpec

\* A request leaves the retransmit queue of a living session only when its
\* response has come: process_ack keeps the requests, and complete_request
\* removes the one whose opaque the response carries.
THEOREM KeptUntilAnswered == StableSpec => []RequestKeptUntilAnswered
<1>1. IInv /\ CallInv => RequestKeptUntilAnswered
  BY ZenonT(90), QueuedUntilAnswered
<1> QED
  BY <1>1, CallInvariance, Invariance, PTL

\* Responses answer the calls that get them.  An error response to a read
\* looks like a read to the node that made the call, which then answers it, so
\* this is claimed for engines in which no read is refused.
THEOREM ResponseInvariance ==
    ASSUME "ReadReq" \notin Verbs \/ ~Refusals
    PROVE  StableSpec => []ResponseInv
<1>1. InitJoined => ResponseInv
  BY ZenonT(90), InitCalls
<1>2. IInv /\ CallInv /\ ResponseInv /\ [StableNext]_vars => ResponseInv'
  BY ZenonT(90), LeastElement, NextCalls
<1> QED
  BY <1>1, <1>2, Invariance, CallInvariance, PTL DEF StableSpec

\* A call that returns a result returns that of its own request, whether the
\* response is fresh, from the cache of the peer, duplicated or late.
THEOREM ResultIsTheCalls ==
    ASSUME "ReadReq" \notin Verbs \/ ~Refusals
    PROVE  StableSpec => []AnswersTheCall
<1>1. ResponseInv => AnswersTheCall
  BY ZenonT(90), ResultsSound
<1> QED
  BY <1>1, ResponseInvariance, PTL

\* A call that returned the result of an atomic had it executed.
THEOREM ResultIsExecuted ==
    ASSUME "ReadReq" \notin Verbs \/ ~Refusals
    PROVE  StableSpec => []OkMeansExecuted
<1>1. ResponseInv => OkMeansExecuted
  BY ZenonT(90), ResultsSound
<1> QED
  BY <1>1, ResponseInvariance, PTL
=============================================================================
