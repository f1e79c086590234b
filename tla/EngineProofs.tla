---------------------------- MODULE EngineProofs ----------------------------
(***************************************************************************)
(* What the senders, the acknowledgements, the network and the verb        *)
(* handlers of two engines whose sessions stay do to IInv                  *)
(* (DataPlaneInvariant).                                                   *)
(*                                                                         *)
(* The effect of each handler is stated first (VerbEffects), and the       *)
(* invariant is kept because of the effect.                                *)
(*                                                                         *)
(* A lemma whose helpers serve it alone has them as its first steps.       *)
(***************************************************************************)
EXTENDS VerbEffects, SessionProofs

-----------------------------------------------------------------------------
(* When a step leaves a conjunct of the invariant alone *)

\* Entries that were queued before are still what the history says.
LEMMA QueueKept ==
    ASSUME StableTypes, QueueInv, issued' = issued,
           \A m \in Nodes :
               /\ Session1(m)'.next_seq = Session1(m).next_seq
               /\ Derived(Session1(m)'.retransmit_queue, Session1(m).retransmit_queue)
    PROVE  QueueInv'
<1> SUFFICES ASSUME NEW m \in Nodes
             PROVE  /\ Session1(m)'.next_seq = Len(issued[m]) + 1
                    /\ \A e \in Session1(m)'.retransmit_queue : ValidEntry(issued, m, e)
  BY ZenonT(60) DEF QueueInv, ValidEntry
<1> QED
  BY DEF QueueInv, ValidEntry, Derived

\* Frames in flight stay valid when only valid ones are added.
LEMMA FramesKept ==
    ASSUME FrameInv, issued' = issued, inbound' = inbound,
           \A f \in InFlight(data)' : f \in InFlight(data) \/ ValidFrame(issued, f)
    PROVE  FrameInv'
BY SMTT(60) DEF FrameInv, ValidFrame

\* The windows are good as long as none is touched.
LEMMA WindowKept ==
    ASSUME WindowInv, issued' = issued,
           \A m \in Nodes : Session1(m)'.dedup = Session1(m).dedup
    PROVE  WindowInv'
BY DEF WindowInv

\* ACKs in flight stay covered as long as no window is touched.
LEMMA AckKept ==
    ASSUME StableTypes, AckInv, InFlight(acks)' \subseteq InFlight(acks),
           \A m \in Nodes : Session1(m)'.dedup = Session1(m).dedup
    PROVE  AckInv'
BY ZenonT(90) DEF AckInv, StableTypes, TypeOK, AckFrame

\* The order of the queues is kept when nothing is executed or received.
LEMMA OrderKept ==
    ASSUME OrderInv, issued' = issued, exec' = exec, inbound' = inbound,
           \A m \in Nodes : Session1(m)'.dedup = Session1(m).dedup
    PROVE  OrderInv'
BY DEF OrderInv, FF

\* The records stay good when nothing is executed or recorded.
LEMMA RecordsKept ==
    ASSUME RecordInv, issued' = issued, exec' = exec,
           \A m \in Nodes :
               Session1(m)'.execution_records = Session1(m).execution_records
    PROVE  RecordInv'
BY DEF RecordInv, is_executed

\* An entry of a fire-and-forget frame leaves a living session only below the
\* peer's window.
LEMMA DroppedKept ==
    ASSUME StableTypes, StableTypes', QueueInv, DroppedOnlyIfReceived, issued' = issued,
           \A m \in Nodes : Session1(m)'.state = "Active" =>
               /\ Session1(m).state = "Active"
               /\ \A d \in Session1(m).retransmit_queue : d.verb \in FireAndForget =>
                      \/ \E e \in Session1(m)'.retransmit_queue : e.id = d.id
                      \/ is_seen(Session1(Peer(m))'.dedup, d.seq),
           \A m \in Nodes : \A k \in DOMAIN issued[Peer(m)] :
               is_seen(Session1(m).dedup, k) => is_seen(Session1(m)'.dedup, k)
    PROVE  DroppedOnlyIfReceived'
<1> SUFFICES ASSUME NEW m \in Nodes, Session1(m)'.state = "Active",
                    NEW k \in DOMAIN issued[m], issued[m][k] \in FireAndForget
             PROVE  \/ \E e \in Session1(m)'.retransmit_queue : e.id = <<m, k>>
                    \/ is_seen(Session1(Peer(m))'.dedup, k)
  <2>1. DroppedOnlyIfReceived' <=>
          \A n \in Nodes : Session1(n)'.state = "Active" =>
            \A j \in DOMAIN issued'[n] :
              \/ issued'[n][j] \notin FireAndForget
              \/ \E e \in Session1(n)'.retransmit_queue : e.id = <<n, j>>
              \/ is_seen(Session1(Peer(n))'.dedup, j)
    <3>1. cur' = [n \in Nodes |-> 1]
      BY DEF StableTypes
    <3> QED
      BY ZenonT(90), <3>1, Peers DEF DroppedOnlyIfReceived, Queued, CurrentSession, Session1
  <2> QED
    BY ZenonT(60), <2>1
<1>1. \/ \E d \in Session1(m).retransmit_queue : d.id = <<m, k>>
      \/ is_seen(Session1(Peer(m)).dedup, k)
  BY ZenonT(60), DroppedInSession1
<1>2. CASE is_seen(Session1(Peer(m)).dedup, k)
  BY SMTT(60), <1>2, Peers
<1>3. ASSUME NEW d \in Session1(m).retransmit_queue, d.id = <<m, k>>
      PROVE  \/ \E e \in Session1(m)'.retransmit_queue : e.id = <<m, k>>
             \/ is_seen(Session1(Peer(m))'.dedup, k)
  <2>1. ValidEntry(issued, m, d)
    BY DEF QueueInv
  <2>2. d.seq = k /\ d.verb \in FireAndForget
    BY <1>3, <2>1 DEF ValidEntry
  <2> QED
    BY <1>3, <2>2
<1> QED
  BY <1>1, <1>2, <1>3

\* The steps that touch no receiver: they keep what the entries stand for, and
\* drop entries of a living session only below the peer's window.
LEMMA SenderStep ==
    ASSUME IInv, StableTypes', issued' = issued, exec' = exec, inbound' = inbound,
           InFlight(acks)' \subseteq InFlight(acks),
           \A f \in InFlight(data)' : f \in InFlight(data) \/ ValidFrame(issued, f),
           \A m \in Nodes :
               /\ SameReceiver(Session1(m)', Session1(m))
               /\ Session1(m)'.next_seq = Session1(m).next_seq
               /\ Derived(Session1(m)'.retransmit_queue, Session1(m).retransmit_queue)
               /\ Session1(m)'.state = "Active" =>
                    /\ Session1(m).state = "Active"
                    /\ \A d \in Session1(m).retransmit_queue : d.verb \in FireAndForget =>
                           \/ \E e \in Session1(m)'.retransmit_queue : e.id = d.id
                           \/ is_seen(Session1(Peer(m)).dedup, d.seq)
    PROVE  IInv'
<1>1. \A m \in Nodes : Session1(m)'.dedup = Session1(m).dedup
  BY DEF SameReceiver
<1>2. QueueInv' /\ FrameInv' /\ WindowInv' /\ AckInv' /\ OrderInv'
  BY ZenonT(60), <1>1, QueueKept, FramesKept, WindowKept, AckKept, OrderKept DEF IInv
<1>3. RecordInv'
  BY RecordsKept DEF IInv, SameReceiver
<1>4. \A m \in Nodes : Session1(Peer(m))'.dedup = Session1(Peer(m)).dedup
  BY SMTT(60), <1>1, Peers
<1>5. DroppedOnlyIfReceived'
  BY <1>1, <1>4, DroppedKept DEF IInv
<1> QED
  BY SMTT(60), <1>2, <1>3, <1>5 DEF IInv

\* The special case in which every session keeps its sender side too.
LEMMA QuietStep ==
    ASSUME IInv, StableTypes', issued' = issued, exec' = exec, inbound' = inbound,
           InFlight(acks)' \subseteq InFlight(acks),
           InFlight(data)' \subseteq InFlight(data),
           \A m \in Nodes : SameSender(Session1(m)', Session1(m))
                            /\ SameReceiver(Session1(m)', Session1(m))
    PROVE  IInv'
BY SenderStep DEF SameSender, Derived

\* A step that leaves sess alone leaves both sides of every session alone.
LEMMA SameSession ==
    ASSUME sess' = sess, NEW m
    PROVE  SameSender(Session1(m)', Session1(m)) /\ SameReceiver(Session1(m)', Session1(m))
BY DEF SameSender, SameReceiver, Session1

-----------------------------------------------------------------------------
(* The steps *)

\* Losing and duplicating datagrams keep the invariant.
LEMMA NetworkKeeps ==
    ASSUME IInv, NetworkStep
    PROVE  IInv'
<1>1. /\ sess' = sess /\ issued' = issued /\ exec' = exec /\ inbound' = inbound
      /\ InFlight(acks)' \subseteq InFlight(acks)
      /\ InFlight(data)' \subseteq InFlight(data)
  <2>1. \A B, f : f \in InFlight(B) => InFlight(Put(B, {f})) \subseteq InFlight(B)
    BY PutFrames
  <2> QED
    BY ZenonT(90), <2>1, TakeFrame
      DEF NetworkStep, LoseData, LoseAck, DuplicateData, DuplicateAck, engineVars
<1>2. faults' \in [duplicated : Nat, lost : Nat]
  <2>1. faults \in [duplicated : Nat, lost : Nat]
    BY DEF IInv, StableTypes, TypeOK
  <2>2. faults.lost + 1 \in Nat /\ faults.duplicated + 1 \in Nat
    BY <2>1
  <2> QED
    BY <2>1, <2>2 DEF NetworkStep, LoseData, LoseAck, DuplicateData, DuplicateAck
<1>3. UNCHANGED <<epoch, cur, sender, next_opaque, pending, calls>>
  BY DEF NetworkStep, LoseData, LoseAck, DuplicateData, DuplicateAck, engineVars
<1>4. StableTypes'
  BY ZenonT(60), <1>1, <1>2, <1>3 DEF IInv, StableTypes, TypeOK
<1> QED
  BY SMTT(60), <1>1, <1>4, QuietStep, SameSession

\* Taking an opaque keeps the types of the tables of the engine.
LEMMA TakeOpaqueTypes ==
    ASSUME StableTypes, NEW n \in Nodes, NEW id \in Id \cup {NoId}, NEW status \in Outcome,
           TakeOpaque(n, id, status)
    PROVE  /\ next_opaque' \in [Nodes -> Nat]
           /\ pending' \in [Nodes -> SUBSET Nat]
           /\ calls' \in [Nodes -> Seq(Call)]
<1>1. next_opaque[n] \in Nat /\ pending[n] \in SUBSET Nat /\ calls[n] \in Seq(Call)
  BY DEF StableTypes, TypeOK
<1>2. [id |-> id, answer |-> NoId, status |-> status] \in Call
  BY DEF Call
<1>3. Append(calls[n], [id |-> id, answer |-> NoId, status |-> status]) \in Seq(Call)
  BY <1>1, <1>2, AppendProperties
<1>4. next_opaque[n] + 1 \in Nat /\ pending[n] \cup {next_opaque[n]} \in SUBSET Nat
  BY <1>1
<1> QED
  BY ZenonT(60), <1>3, <1>4 DEF TakeOpaque, StableTypes, TypeOK

\* A refused request keeps the invariant.
LEMMA RefuseKeeps ==
    ASSUME IInv, NEW n \in Nodes, RefuseRequest(n)
    PROVE  IInv'
<1>1. UNCHANGED <<transportVars, exec>> /\ TakeOpaque(n, NoId, "Refused")
  BY DEF RefuseRequest
<1>2. /\ next_opaque' \in [Nodes -> Nat]
      /\ pending' \in [Nodes -> SUBSET Nat]
      /\ calls' \in [Nodes -> Seq(Call)]
  BY <1>1, TakeOpaqueTypes DEF Outcome, IInv
<1>3. StableTypes'
  BY ZenonT(90), <1>1, <1>2 DEF IInv, StableTypes, TypeOK, transportVars
<1> QED
  BY <1>1, <1>3, QuietStep, SameSession DEF transportVars

\* A call's record may change in place.
LEMMA CallUpdate ==
    ASSUME StableTypes, NEW n \in Nodes, NEW o \in DOMAIN calls[n], NEW c \in Call
    PROVE  [calls EXCEPT ![n][o] = c] \in [Nodes -> Seq(Call)]
<1>1. calls \in [Nodes -> Seq(Call)] /\ calls[n] \in Seq(Call)
  BY DEF StableTypes, TypeOK
<1>2. [calls[n] EXCEPT ![o] = c] \in Seq(Call)
  BY SMTT(60), <1>1, ExceptSeq, LenProperties
<1> QED
  BY <1>1, <1>2

\* A verb timeout keeps the invariant.
LEMMA TimeoutKeeps ==
    ASSUME IInv, NEW n \in Nodes, VerbTimeout(n)
    PROVE  IInv'
<1>1. PICK o \in DOMAIN calls[n] :
        /\ pending' = [pending EXCEPT ![n] = @ \ {o}]
        /\ calls' = [calls EXCEPT ![n][o].status = "Timeout"]
        /\ UNCHANGED <<transportVars, next_opaque, exec>>
  BY ZenonT(90) DEF VerbTimeout
<1>2. calls[n] \in Seq(Call) /\ calls[n][o] \in Call
  BY ZenonT(60), ElementOfSeq, LenProperties DEF IInv, StableTypes, TypeOK
<1>3. [calls[n][o] EXCEPT !.status = "Timeout"] \in Call
  BY <1>2 DEF Call, Outcome
<1>4. calls' = [calls EXCEPT ![n][o] = [calls[n][o] EXCEPT !.status = "Timeout"]]
  BY <1>1
<1>5. calls' \in [Nodes -> Seq(Call)]
  BY ZenonT(60), <1>3, <1>4, CallUpdate DEF IInv
<1>6. pending' \in [Nodes -> SUBSET Nat]
  BY ZenonT(60), <1>1 DEF IInv, StableTypes, TypeOK
<1>7. StableTypes'
  BY ZenonT(90), <1>1, <1>5, <1>6 DEF IInv, StableTypes, TypeOK, transportVars
<1> QED
  BY <1>1, <1>7, QuietStep, SameSession DEF transportVars

\* Expiring a cached response keeps the invariant.
LEMMA CacheExpireKeeps ==
    ASSUME IInv, NEW n \in Nodes, CacheExpire(n)
    PROVE  IInv'
<1>0. DOMAIN sess[n] = {1}
  BY DEF IInv, StableTypes
<1>1. PICK c : sess' = [sess EXCEPT ![n][1] = cache_expire(@, c)]
  <2>1. PICK k \in DOMAIN sess[n] :
          \E c \in sess[n][k].read_cache : sess' = [sess EXCEPT ![n][k] = cache_expire(@, c)]
    BY ZenonT(90) DEF CacheExpire
  <2>2. k = 1
    BY <1>0, <2>1
  <2> QED
    BY ZenonT(90), <2>1, <2>2
<1>2. Session1(n) \in Session
  BY Current DEF IInv
<1> DEFINE t == cache_expire(Session1(n), c)
<1>3. t \in Session /\ SameSender(t, Session1(n)) /\ SameReceiver(t, Session1(n))
  BY <1>2, CacheExpired
<1>4. sess' = [sess EXCEPT ![n][1] = t]
  BY <1>1 DEF Session1
<1> HIDE DEF t
<1>5. /\ sess' \in [Nodes -> [{1} -> Session]]
      /\ \A m \in Nodes : SameSender(Session1(m)', Session1(m))
                          /\ SameReceiver(Session1(m)', Session1(m))
  BY ZenonT(90), <1>3, <1>4, SessionUpdate DEF IInv, SameSender, SameReceiver
<1>6. UNCHANGED <<epoch, cur, sender, data, acks, inbound, issued, faults, engineVars>>
  BY SMTT(60) DEF CacheExpire
<1>7. StableTypes'
  BY ZenonT(90), <1>5, <1>6 DEF IInv, StableTypes, TypeOK, engineVars
<1> QED
  BY <1>5, <1>6, <1>7, QuietStep DEF engineVars

\* A tick of the RTO task keeps the invariant: what it resends is what the
\* history says, and a session it kills drops its entries.
LEMMA RtoKeeps ==
    ASSUME IInv, NEW n \in Nodes, RtoTick(n), UNCHANGED engineVars
    PROVE  IInv'
<1>1. DOMAIN sess[n] = {1}
  BY DEF IInv, StableTypes
<1>2. PICK expired \in SUBSET Session1(n).retransmit_queue :
        /\ Session1(n).state = "Active"
        /\ sess' = [sess EXCEPT ![n][1] = check_rto(Session1(n), expired)]
        /\ \/ data' = data
           \/ data' = SentToPeer(n, {EntryFrame(n, e) : e \in expired})
  BY ZenonT(90), <1>1 DEF RtoTick, Session1
<1>3. Session1(n) \in Session
  BY Current DEF IInv
<1>4. PICK t \in Session :
        /\ t = check_rto(Session1(n), expired)
        /\ SameReceiver(t, Session1(n))
        /\ t.next_seq = Session1(n).next_seq
        /\ \/ t.state = "Dead" /\ t.retransmit_queue = {}
           \/ /\ t.state = Session1(n).state
              /\ t.retransmit_queue = (Session1(n).retransmit_queue \ expired)
                     \cup {[e EXCEPT !.retry_count = @ + 1] : e \in expired}
  BY <1>3, CheckRto
<1>5. \A e \in expired : e \in Entry
  BY <1>3 DEF Session
<1>6. \A e \in expired :
        LET r == [e EXCEPT !.retry_count = @ + 1]
        IN  r.seq = e.seq /\ r.id = e.id /\ r.verb = e.verb
  BY <1>5 DEF Entry
<1>7. Derived(t.retransmit_queue, Session1(n).retransmit_queue)
  <2> SUFFICES ASSUME NEW x \in t.retransmit_queue
               PROVE  \E d \in Session1(n).retransmit_queue :
                          x.seq = d.seq /\ x.id = d.id /\ x.verb = d.verb
    BY DEF Derived
  <2>1. CASE x \in Session1(n).retransmit_queue
    BY <2>1
  <2>2. CASE x \notin Session1(n).retransmit_queue
    <3>1. PICK e \in expired : x = [e EXCEPT !.retry_count = @ + 1]
      BY <1>4, <2>2
    <3> QED
      BY <1>6, <3>1
  <2> QED
    BY <2>1, <2>2
<1>8. t.state = "Active" =>
        \A d \in Session1(n).retransmit_queue : \E e \in t.retransmit_queue : e.id = d.id
  <2> SUFFICES ASSUME t.state = "Active", NEW d \in Session1(n).retransmit_queue
               PROVE  \E e \in t.retransmit_queue : e.id = d.id
    OBVIOUS
  <2>1. CASE d \in expired
    BY ZenonT(90), <1>4, <1>6, <2>1
  <2>2. CASE d \notin expired
    BY <1>4, <2>2
  <2> QED
    BY <2>1, <2>2
<1>9. /\ sess' \in [Nodes -> [{1} -> Session]]
      /\ Session1(n)' = t
      /\ \A m \in Nodes : m # n => Session1(m)' = Session1(m)
  BY ZenonT(90), <1>2, <1>4, SessionUpdate DEF IInv
<1>10. \A f \in InFlight(data)' :
         f \in InFlight(data) \/ (ValidFrame(issued, f) /\ f \in DataFrame)
  BY SMTT(60), <1>2, SentFrames, EntryFrames
<1>11. UNCHANGED <<epoch, cur, sender, acks, inbound, issued, faults>>
  BY DEF RtoTick
<1>12. StableTypes'
  BY ZenonT(90), <1>9, <1>10, <1>11 DEF IInv, StableTypes, TypeOK, engineVars
<1>13. \A m \in Nodes :
         /\ SameReceiver(Session1(m)', Session1(m))
         /\ Session1(m)'.next_seq = Session1(m).next_seq
         /\ Derived(Session1(m)'.retransmit_queue, Session1(m).retransmit_queue)
         /\ Session1(m)'.state = "Active" =>
              /\ Session1(m).state = "Active"
              /\ \A d \in Session1(m).retransmit_queue :
                     \E e \in Session1(m)'.retransmit_queue : e.id = d.id
  <2>1. ASSUME NEW m \in Nodes, m # n
        PROVE  /\ SameReceiver(Session1(m)', Session1(m))
               /\ Session1(m)'.next_seq = Session1(m).next_seq
               /\ Derived(Session1(m)'.retransmit_queue, Session1(m).retransmit_queue)
               /\ Session1(m)'.state = "Active" =>
                    /\ Session1(m).state = "Active"
                    /\ \A d \in Session1(m).retransmit_queue :
                           \E e \in Session1(m)'.retransmit_queue : e.id = d.id
    BY <1>9, <2>1 DEF SameReceiver, Derived
  <2>2. /\ SameReceiver(Session1(n)', Session1(n))
        /\ Session1(n)'.next_seq = Session1(n).next_seq
        /\ Derived(Session1(n)'.retransmit_queue, Session1(n).retransmit_queue)
        /\ Session1(n)'.state = "Active" =>
             /\ Session1(n).state = "Active"
             /\ \A d \in Session1(n).retransmit_queue :
                    \E e \in Session1(n)'.retransmit_queue : e.id = d.id
    BY ZenonT(60), <1>2, <1>4, <1>7, <1>8, <1>9
  <2> QED
    BY ZenonT(60), <2>1, <2>2
<1> QED
  BY ZenonT(90), <1>10, <1>11, <1>12, <1>13, SenderStep DEF engineVars

\* handle_ack_frame keeps the invariant: an ACK in flight covers only what the
\* window of the peer has passed, so the entries it removes were received.
LEMMA AckKeeps ==
    ASSUME IInv, NEW n \in Nodes, handle_ack_frame(n), UNCHANGED engineVars
    PROVE  IInv'
<1> DEFINE s == Session1(n)
<1>1. /\ HasSession(n) /\ CurrentSession(n) = s /\ s \in Session
      /\ \A t : Update(n, t) = [sess EXCEPT ![n][1] = t]
  BY Current DEF IInv
<1>2. PICK f \in InFlight(acks) :
        LET r == process_ack_for_fast_retransmit(s, f)
            again == get_retransmit_entry(r.session, r.resend)
        IN  /\ f.src = Peer(n)
            /\ acks' = Take(acks, f)
            /\ sess' = [sess EXCEPT ![n][1] = process_ack(r.session, f)]
            /\ data' = SentToPeer(n, {EntryFrame(n, e) : e \in again})
  BY ZenonT(90), <1>1 DEF handle_ack_frame
<1>3. f \in AckFrame
  BY DEF IInv, StableTypes, TypeOK
<1>4. f.ack_seq \in Nat /\ f.credit_grant \in Nat
  BY <1>3 DEF AckFrame
<1> HIDE DEF s
<1>5. PICK u \in Session :
        /\ u = process_ack_for_fast_retransmit(s, f).session
        /\ SameSender(u, s) /\ SameReceiver(u, s)
  BY ZenonT(60), <1>1, <1>4, FastRetransmit
<1>6. PICK t \in Session :
        /\ t = process_ack(u, f)
        /\ SameReceiver(t, u) /\ t.state = u.state /\ t.next_seq = u.next_seq
        /\ t.retransmit_queue = u.retransmit_queue \ Acked(u, f)
  BY ZenonT(60), <1>4, <1>5, ProcessAck
<1>7. /\ SameReceiver(t, s) /\ t.state = s.state /\ t.next_seq = s.next_seq
      /\ t.retransmit_queue \subseteq s.retransmit_queue
      /\ \A d \in s.retransmit_queue \ t.retransmit_queue : d.seq <= f.ack_seq
  BY ZenonT(60), <1>5, <1>6 DEF SameReceiver, SameSender, Acked
<1>8. \A d \in s.retransmit_queue \ t.retransmit_queue :
        is_seen(Session1(Peer(n)).dedup, d.seq)
  <2>1. f.ack_seq < Session1(Peer(n)).dedup.next_expected
    BY <1>2 DEF IInv, AckInv
  <2>2. Session1(Peer(n)).dedup.next_expected \in Nat
    BY ZenonT(90), Current, Peers DEF IInv, Session, Window
  <2>3. \A d \in s.retransmit_queue : d.seq \in Nat
    BY <1>1 DEF Session, Entry
  <2> QED
    BY SMTT(60), <1>4, <1>7, <2>1, <2>2, <2>3 DEF is_seen
<1>9. /\ sess' \in [Nodes -> [{1} -> Session]]
      /\ Session1(n)' = t
      /\ \A m \in Nodes : m # n => Session1(m)' = Session1(m)
  BY ZenonT(90), <1>2, <1>5, <1>6, SessionUpdate DEF IInv
<1>10. \A g \in InFlight(data)' :
         g \in InFlight(data) \/ (ValidFrame(issued, g) /\ g \in DataFrame)
  <2>1. \A x : get_retransmit_entry(u, x) \subseteq s.retransmit_queue
    BY <1>5 DEF get_retransmit_entry, SameSender
  <2> QED
    BY SMTT(60), <1>2, <1>5, <2>1, SentFrames, EntryFrames DEF s
<1>11. UNCHANGED <<epoch, cur, sender, inbound, issued, faults>>
       /\ InFlight(acks)' \subseteq InFlight(acks)
  BY <1>2, TakeFrame DEF handle_ack_frame
<1>12. StableTypes'
  BY ZenonT(90), <1>9, <1>10, <1>11 DEF IInv, StableTypes, TypeOK, engineVars
<1>13. ASSUME NEW m \in Nodes
       PROVE  /\ SameReceiver(Session1(m)', Session1(m))
              /\ Session1(m)'.next_seq = Session1(m).next_seq
              /\ Derived(Session1(m)'.retransmit_queue, Session1(m).retransmit_queue)
              /\ Session1(m)'.state = "Active" =>
                   /\ Session1(m).state = "Active"
                   /\ \A d \in Session1(m).retransmit_queue : d.verb \in FireAndForget =>
                          \/ \E e \in Session1(m)'.retransmit_queue : e.id = d.id
                          \/ is_seen(Session1(Peer(m)).dedup, d.seq)
  <2>1. CASE m # n
    BY SMTT(60), <1>9, <2>1 DEF SameReceiver, Derived
  <2>2. CASE m = n
    BY Zenon, <1>7, <1>8, <1>9, <2>2 DEF Derived, s
  <2> QED
    BY ZenonT(90), <2>1, <2>2
<1> QED
  BY ZenonT(90), <1>10, <1>11, <1>12, <1>13, SenderStep DEF engineVars

-----------------------------------------------------------------------------
(* The calls that queue a frame: the history of one node grows by one.     *)

\* send keeps the conjuncts of the invariant that it can disturb.
LEMMA SendKeeps ==
    \A n \in Nodes, verb \in FireAndForget \cup Requests, opaque \in Nat, taken \in BOOLEAN :
        /\ IInv /\ send(n, verb, opaque, taken)
        /\ UNCHANGED <<epoch, cur, sender, acks, inbound, faults, exec>>
        /\ next_opaque' \in [Nodes -> Nat]
        /\ pending' \in [Nodes -> SUBSET Nat]
        /\ calls' \in [Nodes -> Seq(Call)]
        => IInv'
\* The two histories as intervals of numbers.
<1>Lengths.
      ASSUME StableTypes, NEW h, Continues(h), NEW m \in Nodes
      PROVE  \E M, L \in Nat :
                 /\ M = Len(issued[Peer(m)]) /\ DOMAIN issued[Peer(m)] = 1 .. M
                 /\ L = Len(h[Peer(m)]) /\ DOMAIN h[Peer(m)] = 1 .. L
                 /\ M <= L /\ L <= MaxSends[Peer(m)] /\ MaxSends[Peer(m)] \in Nat
  <2> USE <1>Lengths
  <2>1. Peer(m) \in Nodes
    BY Peers
  <2>2. h[Peer(m)] \in Seq(FireAndForget \cup Requests)
    BY <2>1 DEF Continues
  <2>3. Len(h[Peer(m)]) \in Nat /\ DOMAIN h[Peer(m)] = 1 .. Len(h[Peer(m)])
    BY <2>2, LenProperties
  <2>4. MaxSends[Peer(m)] \in Nat
    BY ZenonT(60), <2>1, TransportAssumption
  <2> QED
    BY ZenonT(90), <2>1, <2>3, <2>4, IssuedTypes DEF Continues
\* A longer history keeps the windows and the ACKs covered.
<1>WindowGrows.
      ASSUME StableTypes, WindowInv, NEW h, Continues(h), issued' = h,
             \A m \in Nodes : Session1(m)'.dedup = Session1(m).dedup
      PROVE  WindowInv'
  <2> USE <1>WindowGrows
  <2> SUFFICES ASSUME NEW m \in Nodes
               PROVE  /\ GoodWindow(Session1(m).dedup)
                      /\ Session1(m).dedup.next_expected \in 1 .. Len(h[Peer(m)]) + 1
                      /\ \A k \in Session1(m).dedup.seen : k <= Len(h[Peer(m)])
    BY DEF WindowInv
  <2>1. PICK M \in Nat, L \in Nat : M = Len(issued[Peer(m)]) /\ L = Len(h[Peer(m)]) /\ M <= L
    BY <1>Lengths
  <2>2. PICK w \in Window :
          /\ w = Session1(m).dedup
          /\ GoodWindow(w) /\ w.next_expected \in 1 .. M + 1 /\ \A k \in w.seen : k <= M
    BY <2>1 DEF WindowInv, GoodWindow
  <2>3. w.next_expected \in 1 .. L + 1 /\ \A k \in w.seen : k <= L
    BY SMTT(60), <2>1, <2>2 DEF Window
  <2> QED
    BY ZenonT(60), <2>1, <2>2, <2>3
\* A number that is new in h was never executed.
<1>NewIsUnexecuted.
      ASSUME StableTypes, OrderInv, NEW h, Continues(h), NEW m \in Nodes
      PROVE  /\ \A k \in DOMAIN exec[m] : k > Len(h[Peer(m)]) => exec[m][k] = 0
             /\ \A k \in DOMAIN h[Peer(m)] :
                    \/ k \in DOMAIN issued[Peer(m)] /\ h[Peer(m)][k] = issued[Peer(m)][k]
                    \/ exec[m][k] = 0
  <2> USE <1>NewIsUnexecuted
  <2>1. PICK M \in Nat, L \in Nat :
          /\ M = Len(issued[Peer(m)]) /\ DOMAIN issued[Peer(m)] = 1 .. M
          /\ L = Len(h[Peer(m)]) /\ DOMAIN h[Peer(m)] = 1 .. L
          /\ M <= L /\ L <= MaxSends[Peer(m)] /\ MaxSends[Peer(m)] \in Nat
    BY ZenonT(60), <1>Lengths
  <2>2. exec[m] \in [1 .. MaxSends[Peer(m)] -> Nat]
    BY ZenonT(60) DEF StableTypes, TypeOK
  <2>3. \A k \in DOMAIN exec[m] : k > M => exec[m][k] = 0
    BY ZenonT(60), <2>1 DEF OrderInv
  <2>4. \A k \in DOMAIN exec[m] : k > L => exec[m][k] = 0
    BY SMTT(60), <2>1, <2>2, <2>3
  <2>5. ASSUME NEW k \in 1 .. L
        PROVE  k \in 1 .. M \/ exec[m][k] = 0
    BY SMTT(60), <2>1, <2>2, <2>3
  <2>6. \A k \in DOMAIN issued[Peer(m)] : h[Peer(m)][k] = issued[Peer(m)][k]
    BY Peers DEF Continues
  <2> QED
    BY ZenonT(60), <2>1, <2>4, <2>5, <2>6
\* The new frame is neither executed nor inbound.
<1>OrderGrows.
      ASSUME StableTypes, OrderInv, NEW h, Continues(h), issued' = h,
             exec' = exec, inbound' = inbound,
             \A m \in Nodes : Session1(m)'.dedup = Session1(m).dedup
      PROVE  OrderInv'
  <2> USE <1>OrderGrows
  <2>1. ASSUME NEW m \in Nodes, NEW k \in DOMAIN h[Peer(m)], h[Peer(m)][k] \in FireAndForget
        PROVE  /\ exec[m][k] <= 1
               /\ exec[m][k] > 0 => k < Session1(m).dedup.next_expected
               /\ \A i \in DOMAIN inbound[m] :
                    inbound[m][i].verb \in FireAndForget /\ k >= inbound[m][i].seq
                      => exec[m][k] = 0
    <3>1. CASE exec[m][k] = 0
      BY SMTT(60), <3>1
    <3>2. CASE k \in DOMAIN issued[Peer(m)] /\ h[Peer(m)][k] = issued[Peer(m)][k]
      BY ZenonT(60), <2>1, <3>2 DEF OrderInv, FF
    <3> QED
      BY ZenonT(90), <3>1, <3>2, <1>NewIsUnexecuted
  <2>2. \A m \in Nodes : \A k \in DOMAIN exec[m] : k > Len(h[Peer(m)]) => exec[m][k] = 0
    BY ZenonT(60), <1>NewIsUnexecuted
  <2>3. \A m \in Nodes : \A i \in DOMAIN inbound[m] :
          inbound[m][i].verb \in FireAndForget =>
            /\ inbound[m][i].seq < Session1(m).dedup.next_expected
            /\ \A j \in DOMAIN inbound[m] :
                 i < j /\ inbound[m][j].verb \in FireAndForget
                   => inbound[m][i].seq < inbound[m][j].seq
    BY ZenonT(60) DEF OrderInv
  <2> QED
    BY ZenonT(90), <2>1, <2>2, <2>3 DEF OrderInv, FF
\* The new frame is not among the executed atomics.
<1>RecordsGrow.
      ASSUME StableTypes, OrderInv, RecordInv, NEW h, Continues(h), issued' = h, exec' = exec,
             \A m \in Nodes :
                 Session1(m)'.execution_records = Session1(m).execution_records
      PROVE  RecordInv'
  <2> USE <1>RecordsGrow
  <2> SUFFICES ASSUME NEW m \in Nodes
               PROVE  /\ GoodRecords(Session1(m).execution_records, Len(h[Peer(m)]))
                      /\ Len(h[Peer(m)]) < RecordCap =>
                           \A k \in DOMAIN h[Peer(m)] :
                             h[Peer(m)][k] \in {"AtomicCas", "AtomicFaa"} =>
                               /\ exec[m][k] <= 1
                               /\ exec[m][k] > 0 => is_executed(Session1(m), k)
    BY DEF RecordInv, is_executed
  <2>1. PICK M \in Nat, L \in Nat : M = Len(issued[Peer(m)]) /\ L = Len(h[Peer(m)]) /\ M <= L
    BY ZenonT(60), <1>Lengths
  <2>2. GoodRecords(Session1(m).execution_records, L)
    BY <2>1 DEF RecordInv, GoodRecords
  <2>3. L < RecordCap => M < RecordCap
    BY <2>1, SessionAssumption
  <2>4. ASSUME L < RecordCap, NEW k \in DOMAIN h[Peer(m)],
               h[Peer(m)][k] \in {"AtomicCas", "AtomicFaa"}
        PROVE  exec[m][k] <= 1 /\ (exec[m][k] > 0 => is_executed(Session1(m), k))
    <3>1. CASE k \in DOMAIN issued[Peer(m)] /\ h[Peer(m)][k] = issued[Peer(m)][k]
      BY ZenonT(60), <2>1, <2>3, <2>4, <3>1 DEF RecordInv
    <3>2. CASE exec[m][k] = 0
      BY <3>2
    <3> QED
      BY ZenonT(90), <3>1, <3>2, <1>NewIsUnexecuted
  <2> QED
    BY ZenonT(60), <2>1, <2>2, <2>4
\* Frames stay what the longer history says.
<1>FramesGrow.
      ASSUME StableTypes, FrameInv, NEW h, Continues(h), issued' = h, inbound' = inbound,
             \A g \in InFlight(data)' : g \in InFlight(data) \/ ValidFrame(h, g)
      PROVE  FrameInv'
  <2> USE <1>FramesGrow
  <2>1. ASSUME NEW g \in DataFrame, ValidFrame(issued, g)
        PROVE  ValidFrame(h, g)
    BY ZenonT(60), <2>1 DEF Continues, ValidFrame, DataFrame
  <2>2. \A g \in InFlight(data)' : ValidFrame(h, g)
    BY ZenonT(60), <2>1 DEF FrameInv, StableTypes, TypeOK
  <2>3. \A m \in Nodes : \A i \in DOMAIN inbound[m] : inbound[m][i] \in DataFrame
    BY ZenonT(60), IssuedTypes, ElementOfSeq
  <2>4. \A m \in Nodes : \A i \in DOMAIN inbound[m] :
          inbound[m][i].src = Peer(m) /\ ValidFrame(h, inbound[m][i])
    BY <2>1, <2>3 DEF FrameInv
  <2> QED
    BY ZenonT(60), <2>2, <2>4 DEF FrameInv
\* send has the effect stated above.
<1>SendEffects.
      ASSUME IInv, NEW n \in Nodes, NEW verb \in FireAndForget \cup Requests,
             NEW opaque \in Nat, NEW taken \in BOOLEAN, send(n, verb, opaque, taken)
      PROVE  \E t \in Session, e \in Entry, f \in DataFrame :
                 \E h : SendEffect(n, t, e, f, h)
  <2> USE <1>SendEffects
  <2>1. PICK N \in Nat : N = Len(issued[n])
    BY IssuedTypes DEF IInv
  <2>2. PICK s \in Session :
          /\ CurrentSession(n) = s /\ Session1(n) = s
          /\ \A t : Update(n, t) = [sess EXCEPT ![n][1] = t]
    BY Current DEF IInv
  <2>3. s.next_seq = N + 1
    BY <2>1, <2>2 DEF IInv, QueueInv
  <2>4. PICK id \in Id : id = <<n, N + 1>> /\ id = NextId(n)
    <3>1. N + 1 \in Nat
      OBVIOUS
    <3> QED
      BY ZenonT(90), <2>1, <3>1 DEF NextId, Id
  <2>5. PICK f \in DataFrame :
          /\ f = [src |-> n, seq |-> s.next_seq, verb |-> verb, opaque |-> opaque,
                  id |-> id, err |-> FALSE]
          /\ f.src = n /\ f.seq = N + 1 /\ f.verb = verb /\ f.id = id /\ ~f.err
    <3>1. [src |-> n, seq |-> N + 1, verb |-> verb, opaque |-> opaque,
           id |-> id, err |-> FALSE] \in DataFrame
      BY DEF DataFrame, Verb
    <3> QED
      BY ZenonT(60), <2>3, <3>1
  <2>6. PICK e \in Entry :
          /\ e = [seq |-> s.next_seq, verb |-> verb, opaque |-> opaque, id |-> id,
                  retry_count |-> 0]
          /\ e.seq = N + 1 /\ e.id = id /\ e.verb = verb
    <3>1. [seq |-> N + 1, verb |-> verb, opaque |-> opaque, id |-> id,
           retry_count |-> 0] \in Entry
      BY DEF Entry
    <3> QED
      BY ZenonT(60), <2>3, <3>1
  <2>7. /\ s.available_credits > 0 /\ N < MaxSends[n]
        /\ sess' = [sess EXCEPT ![n][1] = assign_seq(consume_credit(s), verb, opaque, id)]
        /\ issued' = [issued EXCEPT ![n] = Append(@, verb)]
        /\ data' = data \/ data' = Put(data, {f})
    BY ZenonT(90), <2>1, <2>2, <2>4, <2>5 DEF send, CanSend
  <2>8. PICK t \in Session :
          /\ t = assign_seq(consume_credit(s), verb, opaque, id)
          /\ SameReceiver(t, s) /\ t.state = s.state /\ t.next_seq = s.next_seq + 1
          /\ t.retransmit_queue = s.retransmit_queue \cup {e}
    BY SMTT(60), <2>6, <2>7, AssignSeq
  <2>9. PICK h :
          /\ issued' = h /\ Continues(h)
          /\ Len(h[n]) = N + 1 /\ h[n][N + 1] = verb
          /\ \A m \in Nodes : m # n => h[m] = issued[m]
    <3>1. StableTypes /\ Len(issued[n]) < MaxSends[n]
      BY ZenonT(60), <2>1, <2>7 DEF IInv
    <3> QED
      BY SMTT(60), <2>1, <2>7, <3>1, SendHistory
  <2>10. \A g \in InFlight(data)' : g \in InFlight(data) \/ g = f
    BY SMTT(60), <2>7, PutFrames
  <2>11. t.next_seq = N + 2
    BY SMTT(60), <2>3, <2>8
  <2>12. SendEffect(n, t, e, f, h)
    BY ZenonT(60), <2>1, <2>2, <2>4, <2>5, <2>6, <2>7, <2>8, <2>9, <2>10, <2>11 DEF SendEffect
  <2> QED
    BY <2>12
\* The new entry is the one the history names.
<1>SendQueue.
      ASSUME IInv, NEW n \in Nodes, NEW t \in Session, NEW e \in Entry, NEW f, NEW h,
             SendEffect(n, t, e, f, h),
             Session1(n)' = t, \A m \in Nodes : m # n => Session1(m)' = Session1(m)
      PROVE  QueueInv'
  <2> USE <1>SendQueue
  <2>1. PICK N \in Nat : N = Len(issued[n])
    BY ZenonT(90), IssuedTypes DEF IInv
  <2>2. \A m \in Nodes : \A d \in Session1(m).retransmit_queue : ValidEntry(h, m, d)
    BY DEF SendEffect, Continues, IInv, QueueInv, ValidEntry
  <2>3. h[n] \in Seq(FireAndForget \cup Requests)
    BY DEF SendEffect, Continues
  <2>4. Len(h[n]) = N + 1 /\ DOMAIN h[n] = 1 .. N + 1 /\ N + 1 \in 1 .. N + 1
    BY SMTT(60), <2>1, <2>3, LenProperties DEF SendEffect
  <2>5. ValidEntry(h, n, e)
    BY ZenonT(60), <2>1, <2>4 DEF SendEffect, ValidEntry
  <2>6. t.next_seq = Len(h[n]) + 1
    BY SMTT(60), <2>1, <2>4 DEF SendEffect
  <2>7. \A d \in t.retransmit_queue : ValidEntry(h, n, d)
    BY ZenonT(60), <2>2, <2>5 DEF SendEffect
  <2>8. \A m \in Nodes : m # n => Session1(m).next_seq = Len(h[m]) + 1
    BY DEF SendEffect, IInv, QueueInv
  <2>9. issued' = h
    BY ZenonT(60) DEF SendEffect
  <2> QED
    BY ZenonT(90), <2>2, <2>6, <2>7, <2>8, <2>9 DEF QueueInv
\* The new frame is in the queue, and no entry is dropped.
<1>SendDropped.
      ASSUME IInv, StableTypes', NEW n \in Nodes, NEW t \in Session, NEW e \in Entry, NEW f, NEW h,
             SendEffect(n, t, e, f, h),
             Session1(n)' = t, \A m \in Nodes : m # n => Session1(m)' = Session1(m)
      PROVE  DroppedOnlyIfReceived'
  <2> USE <1>SendDropped
  <2>1. cur' = [m \in Nodes |-> 1] /\ issued' = h
    BY DEF StableTypes, SendEffect
  <2> SUFFICES ASSUME NEW m \in Nodes, Session1(m)'.state = "Active",
                      NEW k \in DOMAIN h[m], h[m][k] \in FireAndForget
               PROVE  \/ \E d \in Session1(m)'.retransmit_queue : d.id = <<m, k>>
                      \/ is_seen(Session1(Peer(m))'.dedup, k)
    BY ZenonT(90), <2>1, Peers DEF DroppedOnlyIfReceived, Queued, CurrentSession, Session1
  <2>2. Session1(Peer(m))'.dedup = Session1(Peer(m)).dedup
    BY ZenonT(60), Peers DEF SendEffect, SameReceiver
  <2>3. /\ Session1(m).state = "Active"
        /\ Session1(m).retransmit_queue \subseteq Session1(m)'.retransmit_queue
    BY DEF SendEffect
  <2>4. CASE k \in DOMAIN issued[m]
    BY ZenonT(90), <2>2, <2>3, <2>4, DroppedInSession1 DEF IInv, SendEffect, Continues
  <2>5. CASE k \notin DOMAIN issued[m]
    <3>1. PICK N \in Nat : N = Len(issued[n]) /\ DOMAIN issued[n] = 1 .. N
      BY ZenonT(60), IssuedTypes DEF IInv
    <3>2. m = n
      BY ZenonT(60), <2>5 DEF SendEffect
    <3>3. h[n] \in Seq(FireAndForget \cup Requests)
      BY DEF SendEffect, Continues
    <3>4. DOMAIN h[n] = 1 .. N + 1
      BY ZenonT(60), <3>1, <3>3, LenProperties DEF SendEffect
    <3>5. k = N + 1
      BY SMTT(60), <2>5, <3>1, <3>2, <3>4
    <3> QED
      BY ZenonT(60), <3>1, <3>2, <3>5 DEF SendEffect
  <2> QED
    BY ZenonT(60), <2>4, <2>5
<1> QED
  <2> SUFFICES ASSUME IInv, NEW n \in Nodes, NEW verb \in FireAndForget \cup Requests,
                      NEW opaque \in Nat, NEW taken \in BOOLEAN, send(n, verb, opaque, taken),
                      UNCHANGED <<epoch, cur, sender, acks, inbound, faults, exec>>,
                      next_opaque' \in [Nodes -> Nat],
                      pending' \in [Nodes -> SUBSET Nat],
                      calls' \in [Nodes -> Seq(Call)]
               PROVE  IInv'
    BY Zenon
  <2>1. PICK t \in Session, e \in Entry, f \in DataFrame : \E h : SendEffect(n, t, e, f, h)
    BY <1>SendEffects
  <2>2. PICK h : SendEffect(n, t, e, f, h)
    BY SMTT(60), <2>1
  <2>3. issued' = h /\ Continues(h)
    BY <2>2 DEF SendEffect
  <2>4. /\ sess' \in [Nodes -> [{1} -> Session]]
        /\ Session1(n)' = t
        /\ \A m \in Nodes : m # n => Session1(m)' = Session1(m)
    BY ZenonT(90), <2>2, SessionUpdate DEF IInv, SendEffect
  <2>5. \A g \in InFlight(data)' : g \in InFlight(data) \/ g = f
    BY <2>2 DEF SendEffect
  <2>6. StableTypes'
    BY ZenonT(90), <2>3, <2>4, <2>5 DEF IInv, StableTypes, TypeOK, Continues
  <2>7. QueueInv' /\ DroppedOnlyIfReceived'
    BY ZenonT(60), <2>2, <2>4, <2>6, <1>SendQueue, <1>SendDropped
  <2>8. ValidFrame(h, f)
    <3>1. ValidEntry(h, n, e)
      <4>1. e \in Session1(n)'.retransmit_queue
        BY ZenonT(90), <2>2, <2>4 DEF SendEffect
      <4>2. \A d \in Session1(n)'.retransmit_queue : ValidEntry(issued', n, d)
        BY ZenonT(90), <2>7 DEF QueueInv
      <4> QED
        BY ZenonT(90), <2>3, <4>1, <4>2
    <3>2. Len(issued[n]) \in Nat
      BY ZenonT(90), IssuedTypes DEF IInv
    <3> QED
      BY SMTT(60), <2>2, <3>1, <3>2 DEF SendEffect, ValidEntry, ValidFrame
  <2>9. FrameInv'
    BY ZenonT(60), <2>3, <2>5, <2>8, <1>FramesGrow DEF IInv
  <2>10. \A m \in Nodes : SameReceiver(Session1(m)', Session1(m))
    BY ZenonT(90), <2>2, <2>4 DEF SendEffect, SameReceiver
  <2>11. \A m \in Nodes :
           /\ Session1(m)'.dedup = Session1(m).dedup
           /\ Session1(m)'.execution_records = Session1(m).execution_records
    BY ZenonT(90), <2>10 DEF SameReceiver
  <2>12. WindowInv' /\ OrderInv' /\ RecordInv'
    BY ZenonT(90), <2>3, <2>11, <1>WindowGrows, <1>OrderGrows, <1>RecordsGrow DEF IInv
  <2>13. AckInv'
    BY ZenonT(90), <2>11, AckKept DEF IInv
  <2> QED
    BY ZenonT(60), <2>6, <2>7, <2>9, <2>12, <2>13 DEF IInv

\* A call that queues a frame keeps the invariant.
LEMMA IssueKeeps ==
    ASSUME IInv, NEW n \in Nodes, IssueFireAndForget(n) \/ IssueRequest(n)
    PROVE  IInv'
<1>1. CASE IssueFireAndForget(n)
  <2>1. PICK verb \in Verbs \cap FireAndForget, taken \in BOOLEAN : send(n, verb, 0, taken)
    BY <1>1 DEF IssueFireAndForget
  <2>2. UNCHANGED <<epoch, cur, sender, acks, inbound, faults, engineVars>>
    BY SMTT(60), <1>1 DEF IssueFireAndForget
  <2>3. /\ next_opaque' \in [Nodes -> Nat]
        /\ pending' \in [Nodes -> SUBSET Nat]
        /\ calls' \in [Nodes -> Seq(Call)]
    BY ZenonT(90), <2>2 DEF engineVars, IInv, StableTypes, TypeOK
  <2>4. UNCHANGED <<epoch, cur, sender, acks, inbound, faults, exec>>
    BY <2>2 DEF engineVars
  <2> QED
    BY ZenonT(60), <2>1, <2>3, <2>4, SendKeeps
<1>2. CASE IssueRequest(n)
  <2>1. PICK verb \in Verbs \cap Requests, taken \in BOOLEAN :
          /\ send(n, verb, next_opaque[n], taken)
          /\ TakeOpaque(n, NextId(n), IF taken THEN "Waiting" ELSE "Refused")
    BY <1>2 DEF IssueRequest
  <2>2. UNCHANGED <<epoch, cur, sender, acks, inbound, faults, exec>>
    BY ZenonT(60), <1>2 DEF IssueRequest
  <2>3. NextId(n) \in Id /\ next_opaque[n] \in Nat
    <3>1. Len(issued[n]) \in Nat
      BY IssuedTypes DEF IInv
    <3>2. Len(issued[n]) + 1 \in Nat
      BY <3>1
    <3> QED
      BY <3>2 DEF NextId, Id, IInv, StableTypes, TypeOK
  <2>4. (IF taken THEN "Waiting" ELSE "Refused") \in Outcome
    BY DEF Outcome
  <2>5. /\ next_opaque' \in [Nodes -> Nat]
        /\ pending' \in [Nodes -> SUBSET Nat]
        /\ calls' \in [Nodes -> Seq(Call)]
    BY ZenonT(60), <2>1, <2>3, <2>4, TakeOpaqueTypes DEF IInv
  <2> QED
    BY ZenonT(60), <2>1, <2>2, <2>3, <2>5, SendKeeps
<1> QED
  BY ZenonT(60), <1>1, <1>2

-----------------------------------------------------------------------------
(* What the effect leaves of the invariant *)

\* handle_verb_frame has the effect for the frame at the head.
LEMMA VerbStep ==
    \A n \in Nodes :
        NatWellOrdered /\ IInv /\ handle_verb_frame(n) =>
            \E f : \E t \in Session :
                /\ f = Head(inbound[n]) /\ inbound[n] # << >> /\ f = inbound[n][1]
                /\ 1 \in DOMAIN inbound[n]
                /\ VerbEffect(n, f, t)
                /\ inbound' = [inbound EXCEPT ![n] = Tail(@)]
                /\ inbound' \in [Nodes -> Seq(DataFrame)]
                /\ UNCHANGED <<epoch, cur, sender, acks, issued, faults>>
\* An update that leaves the sender, the window and the records alone.
<1>Untouched.
      ASSUME IInv, NEW n \in Nodes, NEW t,
             SameSender(t, Session1(n)), SameReceiver(t, Session1(n))
      PROVE  SessionKept(n, t)
  BY <1>Untouched, SMTT(60), Sessions DEF SessionKept, SameSender, SameReceiver, is_executed
\* What is sent in answer carries no number.
<1>Answers.
      ASSUME IInv, NEW n \in Nodes, NEW f, Arrived(n, f), f.verb \in Requests, NEW id \in Id
      PROVE  /\ ResponseFrame(n, f, id) \in DataFrame
             /\ ValidFrame(issued, ResponseFrame(n, f, id))
             /\ ErrorFrame(n, f) \in DataFrame
             /\ ValidFrame(issued, ErrorFrame(n, f))
  <2> USE <1>Answers
  <2>1. ResponseVerb(f.verb) \in Responses
    BY DEF ResponseVerb, Requests, Responses
  <2>2. f.opaque \in Nat /\ f.id \in Id /\ f.verb \in Verb
    BY ZenonT(60) DEF Arrived, DataFrame
  <2>3. ResponseFrame(n, f, id) \in DataFrame /\ ErrorFrame(n, f) \in DataFrame
    BY <2>1, <2>2 DEF ResponseFrame, ErrorFrame, DataFrame, Verb
  <2> QED
    BY ZenonT(90), <2>1, <2>3 DEF ResponseFrame, ErrorFrame, ValidFrame
\* Only valid frames are sent in answer.
<1>Answered.
      ASSUME IInv, NEW n \in Nodes, NEW F, data' = SentToPeer(n, F),
             \A g \in F : g \in DataFrame /\ ValidFrame(issued, g)
      PROVE  \A g \in InFlight(data)' :
                 g \in InFlight(data) \/ (g \in DataFrame /\ ValidFrame(issued, g))
  BY ZenonT(60), <1>Answered, SentFrames
\* Counting an execution of f, which carries a number.
<1>Counted.
      ASSUME IInv, NEW n \in Nodes, NEW f, Arrived(n, f), f.seq # 0, Count(n, f), NEW t,
             f.verb \in Atomics =>
                 /\ ~is_executed(Session1(n), f.seq)
                 /\ Len(issued[Peer(n)]) < RecordCap => is_executed(t, f.seq)
      PROVE  Executes(n, f, t)
  <2> USE <1>Counted
  <2>1. /\ f.seq \in DOMAIN issued[Peer(n)]
        /\ f.verb = issued[Peer(n)][f.seq]
        /\ f.id[2] = f.seq
    BY ArrivedNumber
  <2>2. exec' = [exec EXCEPT ![n][f.seq] = @ + 1]
    BY <2>1 DEF Count
  <2> QED
    BY ZenonT(60), <2>1, <2>2 DEF Executes
\* handle_write and handle_write_imm.
<1>WriteEffect.
      ASSUME NatWellOrdered, IInv, NEW n \in Nodes, NEW f, Arrived(n, f), HandleWrite(n, f)
      PROVE  \E t \in Session : VerbEffect(n, f, t)
  <2> USE <1>WriteEffect
  <2>1. f.verb \in FireAndForget /\ f.verb \notin Atomics
    BY ZenonT(60) DEF HandleWrite, FireAndForget, Atomics
  <2>2. f.seq # 0
    BY <2>1, ArrivedNumber
  <2>3. UNCHANGED <<data, next_opaque, pending, calls>>
    BY DEF HandleWrite
  <2>4. CASE UNCHANGED <<sess, exec>>
    BY ZenonT(60), <2>3, <2>4, Sessions, EngineTypes DEF VerbEffect, Executes
  <2>5. CASE /\ sess' = MarkExecuted(n, sess, f.seq)
             /\ Count(n, f) \/ UNCHANGED exec
    <3>1. PICK t \in Session :
            /\ t = mark_executed(Session1(n), f.seq)
            /\ SessionKept(n, t)
      BY ZenonT(60), Sessions, Marked DEF SameSender, SameReceiver
    <3>2. sess' = [sess EXCEPT ![n][1] = t]
      BY ZenonT(60), <2>5, <3>1, Current DEF MarkExecuted, IInv, StableTypes, Session1
    <3>3. Executes(n, f, t)
      BY ZenonT(60), <2>1, <2>2, <2>5, <1>Counted DEF Executes
    <3> QED
      BY ZenonT(90), <2>3, <3>1, <3>2, <3>3, EngineTypes DEF VerbEffect
  <2> QED
    BY ZenonT(60), <2>4, <2>5 DEF HandleWrite
\* handle_send.
<1>SendHandled.
      ASSUME IInv, NEW n \in Nodes, NEW f, Arrived(n, f), HandleSend(n, f)
      PROVE  \E t \in Session : VerbEffect(n, f, t)
  <2> USE <1>SendHandled
  <2>1. f.verb \in FireAndForget /\ f.verb \notin Atomics
    BY ZenonT(60) DEF HandleSend, FireAndForget, Atomics
  <2>2. f.seq # 0
    BY <2>1, ArrivedNumber
  <2>3. UNCHANGED <<sess, data, next_opaque, pending, calls>>
    BY ZenonT(60) DEF HandleSend
  <2>4. Executes(n, f, Session1(n))
    BY <2>1, <2>2, <1>Counted DEF HandleSend, Executes
  <2> QED
    BY ZenonT(60), <2>3, <2>4, Sessions, EngineTypes DEF VerbEffect
\* The response found in the cache.
<1>ResendEffect.
      ASSUME IInv, NEW n \in Nodes, NEW f, Arrived(n, f), f.verb \in Requests,
             ResendCached(n, f)
      PROVE  \E t \in Session : VerbEffect(n, f, t)
  <2> USE <1>ResendEffect
  <2>1. PICK s \in Session :
          /\ s = Session1(n) /\ CurrentSession(n) = s /\ HasSession(n)
          /\ \A t : Update(n, t) = [sess EXCEPT ![n][1] = t]
    BY Current DEF IInv
  <2>2. PICK t \in Session :
          /\ t = cache_get(s, f.opaque)
          /\ SameSender(t, s) /\ SameReceiver(t, s)
    BY ZenonT(60), CacheGet
  <2>3. sess' = [sess EXCEPT ![n][1] = t] /\ SessionKept(n, t)
    BY ZenonT(60), <2>1, <2>2, <1>Untouched DEF ResendCached, ReadCacheGet
  <2>4. \A c \in Hit(n, f.opaque) : c.id \in Id
    BY SMTT(60), <2>1 DEF Hit, cache_lookup, Session, Cached
  <2>5. \A g \in {ResponseFrame(n, f, c.id) : c \in Hit(n, f.opaque)} :
          g \in DataFrame /\ ValidFrame(issued, g)
    BY ZenonT(60), <2>4, <1>Answers
  <2>6. \A g \in InFlight(data)' :
          g \in InFlight(data) \/ (g \in DataFrame /\ ValidFrame(issued, g))
    BY ZenonT(60), <2>5, <1>Answered DEF ResendCached
  <2> QED
    BY ZenonT(90), <2>3, <2>6, EngineTypes DEF VerbEffect, Executes, ResendCached, engineVars
\* Caching the response to f.
<1>Inserted.
      ASSUME IInv, NEW n \in Nodes, NEW f, Arrived(n, f)
      PROVE  \E t \in Session :
                 /\ ReadCacheInsert(n, f.opaque, f.id) = [sess EXCEPT ![n][1] = t]
                 /\ SameSender(t, Session1(n)) /\ SameReceiver(t, Session1(n))
  <2> USE <1>Inserted
  <2>1. PICK s \in Session :
          /\ s = Session1(n) /\ CurrentSession(n) = s /\ HasSession(n)
          /\ \A t : Update(n, t) = [sess EXCEPT ![n][1] = t]
    BY Current DEF IInv
  <2>2. f.opaque \in Nat /\ f.id \in Id
    BY DEF Arrived, DataFrame
  <2>3. PICK t \in Session :
          /\ t = cache_insert(s, f.opaque, f.id)
          /\ SameSender(t, s) /\ SameReceiver(t, s)
    BY ZenonT(60), <2>2, CacheInsert
  <2> QED
    BY ZenonT(60), <2>1, <2>3 DEF ReadCacheInsert
\* handle_read_req.
<1>ReadEffect.
      ASSUME IInv, NEW n \in Nodes, NEW f, Arrived(n, f), HandleRead(n, f)
      PROVE  \E t \in Session : VerbEffect(n, f, t)
  <2> USE <1>ReadEffect
  <2>1. f.verb \in Requests /\ f.verb \notin Atomics /\ f.id \in Id
    BY DEF HandleRead, Requests, Atomics, Arrived, DataFrame
  <2>2. CASE ResendCached(n, f)
    BY <2>1, <2>2, <1>ResendEffect
  <2>3. CASE /\ sess' = ReadCacheInsert(n, f.opaque, f.id)
             /\ data' = SentToPeer(n, {ResponseFrame(n, f, f.id)})
             /\ IF f.err THEN UNCHANGED exec ELSE Count(n, f)
             /\ UNCHANGED <<next_opaque, pending, calls>>
    <3>1. PICK t \in Session :
            /\ sess' = [sess EXCEPT ![n][1] = t]
            /\ SameSender(t, Session1(n)) /\ SameReceiver(t, Session1(n))
      BY ZenonT(90), <2>3, <1>Inserted
    <3>2. Executes(n, f, t)
      <4>1. CASE f.err
        BY ZenonT(60), <2>3, <4>1 DEF Executes
      <4>2. CASE ~f.err
        BY ZenonT(60), <2>1, <2>3, <4>2, ArrivedNumber, <1>Counted
      <4> QED
        BY ZenonT(60), <4>1, <4>2
    <3>3. \A g \in InFlight(data)' :
            g \in InFlight(data) \/ (g \in DataFrame /\ ValidFrame(issued, g))
      BY ZenonT(90), <2>1, <2>3, <1>Answers, <1>Answered
    <3> QED
      BY ZenonT(90), <2>3, <3>1, <3>2, <3>3, <1>Untouched, EngineTypes DEF VerbEffect
  <2>4. CASE /\ data' = SentToPeer(n, {ErrorFrame(n, f)})
             /\ UNCHANGED <<sess, engineVars>>
    <3>1. \A g \in InFlight(data)' :
            g \in InFlight(data) \/ (g \in DataFrame /\ ValidFrame(issued, g))
      BY ZenonT(60), <2>1, <2>4, <1>Answers, <1>Answered
    <3> QED
      BY ZenonT(90), <2>4, <3>1, Sessions, EngineTypes DEF VerbEffect, Executes, engineVars
  <2> QED
    BY ZenonT(60), <2>2, <2>3, <2>4 DEF HandleRead
\* handle_atomic_cas and handle_atomic_faa.
<1>AtomicEffect.
      ASSUME NatWellOrdered, IInv, NEW n \in Nodes, NEW f, Arrived(n, f), HandleAtomic(n, f)
      PROVE  \E t \in Session : VerbEffect(n, f, t)
  <2> USE <1>AtomicEffect
  <2>1. f.verb \in Requests /\ f.id \in Id
    BY ZenonT(60) DEF HandleAtomic, Requests, Arrived, DataFrame
  <2>2. CASE Executed(n, f.seq)
    BY ZenonT(60), <2>1, <2>2, <1>ResendEffect DEF HandleAtomic
  <2>3. CASE ~Executed(n, f.seq)
    <3>1. ~is_executed(Session1(n), f.seq)
      BY ZenonT(60), <2>3, Current DEF Executed, IInv
    <3>2. UNCHANGED <<next_opaque, pending, calls>>
      BY <2>3 DEF HandleAtomic
    <3>3. ASSUME ~f.err,
                 sess' = MarkExecuted(n, ReadCacheInsert(n, f.opaque, f.id), f.seq),
                 data' = SentToPeer(n, {ResponseFrame(n, f, f.id)}),
                 Count(n, f)
          PROVE  \E t \in Session : VerbEffect(n, f, t)
      <4>1. PICK s \in Session :
              /\ ReadCacheInsert(n, f.opaque, f.id) = [sess EXCEPT ![n][1] = s]
              /\ SameSender(s, Session1(n)) /\ SameReceiver(s, Session1(n))
        BY ZenonT(60), <1>Inserted
      <4>2. PICK t \in Session :
              /\ t = mark_executed(s, f.seq)
              /\ SessionKept(n, t)
              /\ Len(issued[Peer(n)]) < RecordCap => is_executed(t, f.seq)
        BY <4>1, Marked
      <4>3. sess' = [sess EXCEPT ![n][1] = t]
        <5>1. PICK S : S = ReadCacheInsert(n, f.opaque, f.id) /\ S = [sess EXCEPT ![n][1] = s]
          BY ZenonT(60), <4>1
        <5>2. sess \in [Nodes -> [{1} -> Session]] /\ cur[n] = 1 /\ HasSession(n)
          BY ZenonT(60), Current DEF IInv, StableTypes
        <5>3. sess' = [S EXCEPT ![n][1] = mark_executed(S[n][1], f.seq)]
          BY ZenonT(60), <3>3, <5>1, <5>2 DEF MarkExecuted
        <5>4. S[n][1] = s
          BY ZenonT(60), <5>1, <5>2
        <5>5. sess' = [S EXCEPT ![n][1] = t]
          BY SMTT(60), <4>2, <5>3, <5>4
        <5> QED
          BY ZenonT(90), <5>1, <5>2, <5>5
      <4>4. Executes(n, f, t)
        BY ZenonT(90), <2>1, <3>1, <3>3, <4>2, ArrivedNumber, <1>Counted
      <4>5. \A g \in InFlight(data)' :
              g \in InFlight(data) \/ (g \in DataFrame /\ ValidFrame(issued, g))
        BY ZenonT(60), <2>1, <3>3, <1>Answers, <1>Answered
      <4> QED
        BY ZenonT(90), <3>2, <4>2, <4>3, <4>4, <4>5, EngineTypes DEF VerbEffect
    <3>4. ASSUME sess' = MarkExecuted(n, sess, f.seq),
                 data' = SentToPeer(n, {ErrorFrame(n, f)}), exec' = exec
          PROVE  \E t \in Session : VerbEffect(n, f, t)
      <4>1. PICK t \in Session :
              t = mark_executed(Session1(n), f.seq) /\ SessionKept(n, t)
        BY ZenonT(60), Sessions, Marked DEF SameSender, SameReceiver
      <4>2. sess' = [sess EXCEPT ![n][1] = t]
        BY ZenonT(60), <3>4, <4>1, Current DEF MarkExecuted, IInv, StableTypes, Session1
      <4>3. \A g \in InFlight(data)' :
              g \in InFlight(data) \/ (g \in DataFrame /\ ValidFrame(issued, g))
        BY ZenonT(60), <2>1, <3>4, <1>Answers, <1>Answered
      <4> QED
        BY ZenonT(90), <3>2, <3>4, <4>1, <4>2, <4>3, EngineTypes DEF VerbEffect, Executes
    <3> QED
      BY ZenonT(60), <2>3, <3>3, <3>4 DEF HandleAtomic
  <2> QED
    BY ZenonT(60), <2>2, <2>3
\* complete_pending_request removes the entry of a request only.
<1>CompleteEffect.
      ASSUME IInv, NEW n \in Nodes, NEW f, Arrived(n, f), complete_pending_request(n, f)
      PROVE  \E t \in Session : VerbEffect(n, f, t)
  <2> USE <1>CompleteEffect
  <2>1. UNCHANGED <<data, next_opaque, exec>>
    BY DEF complete_pending_request
  <2>2. PICK s \in Session :
          /\ s = Session1(n) /\ CurrentSession(n) = s /\ HasSession(n)
          /\ \A t : Update(n, t) = [sess EXCEPT ![n][1] = t]
    BY ZenonT(60), Current DEF IInv
  <2>3. PICK t \in Session :
          /\ t = complete_request(s, f.opaque)
          /\ SameReceiver(t, s) /\ t.state = s.state /\ t.next_seq = s.next_seq
          /\ t.retransmit_queue =
               {e \in s.retransmit_queue : ~(e.opaque = f.opaque /\ e.verb \in Requests)}
    BY SMTT(60), CompleteRequest
  <2>4. SessionKept(n, t)
    <3>1. \A e \in s.retransmit_queue \ t.retransmit_queue : e.verb \notin FireAndForget
      BY <2>3 DEF Requests, FireAndForget
    <3> QED
      BY ZenonT(60), <2>2, <2>3, <3>1, Sessions DEF SessionKept, SameReceiver, is_executed
  <2>5. CASE f.opaque \notin pending[n]
    BY ZenonT(60), <2>1, <2>5, Sessions, EngineTypes
       DEF complete_pending_request, VerbEffect, Executes
  <2>6. CASE f.opaque \in pending[n]
    <3>1. sess' = [sess EXCEPT ![n][1] = t]
      BY ZenonT(60), <2>2, <2>3, <2>6 DEF complete_pending_request
    <3>2. pending' \in [Nodes -> SUBSET Nat]
      <4>1. pending' = [pending EXCEPT ![n] = @ \ {f.opaque}]
        BY <2>6 DEF complete_pending_request
      <4> QED
        BY <4>1, EngineTypes
    <3>3. calls' \in [Nodes -> Seq(Call)]
      <4>1. \/ calls' = calls
            \/ calls' = [calls EXCEPT ![n][f.opaque].status = "Ok",
                                      ![n][f.opaque].answer = f.id]
        BY <2>6 DEF complete_pending_request
      <4>2. CASE f.opaque \notin DOMAIN calls[n]
        BY <4>1, <4>2, EngineTypes
      <4>3. CASE f.opaque \in DOMAIN calls[n]
        <5>1. calls[n] \in Seq(Call) /\ calls[n][f.opaque] \in Call
          BY <4>3, EngineTypes, ElementOfSeq, LenProperties
        <5>2. PICK c \in Call :
                c = [calls[n][f.opaque] EXCEPT !.status = "Ok", !.answer = f.id]
          BY ZenonT(90), <5>1 DEF Call, Outcome, Arrived, DataFrame
        <5>3. \/ calls' = calls
              \/ calls' = [calls EXCEPT ![n][f.opaque] = c]
          BY ZenonT(60), <4>1, <4>3, <5>2, EngineTypes
        <5>4. [calls EXCEPT ![n][f.opaque] = c] \in [Nodes -> Seq(Call)]
          BY ZenonT(60), <4>3, CallUpdate DEF IInv
        <5> QED
          BY ZenonT(90), <5>3, <5>4, EngineTypes
      <4> QED
        BY ZenonT(60), <4>2, <4>3
    <3> QED
      BY ZenonT(90), <2>1, <2>4, <3>1, <3>2, <3>3 DEF VerbEffect, Executes
  <2> QED
    BY ZenonT(60), <2>5, <2>6
<1> QED
  <2> SUFFICES ASSUME NatWellOrdered, IInv, NEW n \in Nodes, handle_verb_frame(n)
               PROVE  \E f : \E t \in Session :
                          /\ f = Head(inbound[n]) /\ inbound[n] # << >> /\ f = inbound[n][1]
                          /\ 1 \in DOMAIN inbound[n]
                          /\ VerbEffect(n, f, t)
                          /\ inbound' = [inbound EXCEPT ![n] = Tail(@)]
                          /\ inbound' \in [Nodes -> Seq(DataFrame)]
                          /\ UNCHANGED <<epoch, cur, sender, acks, issued, faults>>
    BY Zenon
  <2>1. PICK f :
          /\ f = Head(inbound[n]) /\ inbound[n] # << >>
          /\ \/ HandleWrite(n, f) \/ HandleSend(n, f) \/ HandleRead(n, f)
             \/ HandleAtomic(n, f) \/ complete_pending_request(n, f)
          /\ inbound' = [inbound EXCEPT ![n] = Tail(@)]
          /\ UNCHANGED <<epoch, cur, sender, acks, issued, faults>>
    BY DEF handle_verb_frame
  <2>2. f = inbound[n][1] /\ 1 \in DOMAIN inbound[n] /\ inbound' \in [Nodes -> Seq(DataFrame)]
    BY ZenonT(90), <2>1, InboundShrinks DEF IInv
  <2>3. Arrived(n, f)
    BY ZenonT(60), <2>2, InboundFrame DEF Arrived, IInv, FrameInv
  <2>4. PICK t \in Session : VerbEffect(n, f, t)
    BY ZenonT(60), <2>1, <2>3, <1>WriteEffect, <1>SendHandled, <1>ReadEffect, <1>AtomicEffect,
       <1>CompleteEffect
  <2> QED
    BY SMTT(60), <2>1, <2>2, <2>4

\* handle_verb_frame keeps the invariant.
LEMMA VerbKeeps ==
    \A n \in Nodes : NatWellOrdered /\ IInv /\ handle_verb_frame(n) => IInv'
\* How an execution changes the counts, which stay numbers.
<1>ExecAfter.
      ASSUME IInv, NEW n \in Nodes, NEW f, NEW t, Executes(n, f, t)
      PROVE  /\ DOMAIN exec' = Nodes
             /\ \A m \in Nodes : exec'[m] \in [1 .. MaxSends[Peer(m)] -> Nat]
             /\ \A m \in Nodes : m # n => exec'[m] = exec[m]
             /\ \A k \in DOMAIN exec[n] : k # f.seq => exec'[n][k] = exec[n][k]
             /\ exec' # exec =>
                    /\ f.seq \in DOMAIN issued[Peer(n)] /\ f.verb = issued[Peer(n)][f.seq]
                    /\ exec'[n][f.seq] = exec[n][f.seq] + 1
                    /\ f.verb \in Atomics =>
                           /\ ~is_executed(Session1(n), f.seq)
                           /\ Len(issued[Peer(n)]) < RecordCap => is_executed(t, f.seq)
  <2> USE <1>ExecAfter
  <2>1. DOMAIN exec = Nodes /\ \A m \in Nodes : exec[m] \in [1 .. MaxSends[Peer(m)] -> Nat]
    BY ZenonT(60) DEF IInv, StableTypes, TypeOK
  <2>2. CASE exec' = exec
    BY ZenonT(60), <2>1, <2>2
  <2>3. CASE exec' # exec
    <3>1. f.seq \in DOMAIN issued[Peer(n)] /\ exec' = [exec EXCEPT ![n][f.seq] = @ + 1]
      BY ZenonT(60), <2>3 DEF Executes
    <3>2. f.seq \in DOMAIN exec[n] /\ exec[n][f.seq] \in Nat
      BY ZenonT(60), <3>1, ExecNat DEF IInv
    <3>3. PICK c \in Nat : c = exec[n][f.seq] + 1
      BY <3>2
    <3>4. exec' = [exec EXCEPT ![n][f.seq] = c]
      BY <3>1, <3>3
    <3>5. exec'[n] \in [1 .. MaxSends[Peer(n)] -> Nat]
      BY ZenonT(90), <2>1, <3>4
    <3> QED
      BY ZenonT(60), <2>1, <2>3, <3>2, <3>3, <3>4, <3>5 DEF Executes
  <2> QED
    BY ZenonT(90), <2>2, <2>3
\* An executed atomic is among the records as long as they do not overflow.
<1>VerbRecords.
      ASSUME IInv, NEW n \in Nodes, NEW f, NEW t \in Session,
             Executes(n, f, t), SessionKept(n, t), issued' = issued,
             Session1(n)' = t, \A m \in Nodes : m # n => Session1(m)' = Session1(m)
      PROVE  RecordInv'
  <2> USE <1>VerbRecords
  <2>1. ASSUME NEW m \in Nodes, m # n
        PROVE  /\ GoodRecords(Session1(m)'.execution_records, Len(issued[Peer(m)]))
               /\ Len(issued[Peer(m)]) < RecordCap =>
                    \A k \in DOMAIN issued[Peer(m)] :
                      issued[Peer(m)][k] \in Atomics =>
                        exec'[m][k] <= 1 /\ (exec'[m][k] > 0 => is_executed(Session1(m)', k))
    <3>1. exec'[m] = exec[m] /\ Session1(m)' = Session1(m)
      BY ZenonT(90), <2>1, <1>ExecAfter
    <3>2. /\ GoodRecords(Session1(m).execution_records, Len(issued[Peer(m)]))
          /\ Len(issued[Peer(m)]) < RecordCap =>
               \A k \in DOMAIN issued[Peer(m)] :
                 issued[Peer(m)][k] \in Atomics =>
                   exec[m][k] <= 1 /\ (exec[m][k] > 0 => is_executed(Session1(m), k))
      BY ZenonT(90) DEF IInv, RecordInv, Atomics
    <3> QED
      BY ZenonT(90), <3>1, <3>2
  <2>2. GoodRecords(t.execution_records, Len(issued[Peer(n)]))
    BY ZenonT(60) DEF SessionKept
  <2>3. ASSUME Len(issued[Peer(n)]) < RecordCap, NEW k \in DOMAIN issued[Peer(n)],
               issued[Peer(n)][k] \in Atomics
        PROVE  exec'[n][k] <= 1 /\ (exec'[n][k] > 0 => is_executed(t, k))
    <3>1. k \in DOMAIN exec[n] /\ exec[n][k] \in Nat /\ k \in Nat
      BY ZenonT(60), ExecNat DEF IInv
    <3>2. exec[n][k] <= 1 /\ (exec[n][k] > 0 => is_executed(Session1(n), k))
      BY ZenonT(60), <2>3 DEF IInv, RecordInv, Atomics
    <3>3. is_executed(Session1(n), k) => is_executed(t, k)
      BY ZenonT(60), <2>3, <3>1 DEF SessionKept
    <3>4. CASE exec'[n][k] = exec[n][k]
      BY ZenonT(60), <3>2, <3>3, <3>4
    <3>5. CASE exec'[n][k] # exec[n][k]
      <4>1. /\ k = f.seq /\ f.verb \in Atomics
            /\ exec'[n][k] = exec[n][k] + 1
            /\ ~is_executed(Session1(n), k) /\ is_executed(t, k)
        <5>1. k = f.seq
          BY ZenonT(60), <3>1, <3>5, <1>ExecAfter
        <5>2. exec' # exec
          BY ZenonT(90), <3>5
        <5>3. /\ f.verb = issued[Peer(n)][f.seq] /\ exec'[n][f.seq] = exec[n][f.seq] + 1
              /\ f.verb \in Atomics =>
                     /\ ~is_executed(Session1(n), f.seq)
                     /\ Len(issued[Peer(n)]) < RecordCap => is_executed(t, f.seq)
          BY ZenonT(90), <5>2, <1>ExecAfter
        <5> QED
          BY ZenonT(90), <2>3, <5>1, <5>3
      <4> QED
        BY SMTT(60), <3>1, <3>2, <4>1
    <3> QED
      BY ZenonT(60), <3>4, <3>5
  <2> QED
    BY ZenonT(60), <2>1, <2>2, <2>3 DEF RecordInv, Atomics
\* The rest of the queue and the answers are valid frames.
<1>VerbFrames.
      ASSUME IInv, NEW n \in Nodes, inbound[n] # << >>, issued' = issued,
             inbound' = [inbound EXCEPT ![n] = Tail(@)],
             \A g \in InFlight(data)' :
                 g \in InFlight(data) \/ (g \in DataFrame /\ ValidFrame(issued, g))
      PROVE  FrameInv'
  <2> USE <1>VerbFrames
  <2>1. ASSUME NEW m \in Nodes, NEW i \in DOMAIN inbound'[m]
        PROVE  inbound'[m][i].src = Peer(m) /\ ValidFrame(issued, inbound'[m][i])
    <3>1. CASE m # n
      BY ZenonT(60), <2>1, <3>1, InboundShrinks DEF IInv, FrameInv
    <3>2. CASE m = n
      <4>1. PICK L \in Nat : /\ DOMAIN inbound[n] = 1 .. L + 1
                             /\ DOMAIN inbound'[n] = 1 .. L
                             /\ \A j \in 1 .. L : inbound'[n][j] = inbound[n][j + 1]
        BY ZenonT(90), InboundShrinks DEF IInv
      <4>2. i \in 1 .. L /\ i + 1 \in 1 .. L + 1
        BY SMTT(60), <2>1, <3>2, <4>1
      <4> QED
        BY <3>2, <4>1, <4>2 DEF IInv, FrameInv
    <3> QED
      BY ZenonT(60), <3>1, <3>2
  <2>2. \A g \in InFlight(data)' : ValidFrame(issued, g)
    BY DEF IInv, FrameInv
  <2>3. \A g : ValidFrame(issued, g) => ValidFrame(issued', g)
    OBVIOUS
  <2> QED
    BY ZenonT(60), <2>1, <2>2, <2>3 DEF FrameInv
\* The rest of the queue is in order, and not executed yet.
<1>VerbQueue.
      ASSUME IInv, NEW n \in Nodes, inbound[n] # << >>, NEW t,
             NEW f, f = Head(inbound[n]), Executes(n, f, t),
             inbound' = [inbound EXCEPT ![n] = Tail(@)],
             NEW i \in DOMAIN inbound'[n], inbound'[n][i].verb \in FireAndForget
      PROVE  /\ inbound'[n][i].seq < Session1(n).dedup.next_expected
             /\ \A k \in DOMAIN issued[Peer(n)] :
                    FF(n, k) /\ k >= inbound'[n][i].seq => exec'[n][k] = 0
             /\ \A j \in DOMAIN inbound'[n] :
                    i < j /\ inbound'[n][j].verb \in FireAndForget
                        => inbound'[n][i].seq < inbound'[n][j].seq
  <2> USE <1>VerbQueue
  <2>1. PICK L \in Nat : /\ DOMAIN inbound[n] = 1 .. L + 1
                         /\ DOMAIN inbound'[n] = 1 .. L
                         /\ \A j \in 1 .. L : inbound'[n][j] = inbound[n][j + 1]
                         /\ f = inbound[n][1] /\ 1 \in DOMAIN inbound[n]
    BY ZenonT(90), InboundShrinks DEF IInv
  <2>2. i \in 1 .. L /\ i + 1 \in 1 .. L + 1 /\ 1 < i + 1
    BY <2>1
  <2>3. PICK g : g = inbound[n][i + 1] /\ g = inbound'[n][i] /\ g.verb \in FireAndForget
    BY ZenonT(60), <2>1, <2>2
  <2>4. g.seq \in Nat /\ f.seq \in Nat
    BY SMTT(60), <2>1, <2>2, <2>3, InboundFrame DEF IInv
  <2>5. /\ g.seq < Session1(n).dedup.next_expected
        /\ \A k \in DOMAIN issued[Peer(n)] : FF(n, k) /\ k >= g.seq => exec[n][k] = 0
        /\ \A j \in DOMAIN inbound[n] :
             i + 1 < j /\ inbound[n][j].verb \in FireAndForget => g.seq < inbound[n][j].seq
    BY ZenonT(90), <2>1, <2>2, <2>3 DEF IInv, OrderInv
  <2>6. ASSUME NEW k \in DOMAIN issued[Peer(n)], FF(n, k), k >= g.seq
        PROVE  exec'[n][k] = 0
    <3>1. k \in DOMAIN exec[n] /\ k \in Nat /\ exec[n][k] = 0
      BY SMTT(60), <2>5, <2>6, ExecNat DEF IInv
    <3>2. CASE k # f.seq
      BY ZenonT(129), <3>1, <3>2, <1>ExecAfter
    <3>3. CASE k = f.seq
      <4>1. CASE exec' = exec
        BY <3>1, <4>1
      <4>2. CASE exec' # exec
        <5>1. f.verb \in FireAndForget
          BY ZenonT(90), <2>6, <3>3, <4>2, <1>ExecAfter DEF FF
        <5>2. f.seq < g.seq
          BY ZenonT(90), <2>1, <2>2, <2>3, <5>1 DEF IInv, OrderInv
        <5> QED
          BY SMTT(60), <2>4, <2>6, <3>3, <5>2
      <4> QED
        BY <4>1, <4>2
    <3> QED
      BY ZenonT(90), <3>2, <3>3
  <2>7. ASSUME NEW j \in DOMAIN inbound'[n], i < j, inbound'[n][j].verb \in FireAndForget
        PROVE  g.seq < inbound'[n][j].seq
    <3>0. j \in 1 .. L /\ i \in 1 .. L
      BY <2>1, <2>2
    <3>1. j \in 1 .. L /\ j + 1 \in 1 .. L + 1 /\ i + 1 < j + 1
      BY SMTT(60), <2>7, <3>0
    <3>2. inbound'[n][j] = inbound[n][j + 1]
      BY ZenonT(60), <2>1, <3>1
    <3> QED
      BY ZenonT(90), <2>1, <2>5, <2>7, <3>1, <3>2
  <2> QED
    BY ZenonT(90), <2>3, <2>5, <2>6, <2>7
\* A write or a send at the head of the queue was not executed before.
<1>VerbCounts.
      ASSUME IInv, NEW n \in Nodes, inbound[n] # << >>, NEW t,
             NEW f, f = Head(inbound[n]), Executes(n, f, t)
      PROVE  /\ \A k \in DOMAIN exec[n] : k > Len(issued[Peer(n)]) => exec'[n][k] = 0
             /\ \A k \in DOMAIN issued[Peer(n)] : FF(n, k) =>
                    exec'[n][k] <= 1 /\ (exec'[n][k] > 0 => k < Session1(n).dedup.next_expected)
  <2> USE <1>VerbCounts
  <2>1. f = inbound[n][1] /\ 1 \in DOMAIN inbound[n]
    <3>1. inbound[n] \in Seq(DataFrame)
      BY ZenonT(60), IssuedTypes DEF IInv
    <3>2. Len(inbound[n]) \in Nat /\ Len(inbound[n]) # 0 /\ DOMAIN inbound[n] = 1 .. Len(inbound[n])
      BY SMTT(60), <3>1, LenProperties, EmptySeq
    <3> QED
      BY SMTT(60), <3>1, <3>2, HeadTailProperties
  <2>2. PICK N \in Nat : N = Len(issued[Peer(n)]) /\ DOMAIN issued[Peer(n)] = 1 .. N
    BY ZenonT(60), Peers, IssuedTypes DEF IInv
  <2>3. ASSUME NEW k \in DOMAIN exec[n], k > N
        PROVE  exec'[n][k] = 0
    <3>1. exec[n][k] = 0
      BY ZenonT(60), <2>2, <2>3 DEF IInv, OrderInv
    <3>2. k \in Nat
      <4>1. exec[n] \in [1 .. MaxSends[Peer(n)] -> Nat]
        BY Zenon DEF IInv, StableTypes, TypeOK
      <4>2. k \in 1 .. MaxSends[Peer(n)]
        BY Zenon, <4>1
      <4> QED
        BY <4>2
    <3>3. k \notin 1 .. N
      BY <2>3, <3>2
    <3> QED
      BY ZenonT(60), <2>2, <3>1, <3>3, <1>ExecAfter
  <2>4. ASSUME NEW k \in DOMAIN issued[Peer(n)], FF(n, k)
        PROVE  exec'[n][k] <= 1 /\ (exec'[n][k] > 0 => k < Session1(n).dedup.next_expected)
    <3>1. k \in DOMAIN exec[n] /\ exec[n][k] \in Nat /\ k \in Nat
      BY ExecNat DEF IInv
    <3>2. exec[n][k] <= 1 /\ (exec[n][k] > 0 => k < Session1(n).dedup.next_expected)
      BY ZenonT(90), <2>4 DEF IInv, OrderInv
    <3>3. CASE exec'[n][k] = exec[n][k]
      BY ZenonT(90), <3>2, <3>3
    <3>4. CASE exec'[n][k] # exec[n][k]
      <4>1. k = f.seq /\ exec'[n][k] = exec[n][k] + 1 /\ f.verb \in FireAndForget
        BY ZenonT(60), <2>4, <3>1, <3>4, <1>ExecAfter DEF FF
      <4>2. f.seq < Session1(n).dedup.next_expected /\ (k >= f.seq => exec[n][k] = 0)
        BY ZenonT(90), <2>1, <2>4, <4>1 DEF IInv, OrderInv
      <4>3. k >= f.seq
        BY SMTT(60), <3>1, <4>1
      <4> QED
        BY SMTT(60), <4>1, <4>2, <4>3
    <3> QED
      BY ZenonT(90), <3>3, <3>4
  <2> QED
    BY ZenonT(60), <2>2, <2>3, <2>4
\* Handling a frame keeps the order of the queues.
<1>VerbOrder.
      ASSUME IInv, NEW n \in Nodes, inbound[n] # << >>, NEW t \in Session,
             NEW f, f = Head(inbound[n]), Executes(n, f, t), SessionKept(n, t),
             inbound' = [inbound EXCEPT ![n] = Tail(@)], issued' = issued,
             Session1(n)' = t, \A m \in Nodes : m # n => Session1(m)' = Session1(m)
      PROVE  OrderInv'
  <2> USE <1>VerbOrder
  <2>1. \A m \in Nodes : Session1(m)'.dedup = Session1(m).dedup
    BY DEF SessionKept
  <2>2. \A m \in Nodes : m # n => inbound'[m] = inbound[m] /\ exec'[m] = exec[m]
    <3>1. StableTypes
      BY DEF IInv
    <3>2. \A m \in Nodes : m # n => inbound'[m] = inbound[m]
      BY ZenonT(90), <3>1, InboundShrinks
    <3>3. \A m \in Nodes : m # n => exec'[m] = exec[m]
      BY ZenonT(90), <1>ExecAfter
    <3> QED
      BY ZenonT(90), <3>2, <3>3
  <2>3. \A m \in Nodes : DOMAIN exec'[m] = DOMAIN exec[m]
    <3>1. \A m \in Nodes : exec[m] \in [1 .. MaxSends[Peer(m)] -> Nat]
      BY ZenonT(90) DEF IInv, StableTypes, TypeOK
    <3>2. \A m \in Nodes : exec'[m] \in [1 .. MaxSends[Peer(m)] -> Nat]
      BY ZenonT(90), <1>ExecAfter
    <3> QED
      BY <3>1, <3>2
  <2>4. ASSUME NEW m \in Nodes
        PROVE  /\ \A k \in DOMAIN exec[m] : k > Len(issued[Peer(m)]) => exec'[m][k] = 0
               /\ \A k \in DOMAIN issued[Peer(m)] : FF(m, k) =>
                      /\ exec'[m][k] <= 1
                      /\ exec'[m][k] > 0 => k < Session1(m).dedup.next_expected
    <3>1. CASE m = n
      BY ZenonT(90), <3>1, <1>VerbCounts
    <3>2. CASE m # n
      <4>1. exec'[m] = exec[m]
        BY ZenonT(90), <2>2, <3>2
      <4> QED
        BY ZenonT(90), <4>1 DEF IInv, OrderInv
    <3> QED
      BY <3>1, <3>2
  <2>5. ASSUME NEW m \in Nodes, NEW i \in DOMAIN inbound'[m],
               inbound'[m][i].verb \in FireAndForget
        PROVE  /\ inbound'[m][i].seq < Session1(m).dedup.next_expected
               /\ \A k \in DOMAIN issued[Peer(m)] :
                      FF(m, k) /\ k >= inbound'[m][i].seq => exec'[m][k] = 0
               /\ \A j \in DOMAIN inbound'[m] :
                      i < j /\ inbound'[m][j].verb \in FireAndForget
                          => inbound'[m][i].seq < inbound'[m][j].seq
    <3>1. CASE m = n
      BY ZenonT(90), <2>5, <3>1, <1>VerbQueue
    <3>2. CASE m # n
      <4>1. inbound'[m] = inbound[m] /\ exec'[m] = exec[m]
        BY ZenonT(90), <2>2, <3>2
      <4> QED
        BY ZenonT(90), <2>5, <4>1 DEF IInv, OrderInv
    <3> QED
      BY ZenonT(90), <3>1, <3>2
  <2> QED
    BY ZenonT(90), <2>1, <2>3, <2>4, <2>5 DEF OrderInv, FF
<1> QED
  <2> SUFFICES ASSUME NatWellOrdered, IInv, NEW n \in Nodes, handle_verb_frame(n)
               PROVE  IInv'
    BY Zenon
  <2>1. PICK f : \E t \in Session :
          /\ f = Head(inbound[n]) /\ inbound[n] # << >>
          /\ VerbEffect(n, f, t)
          /\ inbound' = [inbound EXCEPT ![n] = Tail(@)]
          /\ inbound' \in [Nodes -> Seq(DataFrame)]
          /\ UNCHANGED <<epoch, cur, sender, acks, issued, faults>>
    BY VerbStep
  <2>2. /\ inbound' \in [Nodes -> Seq(DataFrame)]
        /\ UNCHANGED <<epoch, cur, sender, acks, issued, faults>>
    BY <2>1
  <2>3. PICK t \in Session : VerbEffect(n, f, t)
    BY <2>1
  <2>4. /\ sess' \in [Nodes -> [{1} -> Session]]
        /\ Session1(n)' = t
        /\ \A m \in Nodes : m # n => Session1(m)' = Session1(m)
    BY ZenonT(90), <2>3, SessionUpdate DEF VerbEffect, IInv
  <2>5. SessionKept(n, t) /\ Executes(n, f, t)
    BY <2>3 DEF VerbEffect
  <2>6. FrameInv' /\ InFlight(data)' \subseteq DataFrame
    <3>1. \A g \in InFlight(data)' :
            g \in InFlight(data) \/ (g \in DataFrame /\ ValidFrame(issued, g))
      BY ZenonT(60), <2>3 DEF VerbEffect
    <3>2. InFlight(data) \subseteq DataFrame
      BY DEF IInv, StableTypes, TypeOK
    <3> QED
      BY ZenonT(90), <2>1, <3>1, <3>2, <1>VerbFrames
  <2>7. OrderInv' /\ RecordInv'
    BY ZenonT(90), <2>1, <2>4, <2>5, <1>VerbOrder, <1>VerbRecords
  <2>8. StableTypes'
    <3>1. /\ next_opaque' \in [Nodes -> Nat]
          /\ pending' \in [Nodes -> SUBSET Nat]
          /\ calls' \in [Nodes -> Seq(Call)]
      BY ZenonT(90), <2>3 DEF VerbEffect, IInv, StableTypes, TypeOK
    <3>2. DOMAIN exec' = Nodes /\ \A m \in Nodes : exec'[m] \in [1 .. MaxSends[Peer(m)] -> Nat]
      BY ZenonT(90), <2>5, <1>ExecAfter
    <3> QED
      BY ZenonT(90), <2>2, <2>4, <2>6, <3>1, <3>2 DEF IInv, StableTypes, TypeOK
  <2>9. \A m \in Nodes :
          /\ Session1(m)'.dedup = Session1(m).dedup
          /\ Session1(m)'.next_seq = Session1(m).next_seq
          /\ Session1(m)'.state = Session1(m).state
          /\ Derived(Session1(m)'.retransmit_queue, Session1(m).retransmit_queue)
          /\ \A d \in Session1(m).retransmit_queue : d.verb \in FireAndForget =>
                 \E e \in Session1(m)'.retransmit_queue : e.id = d.id
    BY ZenonT(90), <2>4, <2>5 DEF SessionKept, Derived
  <2>10. QueueInv' /\ WindowInv' /\ AckInv'
    BY ZenonT(60), <2>2, <2>9, QueueKept, WindowKept, AckKept DEF IInv
  <2>11. DroppedOnlyIfReceived'
    BY ZenonT(90), <2>2, <2>8, <2>9, DroppedKept DEF IInv
  <2> QED
    BY ZenonT(60), <2>6, <2>7, <2>8, <2>10, <2>11 DEF IInv
=============================================================================
