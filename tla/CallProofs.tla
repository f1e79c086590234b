----------------------------- MODULE CallProofs -----------------------------
(***************************************************************************)
(* What the steps do to the calls of an engine and to their requests and   *)
(* responses: in the states of IInv every step keeps CallInv and, where no *)
(* read is refused, ResponseInv (CallInvariant).                           *)
(*                                                                         *)
(* A lemma whose helpers serve it alone has them as its first steps.       *)
(***************************************************************************)
EXTENDS CallInvariant, SessionProofs

-----------------------------------------------------------------------------
(* What a step may do to a session, the frames and the calls *)

\* A sequence with one element more.
LEMMA Appended ==
    ASSUME NEW S, NEW s \in Seq(S), NEW x \in S, NEW N \in Nat, N = Len(s)
    PROVE  /\ Append(s, x) \in Seq(S)
           /\ Len(Append(s, x)) = N + 1
           /\ DOMAIN Append(s, x) = 1 .. N + 1
           /\ \A i \in 1 .. N : Append(s, x)[i] = s[i]
           /\ Append(s, x)[N + 1] = x
<1>1. /\ Append(s, x) \in Seq(S)
      /\ Len(Append(s, x)) = N + 1
      /\ \A i \in 1 .. N : Append(s, x)[i] = s[i]
      /\ Append(s, x)[N + 1] = x
  BY AppendProperties
<1> QED
  BY ZenonT(90), <1>1, LenProperties

\* An identifier is no NoId.
LEMMA IdIsSome ==
    ASSUME NEW id \in Id
    PROVE  id # NoId
BY DEF Id, NoId

\* The sender side of a session that is left alone keeps its entries.
LEMMA SenderKeeps ==
    ASSUME NEW t, NEW s, SameSender(t, s)
    PROVE  Keeps(t, s)
BY DEF Keeps, SameSender

\* A call names the request it queued.
LEMMA CallId ==
    ASSUME CallInv, NEW n \in Nodes, NEW o \in DOMAIN calls[n], calls[n][o].id # NoId
    PROVE  \E k \in DOMAIN issued[n] : calls[n][o].id = <<n, k>> /\ issued[n][k] \in Requests
<1>1. CallsOf(n)
  BY DEF CallInv
<1>2. \A p \in DOMAIN calls[n] : calls[n][p].id # NoId =>
        \E k \in DOMAIN issued[n] : calls[n][p].id = <<n, k>> /\ issued[n][k] \in Requests
  BY ZenonT(90), <1>1 DEF CallsOf
<1> QED
  BY ZenonT(90), <1>2

\* What a response answers stays answered.
LEMMA AskForward ==
    ASSUME CallInv, Forward, NEW n \in Nodes, NEW o, NEW id, id # NoId, Asks(n, o, id)
    PROVE  /\ Asks(n, o, id)'
           /\ Served(n, id) => Served(n, id)'
<1>0. o \in DOMAIN calls[n] /\ calls[n][o].id = id
  BY DEF Asks
<1>1. PICK k \in DOMAIN issued[n] : id = <<n, k>>
  BY ZenonT(90), <1>0, CallId
<1>2. id[2] = k
  BY <1>1
<1> QED
  BY <1>2 DEF Forward, Asks, Served

\* A frame stays sound.
LEMMA SoundForward ==
    ASSUME CallInv, Forward, NEW f \in DataFrame, Sound(f)
    PROVE  Sound(f)'
<1>1. f.src \in Nodes /\ Peer(f.src) \in Nodes /\ f.id # NoId
  BY SMTT(60), Peers, IdIsSome DEF DataFrame
<1> QED
  BY <1>1, AskForward DEF Sound

\* The responses stay sound when what is added is sound.
LEMMA ResponseStep ==
    ASSUME IInv, CallInv, ResponseInv, Forward, InboundFrom,
           \A g \in InFlight(data)' : g \in InFlight(data) \/ Sound(g)',
           \A m \in Nodes : \A c \in Session1(m)'.read_cache :
               \/ \E d \in Session1(m).read_cache : c.opaque = d.opaque /\ c.id = d.id
               \/ CacheSound(m, c.opaque, c.id)',
           \A m \in Nodes : \A k \in DOMAIN issued'[m] : issued'[m][k] \in Verbs,
           \A m \in Nodes : \A o \in DOMAIN calls'[m] : calls'[m][o].status = "Ok" =>
               \/ o \in DOMAIN calls[m] /\ calls'[m][o] = calls[m][o]
               \/ Answered1(m, o)'
    PROVE  ResponseInv'
<1>1. \A f \in InFlight(data) : Sound(f)'
  BY ZenonT(90), SoundForward DEF ResponseInv, IInv, StableTypes, TypeOK
<1>2. \A n \in Nodes : \A i \in DOMAIN inbound[n] : Sound(inbound[n][i])
                                                 /\ inbound[n][i] \in DataFrame
  BY ZenonT(90), InboundFrame DEF ResponseInv, IInv
<1>3. \A n \in Nodes : \A i \in DOMAIN inbound'[n] : Sound(inbound[n][i])'
  <2> SUFFICES ASSUME NEW n \in Nodes, NEW i \in DOMAIN inbound'[n]
               PROVE  Sound(inbound[n][i])'
    BY ZenonT(90)
  <2>1. PICK f : f = inbound'[n][i]
    OBVIOUS
  <2>2. f \in InFlight(data) \/ (f \in DataFrame /\ Sound(f))
    BY SMTT(60), <1>2, <2>1 DEF InboundFrom
  <2>3. Sound(f)'
    BY SMTT(60), <1>1, <2>2, SoundForward
  <2> QED
    BY ZenonT(90), <2>1, <2>3
<1>4. ASSUME NEW m \in Nodes, NEW d \in Session1(m).read_cache
      PROVE  CacheSound(m, d.opaque, d.id)'
  <2>1. d.id # NoId
    BY SMTT(60), Current, IdIsSome DEF IInv, Session, Cached
  <2>2. Asks(Peer(m), d.opaque, d.id) /\ Served(Peer(m), d.id)
    BY ZenonT(90) DEF ResponseInv, CacheSound
  <2> QED
    BY ZenonT(90), <2>1, <2>2, AskForward, Peers DEF CacheSound
<1>5. ASSUME NEW m \in Nodes, NEW c \in Session1(m)'.read_cache
      PROVE  CacheSound(m, c.opaque, c.id)'
  <2>1. CASE \E d \in Session1(m).read_cache : c.opaque = d.opaque /\ c.id = d.id
    BY SMTT(60), <1>4, <2>1
  <2> QED
    BY <2>1
<1>6. ASSUME NEW m \in Nodes, NEW o \in DOMAIN calls[m], calls'[m][o] = calls[m][o],
             calls[m][o].status = "Ok"
      PROVE  Answered1(m, o)'
  <2>1. Answered1(m, o)
    BY SMTT(60), <1>6 DEF ResponseInv
  <2>2. PICK id : id = calls[m][o].id /\ id # NoId /\ Served(m, id) /\ Asks(m, o, id)
    BY <2>1 DEF Answered1, Asks
  <2>3. Served(m, id)'
    BY ZenonT(90), <2>2, AskForward
  <2> QED
    BY SMTT(60), <1>6, <2>1, <2>2, <2>3 DEF Answered1
<1>7. \A m \in Nodes : \A o \in DOMAIN calls'[m] : calls'[m][o].status = "Ok" => Answered1(m, o)'
  BY <1>6
<1> QED
  BY SMTT(60), <1>1, <1>3, <1>5, <1>7 DEF ResponseInv

\* The entry with the frame of a call is a request with the call's opaque.
LEMMA RequestEntry ==
    ASSUME IInv, CallInv, NEW n \in Nodes, NEW o \in DOMAIN calls[n],
           NEW e \in Session1(n).retransmit_queue, e.id = calls[n][o].id
    PROVE  e.verb \in Requests /\ e.opaque = o
<1>1. ValidEntry(issued, n, e) /\ e.id \in Id
  BY ZenonT(60), Current DEF IInv, QueueInv, Session, Entry
<1>2. e.id # NoId
  BY <1>1, IdIsSome
<1>3. PICK k \in DOMAIN issued[n] : calls[n][o].id = <<n, k>> /\ issued[n][k] \in Requests
  BY ZenonT(90), <1>2, CallId
<1>4. e.seq = k /\ e.verb = issued[n][k]
  <2>1. e.id = <<n, e.seq>> /\ e.verb = issued[n][e.seq]
    BY <1>1 DEF ValidEntry
  <2>2. <<n, e.seq>> = <<n, k>>
    BY <1>3, <2>1
  <2>3. e.seq = k
    BY <2>2
  <2> QED
    BY <2>1, <2>3
<1>5. CallsOf(n)
  BY Zenon DEF CallInv
<1>6. e.opaque \in DOMAIN calls[n] /\ calls[n][e.opaque].id = e.id
  BY ZenonT(60), <1>3, <1>4, <1>5 DEF CallsOf, Asks
<1>7. \A p, q \in DOMAIN calls[n] :
        calls[n][p].id = calls[n][q].id /\ calls[n][p].id # NoId => p = q
  BY Zenon, <1>5 DEF CallsOf
<1>8. e.opaque = o
  BY Zenon, <1>2, <1>6, <1>7
<1> QED
  BY Zenon, <1>3, <1>4, <1>8

\* A step that keeps the entries leaves the calls alone.
LEMMA KeptCalls ==
    ASSUME IInv, CallInv, UNCHANGED <<next_opaque, pending, calls, issued>>,
           \A m \in Nodes : Keeps(Session1(m)', Session1(m))
    PROVE  CallInv'
<1>1. UNCHANGED <<next_opaque, pending, calls, issued>>
  OBVIOUS
<1>2. ASSUME NEW n \in Nodes, NEW e \in Session1(n)'.retransmit_queue, e.verb \in Requests
      PROVE  Asks(n, e.opaque, e.id)'
  <2>1. PICK d \in Session1(n).retransmit_queue :
          e.id = d.id /\ e.verb = d.verb /\ e.opaque = d.opaque
    BY DEF Keeps
  <2>2. Asks(n, d.opaque, d.id)
    BY <1>2, <2>1 DEF CallInv, CallsOf
  <2> QED
    BY <1>1, <2>1, <2>2 DEF Asks
<1>3. ASSUME NEW n \in Nodes, Session1(n)'.state = "Active", NEW o \in DOMAIN calls[n],
             calls[n][o].id # NoId,
             ~(calls[n][o].status \in {"Ok", "Refused"} /\ o \notin pending[n])
      PROVE  \E e \in Session1(n)'.retransmit_queue : e.id = calls[n][o].id
  <2>1. Session1(n).state = "Active"
    BY <1>3 DEF Keeps
  <2>2. PICK d \in Session1(n).retransmit_queue : d.id = calls[n][o].id
    BY SMTT(60), <1>3, <2>1 DEF CallInv, CallsOf
  <2>3. d.verb \in Requests
    BY SMTT(60), <2>2, RequestEntry
  <2> QED
    BY <1>3, <2>2, <2>3 DEF Keeps
<1> QED
  BY SMTT(60), <1>1, <1>2, <1>3 DEF CallInv, CallsOf

-----------------------------------------------------------------------------
(* The methods of a session leave the read cache alone *)

\* The RTO task, the receive path and the engine's records.
LEMMA CacheUntouched ==
    ASSUME NEW s \in Session
    PROVE  /\ \A expired : check_rto(s, expired).read_cache = s.read_cache
           /\ \A seq : receive_frame(s, seq).read_cache = s.read_cache
           /\ ack_sent(s).read_cache = s.read_cache
           /\ \A seq : mark_executed(s, seq).read_cache = s.read_cache
           /\ \A opaque : complete_request(s, opaque).read_cache = s.read_cache
           /\ \A ack : process_ack_for_fast_retransmit(s, ack).session.read_cache = s.read_cache
           /\ \A ack : process_ack(s, ack).read_cache = s.read_cache
<1>1. \A expired : check_rto(s, expired).read_cache = s.read_cache
  BY DEF check_rto, kill, on_loss, Session
<1>2. \A seq : receive_frame(s, seq).read_cache = s.read_cache
  BY DEF receive_frame, Session
<1>3. ack_sent(s).read_cache = s.read_cache
  BY DEF ack_sent, Session
<1>4. \A seq : mark_executed(s, seq).read_cache = s.read_cache
  BY DEF mark_executed, Session
<1>5. \A opaque : complete_request(s, opaque).read_cache = s.read_cache
  BY DEF complete_request, Session
<1>6. \A ack : process_ack_for_fast_retransmit(s, ack).session.read_cache = s.read_cache
  BY DEF process_ack_for_fast_retransmit, Session
<1>7. \A ack : process_ack(s, ack).read_cache = s.read_cache
  BY DEF process_ack, add_credits, on_new_ack, Session
<1> QED
  BY ZenonT(90), <1>1, <1>2, <1>3, <1>4, <1>5, <1>6, <1>7

\* Nor does a frame that is queued change it.
LEMMA CacheUnsent ==
    ASSUME NEW s \in Session, NEW verb, NEW opaque, NEW id
    PROVE  assign_seq(consume_credit(s), verb, opaque, id).read_cache = s.read_cache
BY DEF assign_seq, consume_credit, Session

-----------------------------------------------------------------------------
(* The steps of the transports and the network *)

\* A step of a transport or a cache carries.
LEMMA TransportCarries ==
    \A n \in Nodes :
        NatWellOrdered /\ IInv /\ (TransportStep(n) \/ CacheExpire(n)) => Carried
\* A session that is replaced, and the one that is not.
<1>SessionCarried.
      ASSUME StableTypes, NEW n \in Nodes, NEW t \in Session, sess' = [sess EXCEPT ![n][1] = t],
             Keeps(t, Session1(n)), CacheFrom(t, Session1(n))
      PROVE  \A m \in Nodes : /\ Keeps(Session1(m)', Session1(m))
                              /\ CacheFrom(Session1(m)', Session1(m))
  <2> USE <1>SessionCarried
  <2>1. /\ Session1(n)' = t
        /\ \A m \in Nodes : m # n => Session1(m)' = Session1(m)
    BY ZenonT(90), SessionUpdate
  <2>2. \A s : Keeps(s, s) /\ CacheFrom(s, s)
    BY DEF Keeps, CacheFrom
  <2> QED
    BY <2>1, <2>2
\* A queue that is left alone, and a frame added to one.
<1>InboundAppend.
      ASSUME StableTypes, NEW n \in Nodes, NEW f \in InFlight(data),
             inbound' = inbound \/ inbound' = [inbound EXCEPT ![n] = Append(@, f)]
      PROVE  InboundFrom
  <2> USE <1>InboundAppend
  <2>1. CASE inbound' = inbound
    BY <2>1 DEF InboundFrom
  <2>2. CASE inbound' = [inbound EXCEPT ![n] = Append(@, f)]
    <3>1. f \in DataFrame /\ inbound[n] \in Seq(DataFrame) /\ DOMAIN inbound = Nodes
      BY DEF StableTypes, TypeOK
    <3>2. PICK N \in Nat : N = Len(inbound[n]) /\ DOMAIN inbound[n] = 1 .. N
      BY IssuedTypes
    <3>3. PICK a \in Seq(DataFrame) :
            /\ a = Append(inbound[n], f) /\ DOMAIN a = 1 .. N + 1
            /\ \A i \in 1 .. N : a[i] = inbound[n][i]
            /\ a[N + 1] = f
      <4>1. /\ Append(inbound[n], f) \in Seq(DataFrame)
            /\ DOMAIN Append(inbound[n], f) = 1 .. N + 1
            /\ \A i \in 1 .. N : Append(inbound[n], f)[i] = inbound[n][i]
            /\ Append(inbound[n], f)[N + 1] = f
        BY <3>1, <3>2, Appended
      <4> QED
        BY ZenonT(90), <4>1
    <3>5. inbound'[n] = a /\ \A m \in Nodes : m # n => inbound'[m] = inbound[m]
      BY <2>2, <3>1, <3>3
    <3>6. \A i \in 1 .. N + 1 : i \in 1 .. N \/ i = N + 1
      OBVIOUS
    <3>7. \A i \in DOMAIN a : (\E j \in DOMAIN inbound[n] : a[i] = inbound[n][j]) \/ a[i] = f
      BY SMTT(60), <3>2, <3>3, <3>6
    <3> QED
      BY <3>5, <3>7 DEF InboundFrom
  <2> QED
    BY <2>1, <2>2
\* A tick of the RTO task.
<1>RtoCarries.
      ASSUME IInv, NEW n \in Nodes, RtoTick(n), UNCHANGED engineVars
      PROVE  Carried
  <2> USE <1>RtoCarries
  <2>1. DOMAIN sess[n] = {1}
    BY DEF IInv, StableTypes
  <2>2. PICK expired \in SUBSET Session1(n).retransmit_queue :
          /\ Session1(n).state = "Active"
          /\ sess' = [sess EXCEPT ![n][1] = check_rto(Session1(n), expired)]
          /\ \/ data' = data
             \/ data' = SentToPeer(n, {EntryFrame(n, e) : e \in expired})
    BY ZenonT(90), <2>1 DEF RtoTick, Session1
  <2>3. Session1(n) \in Session
    BY Current DEF IInv
  <2>4. PICK t \in Session :
          /\ t = check_rto(Session1(n), expired)
          /\ \/ t.state = "Dead" /\ t.retransmit_queue = {}
             \/ /\ t.state = Session1(n).state
                /\ t.retransmit_queue = (Session1(n).retransmit_queue \ expired)
                       \cup {[e EXCEPT !.retry_count = @ + 1] : e \in expired}
    BY <2>3, CheckRto
  <2>5. \A e \in expired :
          LET r == [e EXCEPT !.retry_count = @ + 1]
          IN  r.opaque = e.opaque /\ r.id = e.id /\ r.verb = e.verb
    BY <2>3 DEF Session, Entry
  <2>6. Keeps(t, Session1(n))
    <3>1. ASSUME NEW x \in t.retransmit_queue
          PROVE  \E d \in Session1(n).retransmit_queue :
                     x.id = d.id /\ x.verb = d.verb /\ x.opaque = d.opaque
      <4>1. CASE x \notin Session1(n).retransmit_queue
        <5>1. PICK e \in expired : x = [e EXCEPT !.retry_count = @ + 1]
          BY <2>4, <4>1
        <5> QED
          BY <2>5, <5>1
      <4> QED
        BY <4>1
    <3>2. ASSUME t.state = "Active", NEW d \in Session1(n).retransmit_queue
          PROVE  \E e \in t.retransmit_queue : e.id = d.id
      <4>1. CASE d \in expired
        BY ZenonT(90), <2>4, <2>5, <3>2, <4>1
      <4>2. CASE d \notin expired
        BY <2>4, <3>2, <4>2
      <4> QED
        BY <4>1, <4>2
    <3> QED
      BY <2>2, <3>1, <3>2 DEF Keeps
  <2>7. CacheFrom(t, Session1(n))
    BY <2>3, <2>4, CacheUntouched DEF CacheFrom
  <2>8. \A m \in Nodes : Keeps(Session1(m)', Session1(m)) /\ CacheFrom(Session1(m)', Session1(m))
    BY ZenonT(90), <2>2, <2>4, <2>6, <2>7, <1>SessionCarried DEF IInv
  <2>9. \A g \in InFlight(data)' :
          g \in InFlight(data) \/ \E e \in Session1(n).retransmit_queue : g = EntryFrame(n, e)
    BY <2>2, SentFrames
  <2>10. issued' = issued /\ inbound' = inbound
    BY DEF RtoTick
  <2> QED
    BY ZenonT(90), <2>8, <2>9, <2>10 DEF Carried, InboundFrom
\* handle_ack_frame: an ACK removes no request.
<1>AckCarries.
      ASSUME IInv, NEW n \in Nodes, handle_ack_frame(n), UNCHANGED engineVars
      PROVE  Carried
  <2> USE <1>AckCarries
  <2> DEFINE s == Session1(n)
  <2>1. /\ HasSession(n) /\ CurrentSession(n) = s /\ s \in Session
        /\ \A t : Update(n, t) = [sess EXCEPT ![n][1] = t]
    BY Current DEF IInv
  <2>2. PICK f \in InFlight(acks) :
          LET r == process_ack_for_fast_retransmit(s, f)
              again == get_retransmit_entry(r.session, r.resend)
          IN  /\ sess' = [sess EXCEPT ![n][1] = process_ack(r.session, f)]
              /\ data' = SentToPeer(n, {EntryFrame(n, e) : e \in again})
    BY ZenonT(90), <2>1 DEF handle_ack_frame
  <2>3. f.ack_seq \in Nat /\ f.credit_grant \in Nat
    BY ZenonT(60) DEF IInv, StableTypes, TypeOK, AckFrame
  <2> HIDE DEF s
  <2>4. PICK u \in Session :
          /\ u = process_ack_for_fast_retransmit(s, f).session
          /\ SameSender(u, s)
    BY <2>1, <2>3, FastRetransmit
  <2>5. PICK t \in Session :
          /\ t = process_ack(u, f)
          /\ t.state = u.state
          /\ t.retransmit_queue = u.retransmit_queue \ Acked(u, f)
    BY ZenonT(60), <2>3, <2>4, ProcessAck
  <2>6. Keeps(t, s)
    <3>1. \A d \in Acked(u, f) : d.verb \notin Requests
      BY DEF Acked, Requests, FireAndForget
    <3> QED
      BY SMTT(60), <2>4, <2>5, <3>1 DEF Keeps, SameSender
  <2>7. t.read_cache = s.read_cache
    BY SMTT(60), <2>1, <2>4, <2>5, CacheUntouched
  <2>8. CacheFrom(t, s)
    BY <2>7 DEF CacheFrom
  <2>9. sess' = [sess EXCEPT ![n][1] = t]
    BY <2>2, <2>4, <2>5
  <2>10. \A m \in Nodes : Keeps(Session1(m)', Session1(m)) /\ CacheFrom(Session1(m)', Session1(m))
    BY Zenon, <2>6, <2>8, <2>9, <1>SessionCarried DEF IInv, s
  <2>11. \A g \in InFlight(data)' :
           g \in InFlight(data) \/ \E e \in Session1(n).retransmit_queue : g = EntryFrame(n, e)
    <3>1. \A x : get_retransmit_entry(u, x) \subseteq Session1(n).retransmit_queue
      BY <2>4 DEF get_retransmit_entry, SameSender, s
    <3> QED
      BY <2>2, <2>4, <3>1, SentFrames
  <2>12. issued' = issued /\ inbound' = inbound
    BY SMTT(60) DEF handle_ack_frame
  <2> QED
    BY <2>10, <2>11, <2>12 DEF Carried, InboundFrom
\* handle_data_frame: it hands over what was in flight.
<1>ReceiveCarries.
      ASSUME NatWellOrdered, IInv, NEW n \in Nodes, handle_data_frame(n), UNCHANGED engineVars
      PROVE  Carried
  <2> USE <1>ReceiveCarries
  <2>1. PICK f \in InFlight(data) :
          /\ data' = Take(data, f)
          /\ \/ DeliverUnchecked(n, f) \/ DropOnDeadSession(n, f)
             \/ ReceiveInSession(n, f)
          /\ issued' = issued
    BY DEF handle_data_frame
  <2>2. InFlight(data)' \subseteq InFlight(data)
    BY <2>1, TakeFrame
  <2>3. InboundFrom
    <3>1. inbound' = inbound \/ inbound' = [inbound EXCEPT ![n] = Append(@, f)]
      BY <2>1 DEF DeliverUnchecked, DropOnDeadSession, ReceiveInSession, HandOver
    <3> QED
      BY ZenonT(60), <3>1, <1>InboundAppend DEF IInv
  <2>4. PICK s \in Session :
          /\ s = Session1(n) /\ CurrentSession(n) = s
          /\ \A t : Update(n, t) = [sess EXCEPT ![n][1] = t]
          /\ sess = [sess EXCEPT ![n][1] = s]
    BY Current, Sessions DEF IInv
  <2>5. \E t \in Session : /\ sess' = [sess EXCEPT ![n][1] = t]
                           /\ SameSender(t, s) /\ t.read_cache = s.read_cache
    <3>1. CASE sess' = sess
      BY <2>4, <3>1 DEF SameSender
    <3>2. CASE ReceiveInSession(n, f)
      <4>1. GoodWindow(s.dedup) /\ f.seq \in Nat
        BY Zenon, <2>4 DEF IInv, WindowInv, StableTypes, TypeOK, DataFrame
      <4>2. PICK c \in Session :
              c = receive_frame(s, f.seq) /\ SameSender(c, s)
        BY <4>1, ReceiveFrame
      <4>3. PICK t \in {c, ack_sent(c)} : sess' = [sess EXCEPT ![n][1] = t]
        BY ZenonT(90), <2>4, <3>2, <4>2 DEF ReceiveInSession
      <4>4. t \in Session /\ SameSender(t, s)
        BY ZenonT(60), <4>2, <4>3, AckSent DEF SameSender
      <4>5. t.read_cache = s.read_cache
        BY <4>2, <4>3, CacheUntouched
      <4> QED
        BY Zenon, <4>3, <4>4, <4>5
    <3> QED
      BY <2>1, <3>1, <3>2 DEF DeliverUnchecked, DropOnDeadSession
  <2>6. PICK t \in Session : /\ sess' = [sess EXCEPT ![n][1] = t]
                             /\ SameSender(t, s) /\ t.read_cache = s.read_cache
    BY Zenon, <2>5
  <2>7. Keeps(t, s) /\ CacheFrom(t, s)
    BY <2>6, SenderKeeps DEF CacheFrom
  <2>8. \A m \in Nodes : Keeps(Session1(m)', Session1(m)) /\ CacheFrom(Session1(m)', Session1(m))
    BY ZenonT(90), <2>4, <2>6, <2>7, <1>SessionCarried DEF IInv
  <2> QED
    BY <2>1, <2>2, <2>3, <2>8 DEF Carried
\* A cache entry that expires.
<1>ExpireCarries.
      ASSUME IInv, NEW n \in Nodes, CacheExpire(n)
      PROVE  Carried
  <2> USE <1>ExpireCarries
  <2>0. DOMAIN sess[n] = {1}
    BY DEF IInv, StableTypes
  <2>1. PICK c : sess' = [sess EXCEPT ![n][1] = cache_expire(@, c)]
    <3>1. PICK k \in DOMAIN sess[n] :
            \E c \in sess[n][k].read_cache : sess' = [sess EXCEPT ![n][k] = cache_expire(@, c)]
      BY ZenonT(90) DEF CacheExpire
    <3>2. k = 1
      BY <2>0, <3>1
    <3> QED
      BY ZenonT(90), <3>1, <3>2
  <2>2. Session1(n) \in Session
    BY Current DEF IInv
  <2>3. PICK t \in Session : t = cache_expire(Session1(n), c) /\ SameSender(t, Session1(n))
    BY <2>2, CacheExpired
  <2>4. t.read_cache = Session1(n).read_cache \ {c}
    BY <2>2, <2>3 DEF cache_expire, Session
  <2>5. sess' = [sess EXCEPT ![n][1] = t]
    BY <2>1, <2>3 DEF Session1
  <2>6. \A m \in Nodes : Keeps(Session1(m)', Session1(m)) /\ CacheFrom(Session1(m)', Session1(m))
    <3>1. Keeps(t, Session1(n)) /\ CacheFrom(t, Session1(n))
      BY <2>3, <2>4, SenderKeeps DEF CacheFrom
    <3> QED
      BY ZenonT(90), <2>5, <3>1, <1>SessionCarried DEF IInv
  <2>7. UNCHANGED <<data, inbound, issued, engineVars>>
    BY DEF CacheExpire
  <2> QED
    BY <2>6, <2>7 DEF Carried, InboundFrom
<1> QED
  <2> SUFFICES ASSUME NatWellOrdered, IInv, NEW n \in Nodes, TransportStep(n) \/ CacheExpire(n)
               PROVE  Carried
    BY Zenon
  <2>1. CASE RtoTick(n) /\ UNCHANGED engineVars
    BY Zenon, <2>1, <1>RtoCarries
  <2>2. CASE handle_ack_frame(n) /\ UNCHANGED engineVars
    BY Zenon, <2>2, <1>AckCarries
  <2>3. CASE handle_data_frame(n) /\ UNCHANGED engineVars
    BY Zenon, <2>3, <1>ReceiveCarries
  <2>4. CASE CacheExpire(n)
    BY Zenon, <2>4, <1>ExpireCarries
  <2> QED
    BY Zenon, <2>1, <2>2, <2>3, <2>4 DEF TransportStep

\* The network, and a step that changes nothing.
LEMMA NetworkCarries ==
    ASSUME IInv, NetworkStep \/ UNCHANGED vars
    PROVE  Carried
<1>1. /\ sess' = sess /\ issued' = issued /\ inbound' = inbound /\ UNCHANGED engineVars
      /\ InFlight(data)' \subseteq InFlight(data)
  <2>1. \A B, f : f \in InFlight(B) => InFlight(Put(B, {f})) \subseteq InFlight(B)
    BY PutFrames
  <2>2. CASE NetworkStep
    BY ZenonT(90), <2>1, <2>2, TakeFrame
      DEF NetworkStep, LoseData, LoseAck, DuplicateData, DuplicateAck, engineVars
  <2>3. CASE UNCHANGED vars
    BY <2>3 DEF vars, transportVars
  <2> QED
    BY <2>2, <2>3
<1>2. \A m \in Nodes : Keeps(Session1(m)', Session1(m)) /\ CacheFrom(Session1(m)', Session1(m))
  BY ZenonT(60), <1>1 DEF Keeps, CacheFrom, Session1
<1> QED
  BY <1>1, <1>2 DEF Carried, InboundFrom

-----------------------------------------------------------------------------
(* The steps of the callers *)

\* The calls of a node that a step leaves alone.
LEMMA CallsElsewhere ==
    ASSUME NEW m \in Nodes, CallsOf(m), Session1(m)' = Session1(m),
           next_opaque'[m] = next_opaque[m], pending'[m] = pending[m],
           calls'[m] = calls[m], issued'[m] = issued[m]
    PROVE  CallsOf(m)'
BY SMTT(60) DEF CallsOf, Asks

\* The calls of a node as a sequence.
LEMMA CallTypes ==
    ASSUME StableTypes, NEW n \in Nodes
    PROVE  /\ calls[n] \in Seq(Call)
           /\ Len(calls[n]) \in Nat
           /\ DOMAIN calls[n] = 1 .. Len(calls[n])
<1>1. calls[n] \in Seq(Call)
  BY DEF StableTypes, TypeOK
<1> QED
  BY ZenonT(60), <1>1, LenProperties

\* A call that is made keeps the calls and the responses.
LEMMA IssueCalls ==
    \A n \in Nodes :
        /\ IInv /\ CallInv
        /\ IssueFireAndForget(n) \/ IssueRequest(n) \/ RefuseRequest(n)
        => CallInv' /\ (ResponseInv => ResponseInv')
\* Taking an opaque adds a call at its end.
<1>TakenCall.
      ASSUME StableTypes, NEW n \in Nodes, CallsOf(n), NEW id \in Id \cup {NoId},
             NEW status \in Outcome, TakeOpaque(n, id, status)
      PROVE  OtherCalls(n) /\ \E N \in Nat : Grown(n, id, status, N)
  <2> USE <1>TakenCall
  <2>1. PICK N \in Nat : N = Len(calls[n]) /\ DOMAIN calls[n] = 1 .. N /\ calls[n] \in Seq(Call)
    BY SMTT(60), CallTypes
  <2>2. next_opaque[n] = N + 1
    BY Zenon, <2>1 DEF CallsOf
  <2>3. PICK c \in Call : c = [id |-> id, answer |-> NoId, status |-> status]
    BY ZenonT(90) DEF Call
  <2>4. PICK a \in Seq(Call) :
          /\ a = Append(calls[n], c) /\ Len(a) = N + 1 /\ DOMAIN a = 1 .. N + 1
          /\ \A o \in 1 .. N : a[o] = calls[n][o]
          /\ a[N + 1] = c
    <3>1. /\ Append(calls[n], c) \in Seq(Call) /\ Len(Append(calls[n], c)) = N + 1
          /\ DOMAIN Append(calls[n], c) = 1 .. N + 1
          /\ \A o \in 1 .. N : Append(calls[n], c)[o] = calls[n][o]
          /\ Append(calls[n], c)[N + 1] = c
      BY <2>1, Appended
    <3> QED
      BY ZenonT(90), <3>1
  <2>6. DOMAIN calls = Nodes /\ DOMAIN pending = Nodes /\ DOMAIN next_opaque = Nodes
    BY Zenon DEF StableTypes, TypeOK
  <2>7. calls'[n] = a /\ \A m \in Nodes : m # n => calls'[m] = calls[m]
    BY ZenonT(90), <2>3, <2>4, <2>6 DEF TakeOpaque
  <2>8. /\ next_opaque'[n] = N + 2 /\ pending'[n] = pending[n] \cup {N + 1}
        /\ \A m \in Nodes : m # n => next_opaque'[m] = next_opaque[m] /\ pending'[m] = pending[m]
    BY <2>2, <2>6 DEF TakeOpaque
  <2>9. c.id = id /\ c.status = status
    BY SMTT(60), <2>3
  <2> QED
    BY ZenonT(90), <2>1, <2>2, <2>4, <2>7, <2>8, <2>9 DEF Grown, OtherCalls
\* A new call, with the frame it queued or without one.
<1>NewCall.
      ASSUME IInv, CallInv, NEW n \in Nodes, NEW id \in Id \cup {NoId},
             NEW status \in {"Waiting", "Refused"}, TakeOpaque(n, id, status),
             \A k \in DOMAIN issued[n] : k \in DOMAIN issued'[n] /\ issued'[n][k] = issued[n][k],
             id # NoId =>
                 /\ \E k \in DOMAIN issued'[n] :
                        id = <<n, k>> /\ issued'[n][k] \in Requests /\ k \notin DOMAIN issued[n]
                 /\ \E e \in Session1(n)'.retransmit_queue : e.id = id,
             Session1(n)'.state = Session1(n).state,
             Session1(n).retransmit_queue \subseteq Session1(n)'.retransmit_queue,
             \A e \in Session1(n)'.retransmit_queue :
                 \/ e \in Session1(n).retransmit_queue
                 \/ e.opaque = next_opaque[n] /\ e.id = id
      PROVE  CallsOf(n)'
  <2> USE <1>NewCall
  <2>0. PICK N \in Nat : Grown(n, id, status, N)
    <3>1. StableTypes /\ CallsOf(n) /\ status \in Outcome
      BY ZenonT(90) DEF IInv, CallInv, Outcome
    <3> QED
      BY SMTT(60), <3>1, <1>TakenCall
  <2>1. /\ DOMAIN calls[n] = 1 .. N /\ next_opaque[n] = N + 1
        /\ DOMAIN calls'[n] = 1 .. N + 1 /\ Len(calls'[n]) = N + 1
        /\ next_opaque'[n] = N + 2
        /\ pending'[n] = pending[n] \cup {N + 1}
        /\ \A o \in 1 .. N : calls'[n][o] = calls[n][o]
        /\ calls'[n][N + 1].id = id
        /\ calls'[n][N + 1].status = status
    BY SMTT(60), <2>0 DEF Grown
  <2>2. CallsOf(n)
    BY DEF CallInv
  <2>3. \A o : o \in 1 .. N + 1 <=> o \in 1 .. N \/ o = N + 1
    OBVIOUS
  <2>4. N + 1 \notin 1 .. N /\ N + 2 = (N + 1) + 1
    BY SMTT(60)
  <2>5. next_opaque'[n] = Len(calls'[n]) + 1
    BY SMTT(60), <2>1, <2>4
  <2>6. pending'[n] \subseteq DOMAIN calls'[n]
    BY ZenonT(90), <2>1, <2>2, <2>3 DEF CallsOf
  <2>7. \A o \in pending'[n] : calls'[n][o].status \in {"Waiting", "Refused"}
    BY ZenonT(90), <2>1, <2>2 DEF CallsOf
  <2>8. \A o \in DOMAIN calls'[n] : calls'[n][o].id # NoId =>
          \E k \in DOMAIN issued'[n] : calls'[n][o].id = <<n, k>> /\ issued'[n][k] \in Requests
    <3> SUFFICES ASSUME NEW o \in DOMAIN calls'[n], calls'[n][o].id # NoId
                 PROVE  \E k \in DOMAIN issued'[n] :
                            calls'[n][o].id = <<n, k>> /\ issued'[n][k] \in Requests
      BY Zenon
    <3>1. CASE o = N + 1
      BY ZenonT(90), <2>1, <3>1
    <3>2. CASE o \in DOMAIN calls[n]
      <4>1. calls'[n][o] = calls[n][o]
        BY ZenonT(60), <2>1, <3>2
      <4>2. PICK k \in DOMAIN issued[n] : calls[n][o].id = <<n, k>> /\ issued[n][k] \in Requests
        BY SMTT(60), <3>2, <4>1, CallId
      <4> QED
        BY ZenonT(60), <4>1, <4>2
    <3> QED
      BY ZenonT(90), <2>1, <2>3, <3>1, <3>2
  <2>9. ASSUME NEW o \in 1 .. N, calls[n][o].id = id, id # NoId
        PROVE  FALSE
    <3>0. o \in DOMAIN calls[n] /\ calls[n][o].id # NoId
      BY SMTT(60), <2>1, <2>9
    <3>1. PICK k \in DOMAIN issued[n] : calls[n][o].id = <<n, k>>
      BY ZenonT(90), <3>0, CallId
    <3>2. PICK j : id = <<n, j>> /\ j \notin DOMAIN issued[n]
      BY ZenonT(60), <2>9
    <3>3. <<n, k>> = <<n, j>>
      BY Zenon, <2>9, <3>1, <3>2
    <3>4. k = j
      BY <3>3
    <3> QED
      BY Zenon, <3>1, <3>2, <3>4
  <2>10. ASSUME NEW o \in 1 .. N + 1, NEW p \in 1 .. N + 1,
                calls'[n][o].id = calls'[n][p].id, calls'[n][o].id # NoId
         PROVE  o = p
    <3>1. CASE o \in 1 .. N /\ p \in 1 .. N
      <4>1. calls[n][o].id = calls[n][p].id /\ calls[n][o].id # NoId
        BY ZenonT(90), <2>1, <2>10, <3>1
      <4>2. \A x, y \in DOMAIN calls[n] :
              calls[n][x].id = calls[n][y].id /\ calls[n][x].id # NoId => x = y
        BY ZenonT(90), <2>2 DEF CallsOf
      <4> QED
        BY ZenonT(90), <2>1, <3>1, <4>1, <4>2
    <3>2. CASE o = N + 1 /\ p \in 1 .. N
      BY ZenonT(60), <2>1, <2>9, <2>10, <3>2
    <3>3. CASE o \in 1 .. N /\ p = N + 1
      BY ZenonT(60), <2>1, <2>9, <2>10, <3>3
    <3> QED
      BY ZenonT(60), <2>3, <3>1, <3>2, <3>3
  <2>11. ASSUME NEW e \in Session1(n)'.retransmit_queue, e.verb \in Requests
         PROVE  Asks(n, e.opaque, e.id)'
    <3>1. CASE e \in Session1(n).retransmit_queue
      <4>1. Asks(n, e.opaque, e.id)
        BY ZenonT(90), <2>2, <2>11, <3>1 DEF CallsOf
      <4> QED
        BY SMTT(60), <2>1, <2>3, <4>1 DEF Asks
    <3>2. CASE e.opaque = N + 1 /\ e.id = id
      BY ZenonT(60), <2>1, <2>3, <3>2 DEF Asks
    <3> QED
      BY ZenonT(60), <2>1, <3>1, <3>2
  <2>12. ASSUME Session1(n)'.state = "Active", NEW o \in 1 .. N + 1
         PROVE  \/ calls'[n][o].id = NoId
                \/ \E e \in Session1(n)'.retransmit_queue : e.id = calls'[n][o].id
                \/ calls'[n][o].status \in {"Ok", "Refused"} /\ o \notin pending'[n]
    <3>1. CASE o = N + 1
      BY ZenonT(60), <2>1, <3>1
    <3>2. CASE o \in 1 .. N
      <4>1. \/ calls[n][o].id = NoId
            \/ \E e \in Session1(n).retransmit_queue : e.id = calls[n][o].id
            \/ calls[n][o].status \in {"Ok", "Refused"} /\ o \notin pending[n]
        BY ZenonT(90), <2>1, <2>2, <2>12, <3>2 DEF CallsOf
      <4>2. o # N + 1 /\ calls'[n][o] = calls[n][o]
        BY ZenonT(60), <2>1, <2>4, <3>2
      <4> QED
        BY SMTT(60), <2>1, <4>1, <4>2
    <3> QED
      BY ZenonT(60), <2>3, <3>1, <3>2
  <2> QED
    BY ZenonT(90), <2>1, <2>5, <2>6, <2>7, <2>8, <2>10, <2>11, <2>12 DEF CallsOf
\* What send queues and sends.
<1>SendQueues.
      ASSUME IInv, NEW n \in Nodes, NEW verb \in FireAndForget \cup Requests,
             NEW opaque \in Nat, NEW taken \in BOOLEAN, send(n, verb, opaque, taken)
      PROVE  \E t \in Session, e \in Entry : Queues(n, verb, opaque, t, e)
  <2> USE <1>SendQueues
  <2>1. PICK N \in Nat : N = Len(issued[n]) /\ DOMAIN issued[n] = 1 .. N
    BY IssuedTypes DEF IInv
  <2>2. PICK s \in Session :
          /\ CurrentSession(n) = s /\ Session1(n) = s
          /\ \A t : Update(n, t) = [sess EXCEPT ![n][1] = t]
    BY Current DEF IInv
  <2>3. s.next_seq = N + 1
    BY <2>1, <2>2 DEF IInv, QueueInv
  <2>4. PICK id \in Id : id = <<n, N + 1>> /\ id = NextId(n)
    <3>1. N + 1 \in Nat
      OBVIOUS
    <3> QED
      BY ZenonT(90), <2>1, <3>1 DEF NextId, Id
  <2>5. PICK e \in Entry :
          /\ e = [seq |-> s.next_seq, verb |-> verb, opaque |-> opaque, id |-> id,
                  retry_count |-> 0]
          /\ e.seq = N + 1 /\ e.id = id /\ e.verb = verb /\ e.opaque = opaque
    <3>1. [seq |-> N + 1, verb |-> verb, opaque |-> opaque, id |-> id,
           retry_count |-> 0] \in Entry
      BY DEF Entry
    <3> QED
      BY <2>3, <3>1
  <2>6. EntryFrame(n, e) = [src |-> n, seq |-> s.next_seq, verb |-> verb, opaque |-> opaque,
                            id |-> id, err |-> FALSE]
    BY <2>3, <2>5 DEF EntryFrame
  <2>7. /\ s.available_credits > 0 /\ N < MaxSends[n]
        /\ sess' = [sess EXCEPT ![n][1] = assign_seq(consume_credit(s), verb, opaque, id)]
        /\ issued' = [issued EXCEPT ![n] = Append(@, verb)]
        /\ data' = data \/ data' = Put(data, {EntryFrame(n, e)})
    BY ZenonT(90), <2>1, <2>2, <2>4, <2>6 DEF send, CanSend
  <2>8. PICK t \in Session :
          /\ t = assign_seq(consume_credit(s), verb, opaque, id)
          /\ t.state = s.state
          /\ t.retransmit_queue = s.retransmit_queue \cup {e}
    BY SMTT(60), <2>5, <2>7, AssignSeq
  <2>9. t.read_cache = s.read_cache
    <3>1. assign_seq(consume_credit(s), verb, opaque, id).read_cache = s.read_cache
      BY SMTT(60), CacheUnsent
    <3> QED
      BY Zenon, <2>8, <3>1
  <2>10. PICK h :
          /\ issued' = h /\ Continues(h)
          /\ Len(h[n]) = N + 1 /\ h[n][N + 1] = verb
          /\ \A m \in Nodes : m # n => h[m] = issued[m]
    <3>1. StableTypes /\ Len(issued[n]) < MaxSends[n]
      BY <2>1, <2>7 DEF IInv
    <3> QED
      BY <2>1, <2>7, <3>1, SendHistory
  <2>11. DOMAIN h[n] = 1 .. N + 1
    <3>1. h[n] \in Seq(FireAndForget \cup Requests)
      BY <2>10 DEF Continues
    <3> QED
      BY ZenonT(90), <2>10, <3>1, LenProperties
  <2>12. \A g \in InFlight(data)' : g \in InFlight(data) \/ g = EntryFrame(n, e)
    BY SMTT(60), <2>7, PutFrames
  <2>13. Session1(n)' = t /\ \A m \in Nodes : m # n => Session1(m)' = Session1(m)
    BY Zenon, <2>7, <2>8, SessionUpdate DEF IInv
  <2>14. \A k \in DOMAIN issued[n] : k \in DOMAIN h[n] /\ h[n][k] = issued[n][k]
    BY ZenonT(90), <2>10 DEF Continues
  <2>15. /\ N + 1 \in 1 .. N + 1 /\ N + 1 \notin 1 .. N /\ N + 1 # 0
         /\ \A k \in 1 .. N + 1 : k \in 1 .. N \/ k = N + 1
    OBVIOUS
  <2>16. \A m \in Nodes : m # n => Session1(m)' = Session1(m) /\ issued'[m] = issued[m]
    BY Zenon, <2>10, <2>13
  <2>17. \E k \in DOMAIN issued'[n] :
           NextId(n) = <<n, k>> /\ issued'[n][k] = verb /\ k \notin DOMAIN issued[n]
    BY ZenonT(60), <2>1, <2>4, <2>10, <2>11, <2>15
  <2>18. /\ \A k \in DOMAIN issued[n] : k \in DOMAIN issued'[n] /\ issued'[n][k] = issued[n][k]
         /\ \A k \in DOMAIN issued'[n] : k \in DOMAIN issued[n] \/ issued'[n][k] = verb
    BY ZenonT(60), <2>1, <2>10, <2>11, <2>14, <2>15
  <2>19. e.id = NextId(n) /\ NextId(n) \in Id /\ e.seq # 0
    BY Zenon, <2>4, <2>5, <2>15
  <2>20. /\ Session1(n)' = t /\ t.state = Session1(n).state
         /\ t.read_cache = Session1(n).read_cache
         /\ t.retransmit_queue = Session1(n).retransmit_queue \cup {e}
    BY Zenon, <2>2, <2>8, <2>9, <2>13
  <2>21. Queues(n, verb, opaque, t, e)
    BY Zenon, <2>5, <2>12, <2>16, <2>17, <2>18, <2>19, <2>20 DEF Queues
  <2> QED
    BY Zenon, <2>21
\* A write or send that is queued leaves the calls alone.
<1>FireAndForgetCalls.
      ASSUME IInv, CallInv, NEW n \in Nodes, IssueFireAndForget(n)
      PROVE  CallInv' /\ (ResponseInv => ResponseInv')
  <2> USE <1>FireAndForgetCalls
  <2>1. PICK verb \in Verbs \cap FireAndForget, taken \in BOOLEAN : send(n, verb, 0, taken)
    BY DEF IssueFireAndForget
  <2>2. UNCHANGED <<inbound, next_opaque, pending, calls, exec>>
    BY DEF IssueFireAndForget, engineVars
  <2>3. PICK t \in Session, e \in Entry : Queues(n, verb, 0, t, e)
    BY ZenonT(60), <2>1, <1>SendQueues
  <2>4. CallsOf(n)'
    <3>1. CallsOf(n)
      BY DEF CallInv
    <3>2. e.verb \notin Requests
      BY Zenon, <2>3 DEF Queues, Requests, FireAndForget
    <3>3. \A d \in t.retransmit_queue : d.verb \in Requests => Asks(n, d.opaque, d.id)
      BY ZenonT(90), <2>3, <3>1, <3>2 DEF Queues, CallsOf
    <3>4. /\ Session1(n)' = t /\ t.state = Session1(n).state
          /\ Session1(n).retransmit_queue \subseteq t.retransmit_queue
          /\ \A k \in DOMAIN issued[n] : k \in DOMAIN issued'[n] /\ issued'[n][k] = issued[n][k]
      BY ZenonT(60), <2>3 DEF Queues
    <3> QED
      BY ZenonT(60), <2>2, <3>1, <3>3, <3>4 DEF CallsOf, Asks
  <2>5. CallInv'
    BY ZenonT(90), <2>2, <2>3, <2>4, CallsElsewhere DEF Queues, CallInv
  <2>6. ASSUME ResponseInv PROVE ResponseInv'
    <3>1. Forward
      BY ZenonT(90), <2>2, <2>3 DEF Queues, Forward
    <3>2. Sound(EntryFrame(n, e))'
      <4>1. EntryFrame(n, e).verb = verb
        BY ZenonT(90), <2>3 DEF Queues, EntryFrame
      <4> QED
        BY SMTT(60), <4>1 DEF Sound, Requests, FireAndForget, Responses
    <3>3. \A g \in InFlight(data)' : g \in InFlight(data) \/ Sound(g)'
      BY ZenonT(90), <2>3, <3>2 DEF Queues
    <3>4. \A m \in Nodes : \A k \in DOMAIN issued'[m] : issued'[m][k] \in Verbs
      BY ZenonT(90), <2>3, <2>6 DEF Queues, ResponseInv
    <3>5. \A m \in Nodes : Session1(m)'.read_cache = Session1(m).read_cache
      BY ZenonT(90), <2>3 DEF Queues
    <3> QED
      BY ZenonT(60), <2>2, <2>6, <3>1, <3>3, <3>4, <3>5, ResponseStep DEF InboundFrom
  <2> QED
    BY <2>5, <2>6
\* A request that is queued is a call of its own.
<1>RequestCalls.
      ASSUME IInv, CallInv, NEW n \in Nodes, IssueRequest(n)
      PROVE  CallInv' /\ (ResponseInv => ResponseInv')
  <2> USE <1>RequestCalls
  <2>1. PICK verb \in Verbs \cap Requests, taken \in BOOLEAN, status \in {"Waiting", "Refused"} :
          send(n, verb, next_opaque[n], taken) /\ TakeOpaque(n, NextId(n), status)
    <3>1. PICK verb \in Verbs \cap Requests, taken \in BOOLEAN :
            /\ send(n, verb, next_opaque[n], taken)
            /\ TakeOpaque(n, NextId(n), IF taken THEN "Waiting" ELSE "Refused")
      BY DEF IssueRequest
    <3>2. (IF taken THEN "Waiting" ELSE "Refused") \in {"Waiting", "Refused"}
      BY SMTT(60)
    <3> QED
      BY <3>1, <3>2
  <2>2. UNCHANGED <<inbound, exec>> /\ next_opaque[n] \in Nat
    BY Zenon DEF IssueRequest, IInv, StableTypes, TypeOK
  <2>0. PICK t \in Session, e \in Entry : Queues(n, verb, next_opaque[n], t, e)
    <3>1. verb \in FireAndForget \cup Requests
      OBVIOUS
    <3> QED
      BY <2>1, <2>2, <3>1, <1>SendQueues
  <2>3. /\ Session1(n)' = t
        /\ \A m \in Nodes : m # n => Session1(m)' = Session1(m) /\ issued'[m] = issued[m]
        /\ t.state = Session1(n).state
        /\ t.read_cache = Session1(n).read_cache
        /\ t.retransmit_queue = Session1(n).retransmit_queue \cup {e}
        /\ e.verb = verb /\ e.opaque = next_opaque[n] /\ e.id = NextId(n) /\ e.seq # 0
        /\ \A g \in InFlight(data)' : g \in InFlight(data) \/ g = EntryFrame(n, e)
        /\ NextId(n) \in Id
        /\ \E k \in DOMAIN issued'[n] :
             NextId(n) = <<n, k>> /\ issued'[n][k] = verb /\ k \notin DOMAIN issued[n]
        /\ \A k \in DOMAIN issued[n] : k \in DOMAIN issued'[n] /\ issued'[n][k] = issued[n][k]
        /\ \A k \in DOMAIN issued'[n] : k \in DOMAIN issued[n] \/ issued'[n][k] = verb
    BY ZenonT(90), <2>0 DEF Queues
  <2>4. CallsOf(n)'
    <3>1. PICK id \in Id \cup {NoId} : id = NextId(n)
      BY ZenonT(90), <2>3
    <3>2. /\ \E k \in DOMAIN issued'[n] :
               id = <<n, k>> /\ issued'[n][k] \in Requests /\ k \notin DOMAIN issued[n]
          /\ \E d \in Session1(n)'.retransmit_queue : d.id = id
      BY ZenonT(90), <2>3, <3>1
    <3>3. /\ Session1(n)'.state = Session1(n).state
          /\ Session1(n).retransmit_queue \subseteq Session1(n)'.retransmit_queue
          /\ \A d \in Session1(n)'.retransmit_queue :
               \/ d \in Session1(n).retransmit_queue
               \/ d.opaque = next_opaque[n] /\ d.id = id
          /\ \A k \in DOMAIN issued[n] : k \in DOMAIN issued'[n] /\ issued'[n][k] = issued[n][k]
      BY Zenon, <2>3, <3>1
    <3> QED
      BY ZenonT(90), <2>1, <3>1, <3>2, <3>3, <1>NewCall
  <2>5. /\ \A m \in Nodes : m # n =>
             /\ next_opaque'[m] = next_opaque[m] /\ pending'[m] = pending[m]
             /\ calls'[m] = calls[m]
        /\ \A o \in DOMAIN calls[n] : o \in DOMAIN calls'[n] /\ calls'[n][o] = calls[n][o]
        /\ \A o \in DOMAIN calls'[n] : o \in DOMAIN calls[n] \/ calls'[n][o].status = status
        /\ next_opaque[n] \in DOMAIN calls'[n] /\ calls'[n][next_opaque[n]].id = NextId(n)
    <3>1. StableTypes /\ CallsOf(n) /\ status \in Outcome /\ NextId(n) \in Id \cup {NoId}
      BY Zenon, <2>3 DEF IInv, CallInv, Outcome
    <3>2. PICK id \in Id \cup {NoId} : id = NextId(n)
      BY <3>1
    <3>3. OtherCalls(n) /\ \E N \in Nat : Grown(n, id, status, N)
      BY ZenonT(90), <2>1, <3>1, <3>2, <1>TakenCall
    <3>4. PICK N \in Nat : Grown(n, id, status, N)
      BY <3>3
    <3>5. /\ N + 1 \in 1 .. N + 1 /\ \A o \in 1 .. N : o \in 1 .. N + 1
          /\ \A o \in 1 .. N + 1 : o \in 1 .. N \/ o = N + 1
      BY SMTT(60)
    <3> QED
      BY ZenonT(90), <3>2, <3>3, <3>4, <3>5 DEF Grown, OtherCalls
  <2>6. CallInv'
    BY ZenonT(90), <2>3, <2>4, <2>5, CallsElsewhere DEF CallInv
  <2>7. ASSUME ResponseInv PROVE ResponseInv'
    <3>1. Forward
      BY ZenonT(60), <2>2, <2>3, <2>5 DEF Forward
    <3>2. Sound(EntryFrame(n, e))'
      <4>0. PICK g : g = EntryFrame(n, e)
        OBVIOUS
      <4>1. /\ g.src = n /\ g.seq = e.seq /\ g.verb = verb
            /\ g.opaque = e.opaque /\ g.id = e.id
        <5>1. /\ EntryFrame(n, e).src = n /\ EntryFrame(n, e).seq = e.seq
              /\ EntryFrame(n, e).verb = e.verb /\ EntryFrame(n, e).opaque = e.opaque
              /\ EntryFrame(n, e).id = e.id
          BY SMTT(60) DEF EntryFrame
        <5> QED
          BY ZenonT(90), <2>3, <4>0, <5>1
      <4>2. Asks(n, e.opaque, e.id)'
        BY ZenonT(90), <2>3, <2>5 DEF Asks
      <4>3. g.verb \notin Responses /\ g.seq # 0
        BY ZenonT(60), <2>3, <4>1 DEF Requests, Responses
      <4>4. Sound(g)'
        BY ZenonT(60), <4>1, <4>2, <4>3 DEF Sound
      <4> QED
        BY <4>0, <4>4
    <3>3. \A g \in InFlight(data)' : g \in InFlight(data) \/ Sound(g)'
      <4>1. \A g \in InFlight(data)' : g \in InFlight(data) \/ g = EntryFrame(n, e)
        BY Zenon, <2>3
      <4> QED
        BY Zenon, <3>2, <4>1
    <3>4. \A m \in Nodes : \A k \in DOMAIN issued'[m] : issued'[m][k] \in Verbs
      BY ZenonT(90), <2>3, <2>7 DEF ResponseInv
    <3>5. \A m \in Nodes : Session1(m)'.read_cache = Session1(m).read_cache
      BY ZenonT(90), <2>3
    <3>6. \A m \in Nodes : \A o \in DOMAIN calls'[m] : calls'[m][o].status = "Ok" =>
            o \in DOMAIN calls[m] /\ calls'[m][o] = calls[m][o]
      BY ZenonT(90), <2>1, <2>5
    <3> QED
      BY ZenonT(90), <2>2, <2>7, <3>1, <3>3, <3>4, <3>5, <3>6, ResponseStep DEF InboundFrom
  <2> QED
    BY <2>6, <2>7
\* A request that is refused is a call without a frame.
<1>RefusedCalls.
      ASSUME IInv, CallInv, NEW n \in Nodes, RefuseRequest(n)
      PROVE  CallInv' /\ (ResponseInv => ResponseInv')
  <2> USE <1>RefusedCalls
  <2>1. PICK id \in Id \cup {NoId} : id = NoId /\ TakeOpaque(n, id, "Refused")
    BY Zenon DEF RefuseRequest
  <2>2. UNCHANGED <<sess, data, inbound, issued, exec>>
    BY Zenon DEF RefuseRequest, transportVars
  <2>3. \A m : Session1(m)' = Session1(m)
    <3>1. sess' = sess
      BY Zenon, <2>2
    <3> QED
      BY Zenon, <3>1 DEF Session1
  <2>4. CallsOf(n)'
    BY ZenonT(90), <2>1, <2>2, <2>3, <1>NewCall
  <2>5. /\ \A m \in Nodes : m # n =>
             /\ next_opaque'[m] = next_opaque[m] /\ pending'[m] = pending[m]
             /\ calls'[m] = calls[m]
        /\ \A o \in DOMAIN calls[n] : o \in DOMAIN calls'[n] /\ calls'[n][o] = calls[n][o]
        /\ \A o \in DOMAIN calls'[n] : o \in DOMAIN calls[n] \/ calls'[n][o].status = "Refused"
    <3>1. StableTypes /\ CallsOf(n) /\ "Refused" \in Outcome
      BY DEF IInv, CallInv, Outcome
    <3>2. OtherCalls(n) /\ \E N \in Nat : Grown(n, id, "Refused", N)
      BY <2>1, <3>1, <1>TakenCall
    <3>3. PICK N \in Nat : Grown(n, id, "Refused", N)
      BY <3>2
    <3>4. /\ \A o \in 1 .. N : o \in 1 .. N + 1
          /\ \A o \in 1 .. N + 1 : o \in 1 .. N \/ o = N + 1
      OBVIOUS
    <3> QED
      BY ZenonT(90), <3>2, <3>3, <3>4 DEF Grown, OtherCalls
  <2>6. CallInv'
    BY ZenonT(60), <2>2, <2>3, <2>4, <2>5, CallsElsewhere DEF CallInv
  <2>7. ASSUME ResponseInv PROVE ResponseInv'
    <3>1. Forward
      BY ZenonT(90), <2>2, <2>5 DEF Forward
    <3>2. \A m \in Nodes : \A o \in DOMAIN calls'[m] : calls'[m][o].status = "Ok" =>
            o \in DOMAIN calls[m] /\ calls'[m][o] = calls[m][o]
      BY SMTT(60), <2>5
    <3>3. \A m \in Nodes : \A k \in DOMAIN issued'[m] : issued'[m][k] \in Verbs
      BY Zenon, <2>2, <2>7 DEF ResponseInv
    <3> QED
      BY ZenonT(60), <2>2, <2>3, <2>7, <3>1, <3>2, <3>3, ResponseStep DEF InboundFrom
  <2> QED
    BY ZenonT(60), <2>6, <2>7
<1> QED
  <2> SUFFICES ASSUME IInv, CallInv, NEW n \in Nodes,
                      IssueFireAndForget(n) \/ IssueRequest(n) \/ RefuseRequest(n)
               PROVE  CallInv' /\ (ResponseInv => ResponseInv')
    BY Zenon
  <2> QED
    BY Zenon, <1>FireAndForgetCalls, <1>RequestCalls, <1>RefusedCalls

LEMMA CallsAfter ==
    ASSUME StableTypes, NEW n \in Nodes, NEW o \in DOMAIN calls[n], NEW c \in Call,
           calls' = [calls EXCEPT ![n][o] = c]
    PROVE  Changed(n, o, c)
<1>1. calls[n] \in Seq(Call) /\ o \in 1 .. Len(calls[n])
  BY CallTypes
<1>2. PICK a : a = [calls[n] EXCEPT ![o] = c]
  BY ZenonT(90)
<1>3. DOMAIN calls = Nodes
  BY DEF StableTypes, TypeOK
<1>4. calls'[n] = a /\ \A m \in Nodes : m # n => calls'[m] = calls[m]
  BY <1>2, <1>3
<1>5. /\ DOMAIN a = DOMAIN calls[n] /\ a[o] = c
      /\ \A p \in DOMAIN calls[n] : p # o => a[p] = calls[n][p]
  BY <1>2
<1>6. Len(a) = Len(calls[n])
  BY ZenonT(60), <1>1, <1>2, ExceptSeq
<1> QED
  BY <1>4, <1>5, <1>6 DEF Changed

\* A call that is closed: its pending entry goes, and so may its request when
\* it has a result.
LEMMA ClosedCall ==
    ASSUME IInv, CallInv, NEW n \in Nodes, NEW o \in DOMAIN calls[n], NEW c \in Call,
           calls' = [calls EXCEPT ![n][o] = c], c.id = calls[n][o].id,
           calls[n][o].status \in {"Ok", "Refused"} => c.status \in {"Ok", "Refused"},
           pending' = [pending EXCEPT ![n] = @ \ {o}],
           next_opaque' = next_opaque, issued' = issued,
           \A m \in Nodes : m # n => Session1(m)' = Session1(m),
           Session1(n)'.state = Session1(n).state,
           Session1(n)'.retransmit_queue \subseteq Session1(n).retransmit_queue,
           \A e \in Session1(n).retransmit_queue \ Session1(n)'.retransmit_queue :
               e.opaque = o /\ c.status \in {"Ok", "Refused"}
    PROVE  CallInv'
<1>1. /\ DOMAIN calls'[n] = DOMAIN calls[n] /\ Len(calls'[n]) = Len(calls[n])
      /\ calls'[n][o] = c
      /\ \A p \in DOMAIN calls[n] : p # o => calls'[n][p] = calls[n][p]
      /\ \A m \in Nodes : m # n => calls'[m] = calls[m]
  <2>1. StableTypes
    BY DEF IInv
  <2>2. Changed(n, o, c)
    BY ZenonT(90), <2>1, CallsAfter
  <2> QED
    BY <2>2 DEF Changed
<1>2. pending'[n] = pending[n] \ {o} /\ \A m \in Nodes : m # n => pending'[m] = pending[m]
  BY ZenonT(60) DEF IInv, StableTypes, TypeOK
<1>3. \A p \in DOMAIN calls[n] : calls'[n][p].id = calls[n][p].id
  BY <1>1
<1>4. CallsOf(n)
  BY ZenonT(60) DEF CallInv
<1>5. /\ next_opaque'[n] = Len(calls'[n]) + 1
      /\ pending'[n] \subseteq DOMAIN calls'[n]
      /\ \A p \in pending'[n] : calls'[n][p].status \in {"Waiting", "Refused"}
  BY ZenonT(60), <1>1, <1>2, <1>4 DEF CallsOf
<1>6. /\ \A p \in DOMAIN calls'[n] : calls'[n][p].id # NoId =>
           \E k \in DOMAIN issued'[n] : calls'[n][p].id = <<n, k>> /\ issued'[n][k] \in Requests
      /\ \A p, q \in DOMAIN calls'[n] :
           calls'[n][p].id = calls'[n][q].id /\ calls'[n][p].id # NoId => p = q
  BY SMTT(60), <1>1, <1>3, <1>4 DEF CallsOf
<1>7. \A e \in Session1(n)'.retransmit_queue : e.verb \in Requests => Asks(n, e.opaque, e.id)'
  BY ZenonT(60), <1>1, <1>3, <1>4 DEF CallsOf, Asks
<1>8. ASSUME Session1(n)'.state = "Active", NEW p \in DOMAIN calls'[n]
      PROVE  \/ calls'[n][p].id = NoId
             \/ \E e \in Session1(n)'.retransmit_queue : e.id = calls'[n][p].id
             \/ calls'[n][p].status \in {"Ok", "Refused"} /\ p \notin pending'[n]
  <2>0. p \in DOMAIN calls[n] /\ calls'[n][p].id = calls[n][p].id
    BY ZenonT(60), <1>1, <1>3, <1>8
  <2>1. CASE calls[n][p].id = NoId
    BY ZenonT(60), <2>0, <2>1
  <2>2. CASE calls[n][p].status \in {"Ok", "Refused"} /\ p \notin pending[n]
    BY ZenonT(60), <1>1, <1>2, <2>0, <2>2
  <2>3. ASSUME NEW e \in Session1(n).retransmit_queue, e.id = calls[n][p].id
        PROVE  \/ \E d \in Session1(n)'.retransmit_queue : d.id = calls'[n][p].id
               \/ calls'[n][p].status \in {"Ok", "Refused"} /\ p \notin pending'[n]
    <3>1. e.opaque = p
      BY ZenonT(60), <2>0, <2>3, RequestEntry
    <3>2. CASE e \in Session1(n)'.retransmit_queue
      BY ZenonT(60), <2>0, <2>3, <3>2
    <3>3. CASE e \notin Session1(n)'.retransmit_queue
      BY ZenonT(60), <1>1, <1>2, <3>1, <3>3
    <3> QED
      BY ZenonT(60), <3>2, <3>3
  <2> QED
    BY ZenonT(60), <1>4, <1>8, <2>0, <2>1, <2>2, <2>3 DEF CallsOf
<1>9. CallsOf(n)'
  BY ZenonT(60), <1>5, <1>6, <1>7, <1>8 DEF CallsOf
<1>10. \A m \in Nodes : m # n => CallsOf(m)'
  BY ZenonT(60), <1>1, <1>2, CallsElsewhere DEF CallInv
<1> QED
  BY ZenonT(60), <1>9, <1>10 DEF CallInv

\* A call that times out leaves its request queued.
LEMMA TimeoutCalls ==
    ASSUME IInv, CallInv, NEW n \in Nodes, VerbTimeout(n)
    PROVE  CallInv' /\ (ResponseInv => ResponseInv')
<1>1. PICK o \in DOMAIN calls[n] :
        /\ calls[n][o].status = "Waiting"
        /\ pending' = [pending EXCEPT ![n] = @ \ {o}]
        /\ calls' = [calls EXCEPT ![n][o].status = "Timeout"]
        /\ UNCHANGED <<transportVars, next_opaque, exec>>
  BY ZenonT(90) DEF VerbTimeout
<1>2. UNCHANGED <<sess, data, inbound, issued, exec, next_opaque>>
  BY <1>1 DEF transportVars
<1>3. \A m : Session1(m)' = Session1(m)
  BY <1>2 DEF Session1
<1>4. calls[n] \in Seq(Call) /\ calls[n][o] \in Call
  BY CallTypes, ElementOfSeq DEF IInv
<1>5. PICK c \in Call : c = [calls[n][o] EXCEPT !.status = "Timeout"]
  BY ZenonT(90), <1>4 DEF Call, Outcome
<1>6. c.id = calls[n][o].id /\ c.status = "Timeout"
  BY <1>4, <1>5 DEF Call
<1>7. calls' = [calls EXCEPT ![n][o] = c]
  BY <1>1, <1>5
<1>8. CallInv'
  <2>1. \A m \in Nodes : m # n => Session1(m)' = Session1(m)
    BY <1>3
  <2>2. /\ Session1(n)'.state = Session1(n).state
        /\ Session1(n)'.retransmit_queue = Session1(n).retransmit_queue
    BY ZenonT(60), <1>3
  <2>3. /\ Session1(n)'.retransmit_queue \subseteq Session1(n).retransmit_queue
        /\ \A e \in Session1(n).retransmit_queue \ Session1(n)'.retransmit_queue :
             e.opaque = o /\ c.status \in {"Ok", "Refused"}
    BY <2>2
  <2>4. calls[n][o].status \in {"Ok", "Refused"} => c.status \in {"Ok", "Refused"}
    BY SMTT(60), <1>1
  <2> QED
    BY ZenonT(90), <1>1, <1>2, <1>6, <1>7, <2>1, <2>2, <2>3, <2>4, ClosedCall
<1>9. ASSUME ResponseInv PROVE ResponseInv'
  <2>1. /\ DOMAIN calls'[n] = DOMAIN calls[n] /\ calls'[n][o] = c
        /\ \A p \in DOMAIN calls[n] : p # o => calls'[n][p] = calls[n][p]
        /\ \A m \in Nodes : m # n => calls'[m] = calls[m]
    <3>1. StableTypes
      BY DEF IInv
    <3>2. Changed(n, o, c)
      BY ZenonT(90), <1>7, <3>1, CallsAfter
    <3> QED
      BY <3>2 DEF Changed
  <2>2. Forward
    BY ZenonT(60), <1>2, <1>6, <2>1 DEF Forward
  <2>3. \A m \in Nodes : \A p \in DOMAIN calls'[m] : calls'[m][p].status = "Ok" =>
          p \in DOMAIN calls[m] /\ calls'[m][p] = calls[m][p]
    BY SMTT(60), <1>6, <2>1
  <2>4. \A m \in Nodes : \A k \in DOMAIN issued'[m] : issued'[m][k] \in Verbs
    BY ZenonT(90), <1>2, <1>9 DEF ResponseInv
  <2> QED
    BY ZenonT(90), <1>2, <1>3, <1>9, <2>2, <2>3, <2>4, ResponseStep DEF InboundFrom
<1> QED
  BY <1>8, <1>9

-----------------------------------------------------------------------------
(* The steps of the verb engines *)

\* Handling a frame keeps the calls and the responses.
LEMMA VerbCalls ==
    \A n \in Nodes :
        NatWellOrdered /\ IInv /\ CallInv /\ handle_verb_frame(n) =>
            /\ CallInv'
            /\ ("ReadReq" \notin Verbs \/ ~Refusals) /\ ResponseInv => ResponseInv'
\* Nothing is answered.
<1>NoAnswer.
      ASSUME IInv, NEW n \in Nodes, NEW f, UNCHANGED <<data, next_opaque, pending, calls>>,
             NEW t, sess' = [sess EXCEPT ![n][1] = t], SameSender(t, Session1(n)),
             t.read_cache = Session1(n).read_cache
      PROVE  AnswerEffect(n, f, t)
  <2> USE <1>NoAnswer
  <2>1. InFlight(data)' = InFlight(data)
    OBVIOUS
  <2>2. \A c \in t.read_cache : Known(n, f, c.opaque, c.id)
    BY DEF Known
  <2> QED
    BY ZenonT(60), <2>1, <2>2 DEF AnswerEffect
<1>MarkedSession.
      ASSUME NatWellOrdered, IInv, NEW n \in Nodes, NEW f, Arrived(n, f),
             NEW s \in Session, SameSender(s, Session1(n)), SameReceiver(s, Session1(n)),
             sess' = MarkExecuted(n, [sess EXCEPT ![n][1] = s], f.seq)
      PROVE  \E t \in Session : Remarked(n, s, t)
  <2> USE <1>MarkedSession
  <2>1. PICK t \in Session : t = mark_executed(s, f.seq)
    BY Marked
  <2>2. SameSender(t, s) /\ t.read_cache = s.read_cache
    BY ZenonT(60), <2>1, CacheUntouched DEF mark_executed, SameSender, Session
  <2>3. SameSender(t, Session1(n))
    BY <2>2 DEF SameSender
  <2>4. sess \in [Nodes -> [{1} -> Session]] /\ cur[n] = 1 /\ HasSession(n)
    BY Zenon, Current DEF IInv, StableTypes
  <2>5. PICK S : S = [sess EXCEPT ![n][1] = s]
    OBVIOUS
  <2>6. S[n][1] = s
    BY <2>4, <2>5
  <2>7. sess' = [S EXCEPT ![n][1] = t]
    BY ZenonT(90), <2>1, <2>4, <2>5, <2>6 DEF MarkExecuted
  <2>8. sess' = [sess EXCEPT ![n][1] = t]
    BY ZenonT(90), <2>4, <2>5, <2>7
  <2> QED
    BY ZenonT(90), <2>2, <2>3, <2>8 DEF Remarked
\* handle_write, handle_write_imm and handle_send answer nothing.
<1>WriteAnswers.
      ASSUME NatWellOrdered, IInv, NEW n \in Nodes, NEW f, Arrived(n, f),
             HandleWrite(n, f) \/ HandleSend(n, f)
      PROVE  \E t \in Session : AnswerEffect(n, f, t)
  <2> USE <1>WriteAnswers
  <2>1. UNCHANGED <<data, next_opaque, pending, calls>>
    BY DEF HandleWrite, HandleSend
  <2>2. Session1(n) \in Session /\ sess = [sess EXCEPT ![n][1] = Session1(n)]
    BY Sessions
  <2>3. SameSender(Session1(n), Session1(n)) /\ SameReceiver(Session1(n), Session1(n))
    BY DEF SameSender, SameReceiver
  <2>4. CASE sess' = sess
    BY ZenonT(90), <2>1, <2>2, <2>3, <2>4, <1>NoAnswer
  <2>5. CASE sess' = MarkExecuted(n, sess, f.seq)
    <3>1. sess' = MarkExecuted(n, [sess EXCEPT ![n][1] = Session1(n)], f.seq)
      BY ZenonT(60), <2>2, <2>5
    <3>2. PICK t \in Session : Remarked(n, Session1(n), t)
      BY ZenonT(60), <2>2, <2>3, <3>1, <1>MarkedSession
    <3> QED
      BY Zenon, <2>1, <3>2, <1>NoAnswer DEF Remarked
  <2> QED
    BY ZenonT(60), <2>4, <2>5 DEF HandleWrite, HandleSend
\* A response from the cache.
<1>ResendAnswers.
      ASSUME IInv, NEW n \in Nodes, NEW f, Arrived(n, f), f.verb \in Requests, ResendCached(n, f)
      PROVE  \E t \in Session : AnswerEffect(n, f, t)
  <2> USE <1>ResendAnswers
  <2>1. PICK s \in Session :
          /\ s = Session1(n) /\ CurrentSession(n) = s /\ HasSession(n)
          /\ \A t : Update(n, t) = [sess EXCEPT ![n][1] = t]
    BY Current DEF IInv
  <2>2. PICK t \in Session : t = cache_get(s, f.opaque) /\ SameSender(t, s)
    BY ZenonT(60), CacheGet
  <2>3. sess' = [sess EXCEPT ![n][1] = t]
    BY SMTT(60), <2>1, <2>2 DEF ResendCached, ReadCacheGet
  <2>4. t.read_cache = (s.read_cache \ cache_lookup(s, f.opaque))
          \cup {[c EXCEPT !.order = s.next_order] : c \in cache_lookup(s, f.opaque)}
    BY Zenon, <2>2 DEF cache_get, Session
  <2>5. \A c \in s.read_cache : LET d == [c EXCEPT !.order = s.next_order]
                                IN  d.opaque = c.opaque /\ d.id = c.id
    BY ZenonT(60), <2>1 DEF Session, Cached
  <2>6. ASSUME NEW c \in t.read_cache PROVE Known(n, f, c.opaque, c.id)
    <3>1. CASE c \in s.read_cache
      BY ZenonT(60), <2>1, <3>1 DEF Known
    <3>2. CASE c \notin s.read_cache
      <4>1. PICK d \in cache_lookup(s, f.opaque) : c = [d EXCEPT !.order = s.next_order]
        BY <2>4, <3>2
      <4>2. d \in s.read_cache /\ c.opaque = d.opaque /\ c.id = d.id
        BY ZenonT(60), <2>5, <4>1 DEF cache_lookup
      <4> QED
        BY <2>1, <4>2 DEF Known
    <3> QED
      BY ZenonT(60), <3>1, <3>2
  <2>7. \A c \in Hit(n, f.opaque) : c.id \in Id /\ Known(n, f, f.opaque, c.id)
    <3> SUFFICES ASSUME NEW c \in Hit(n, f.opaque)
                 PROVE  c.id \in Id /\ Known(n, f, f.opaque, c.id)
      OBVIOUS
    <3>1. c \in s.read_cache /\ c.opaque = f.opaque
      BY <2>1 DEF Hit, cache_lookup
    <3>2. c.id \in Id
      BY ZenonT(60), <3>1 DEF Session, Cached
    <3> QED
      BY ZenonT(60), <2>1, <3>1, <3>2 DEF Known
  <2>8. InFlight(data)' \subseteq
          InFlight(data) \cup {ResponseFrame(n, f, c.id) : c \in Hit(n, f.opaque)}
    BY SentFrames DEF ResendCached
  <2>9. \A g \in InFlight(data)' :
          \/ g \in InFlight(data)
          \/ \E id \in Id : Known(n, f, f.opaque, id) /\ g = ResponseFrame(n, f, id)
    BY ZenonT(90), <2>7, <2>8
  <2> QED
    BY ZenonT(90), <2>1, <2>2, <2>3, <2>6, <2>9 DEF AnswerEffect, ResendCached, engineVars
\* A fresh response is cached and sent.
<1>FreshAnswers.
      ASSUME IInv, NEW n \in Nodes, NEW f, Arrived(n, f), f.verb \in Requests,
             f.verb # "ReadReq" => ~f.err /\ Count(n, f)
      PROVE  \E t \in Session :
                 /\ ReadCacheInsert(n, f.opaque, f.id) = [sess EXCEPT ![n][1] = t]
                 /\ SameSender(t, Session1(n)) /\ SameReceiver(t, Session1(n))
                 /\ \A c \in t.read_cache : Known(n, f, c.opaque, c.id)
  <2> USE <1>FreshAnswers
  <2>1. PICK s \in Session :
          /\ s = Session1(n) /\ CurrentSession(n) = s /\ HasSession(n)
          /\ \A t : Update(n, t) = [sess EXCEPT ![n][1] = t]
    BY Current DEF IInv
  <2>2. f.opaque \in Nat /\ f.id \in Id
    BY DEF Arrived, DataFrame
  <2>3. PICK t \in Session :
          /\ t = cache_insert(s, f.opaque, f.id)
          /\ SameSender(t, s) /\ SameReceiver(t, s)
    BY <2>2, CacheInsert
  <2>4. PICK x : x = [opaque |-> f.opaque, id |-> f.id, order |-> s.next_order]
    BY Zenon
  <2>5. \A c \in t.read_cache : c \in s.read_cache \/ c = x
    BY ZenonT(90), <2>3, <2>4 DEF cache_insert, Session
  <2>6. ASSUME NEW c \in t.read_cache PROVE Known(n, f, c.opaque, c.id)
    <3>1. CASE c \in s.read_cache
      BY ZenonT(60), <2>1, <3>1 DEF Known
    <3>2. CASE c = x
      <4>1. c.opaque = f.opaque /\ c.id = f.id
        BY ZenonT(60), <2>4, <3>2
      <4> QED
        BY ZenonT(60), <4>1 DEF Known
    <3> QED
      BY ZenonT(60), <2>5, <3>1, <3>2
  <2> QED
    BY ZenonT(90), <2>1, <2>3, <2>6 DEF ReadCacheInsert
\* The frame of a fresh response, and that of a refusal.
<1>SentAnswers.
      ASSUME IInv, NEW n \in Nodes, NEW f, Arrived(n, f), f.verb \in Requests,
             \/ /\ f.verb # "ReadReq" => ~f.err /\ Count(n, f)
                /\ data' = SentToPeer(n, {ResponseFrame(n, f, f.id)})
             \/ Refusals /\ data' = SentToPeer(n, {ErrorFrame(n, f)})
      PROVE  \A g \in InFlight(data)' :
                 \/ g \in InFlight(data)
                 \/ f.verb \in Requests /\ Refusals /\ g = ErrorFrame(n, f)
                 \/ \E id \in Id : /\ f.verb \in Requests
                                   /\ Known(n, f, f.opaque, id)
                                   /\ g = ResponseFrame(n, f, id)
  <2> USE <1>SentAnswers
  <2>1. f.id \in Id
    BY ZenonT(60) DEF Arrived, DataFrame
  <2>2. CASE /\ f.verb # "ReadReq" => ~f.err /\ Count(n, f)
             /\ data' = SentToPeer(n, {ResponseFrame(n, f, f.id)})
    <3>1. Known(n, f, f.opaque, f.id)
      BY ZenonT(60), <2>2 DEF Known
    <3>2. \A g \in InFlight(data)' : g \in InFlight(data) \/ g = ResponseFrame(n, f, f.id)
      BY <2>2, SentFrames
    <3> QED
      BY ZenonT(60), <2>1, <3>1, <3>2
  <2>3. CASE Refusals /\ data' = SentToPeer(n, {ErrorFrame(n, f)})
    <3>1. \A g \in InFlight(data)' : g \in InFlight(data) \/ g = ErrorFrame(n, f)
      BY <2>3, SentFrames
    <3> QED
      BY ZenonT(60), <2>3, <3>1
  <2> QED
    BY ZenonT(60), <2>2, <2>3
\* handle_read_req.
<1>ReadAnswers.
      ASSUME IInv, NEW n \in Nodes, NEW f, Arrived(n, f), HandleRead(n, f)
      PROVE  \E t \in Session : AnswerEffect(n, f, t)
  <2> USE <1>ReadAnswers
  <2>1. f.verb \in Requests /\ f.verb = "ReadReq"
    BY DEF HandleRead, Requests
  <2>2. CASE ResendCached(n, f)
    BY <2>1, <2>2, <1>ResendAnswers
  <2>3. CASE /\ sess' = ReadCacheInsert(n, f.opaque, f.id)
             /\ data' = SentToPeer(n, {ResponseFrame(n, f, f.id)})
             /\ UNCHANGED <<next_opaque, pending, calls>>
    <3>1. PICK t \in Session :
            /\ sess' = [sess EXCEPT ![n][1] = t]
            /\ SameSender(t, Session1(n))
            /\ \A c \in t.read_cache : Known(n, f, c.opaque, c.id)
      BY ZenonT(90), <2>1, <2>3, <1>FreshAnswers
    <3> QED
      BY ZenonT(90), <2>1, <2>3, <3>1, <1>SentAnswers DEF AnswerEffect
  <2>4. CASE /\ Refusals
             /\ data' = SentToPeer(n, {ErrorFrame(n, f)})
             /\ UNCHANGED <<sess, engineVars>>
    <3>1. /\ Session1(n) \in Session /\ sess' = [sess EXCEPT ![n][1] = Session1(n)]
          /\ UNCHANGED <<next_opaque, pending, calls>>
      BY <2>4, Sessions DEF engineVars
    <3>2. SameSender(Session1(n), Session1(n))
      BY ZenonT(60) DEF SameSender
    <3>3. \A c \in Session1(n).read_cache : Known(n, f, c.opaque, c.id)
      BY DEF Known
    <3> QED
      BY ZenonT(90), <2>1, <2>4, <3>1, <3>2, <3>3, <1>SentAnswers DEF AnswerEffect
  <2> QED
    BY ZenonT(60), <2>2, <2>3, <2>4 DEF HandleRead
\* handle_atomic_cas and handle_atomic_faa.
<1>AtomicAnswers.
      ASSUME NatWellOrdered, IInv, NEW n \in Nodes, NEW f, Arrived(n, f), HandleAtomic(n, f)
      PROVE  \E t \in Session : AnswerEffect(n, f, t)
  <2> USE <1>AtomicAnswers
  <2>1. f.verb \in Requests
    BY ZenonT(60) DEF HandleAtomic, Requests
  <2>2. CASE Executed(n, f.seq)
    BY ZenonT(60), <2>1, <2>2, <1>ResendAnswers DEF HandleAtomic
  <2>3. CASE ~Executed(n, f.seq)
    <3>1. UNCHANGED <<next_opaque, pending, calls>>
      BY <2>3 DEF HandleAtomic
    <3>2. ASSUME ~f.err,
                 sess' = MarkExecuted(n, ReadCacheInsert(n, f.opaque, f.id), f.seq),
                 data' = SentToPeer(n, {ResponseFrame(n, f, f.id)}),
                 Count(n, f)
          PROVE  \E t \in Session : AnswerEffect(n, f, t)
      <4>1. PICK s \in Session :
              /\ ReadCacheInsert(n, f.opaque, f.id) = [sess EXCEPT ![n][1] = s]
              /\ SameSender(s, Session1(n)) /\ SameReceiver(s, Session1(n))
              /\ \A c \in s.read_cache : Known(n, f, c.opaque, c.id)
        BY ZenonT(90), <2>1, <3>2, <1>FreshAnswers
      <4>2. sess' = MarkExecuted(n, [sess EXCEPT ![n][1] = s], f.seq)
        BY ZenonT(60), <3>2, <4>1
      <4>3. PICK t \in Session : Remarked(n, s, t)
        BY ZenonT(60), <4>1, <4>2, <1>MarkedSession
      <4> QED
        BY ZenonT(90), <2>1, <3>1, <3>2, <4>1, <4>3, <1>SentAnswers DEF AnswerEffect, Remarked
    <3>3. ASSUME Refusals, sess' = MarkExecuted(n, sess, f.seq),
                 data' = SentToPeer(n, {ErrorFrame(n, f)})
          PROVE  \E t \in Session : AnswerEffect(n, f, t)
      <4>1. /\ Session1(n) \in Session /\ sess = [sess EXCEPT ![n][1] = Session1(n)]
            /\ SameSender(Session1(n), Session1(n)) /\ SameReceiver(Session1(n), Session1(n))
        BY ZenonT(60), Sessions DEF SameSender, SameReceiver
      <4>2. sess' = MarkExecuted(n, [sess EXCEPT ![n][1] = Session1(n)], f.seq)
        BY ZenonT(60), <3>3, <4>1
      <4>3. PICK t \in Session : Remarked(n, Session1(n), t)
        BY ZenonT(60), <4>1, <4>2, <1>MarkedSession
      <4>4. \A c \in t.read_cache : Known(n, f, c.opaque, c.id)
        BY ZenonT(60), <4>3 DEF Remarked, Known
      <4> QED
        BY ZenonT(90), <2>1, <3>1, <3>3, <4>3, <4>4, <1>SentAnswers DEF AnswerEffect, Remarked
    <3> QED
      BY ZenonT(60), <2>3, <3>2, <3>3 DEF HandleAtomic
  <2> QED
    BY ZenonT(60), <2>2, <2>3
\* Handling a frame undoes no execution.
<1>ExecForward.
      ASSUME IInv, NEW n \in Nodes, NEW f, exec' = exec \/ Count(n, f), issued' = issued,
             \A m \in Nodes : \A o \in DOMAIN calls[m] :
                 o \in DOMAIN calls'[m] /\ calls'[m][o].id = calls[m][o].id
      PROVE  Forward
  <2> USE <1>ExecForward
  <2>1. ASSUME NEW m \in Nodes, NEW k \in DOMAIN issued[m], exec[Peer(m)][k] >= 1
        PROVE  exec'[Peer(m)][k] >= 1
    <3>1. PICK p \in Nodes : p = Peer(m) /\ Peer(p) = m
      BY ZenonT(60), Peers
    <3>2. k \in DOMAIN exec[p] /\ exec[p][k] \in Nat
      BY ZenonT(60), <3>1, ExecNat DEF IInv
    <3>3. exec'[p][k] = exec[p][k] \/ exec'[p][k] = exec[p][k] + 1
      <4>1. DOMAIN exec = Nodes
        BY ZenonT(90) DEF IInv, StableTypes, TypeOK
      <4> QED
        BY SMTT(60), <3>2, <4>1 DEF Count
    <3> QED
      BY SMTT(60), <2>1, <3>1, <3>2, <3>3
  <2> QED
    BY ZenonT(60), <2>1 DEF Forward
\* The rest of the queue was there before.
<1>InboundTail.
      ASSUME StableTypes, NEW n \in Nodes, inbound[n] # << >>,
             inbound' = [inbound EXCEPT ![n] = Tail(@)]
      PROVE  InboundFrom
  <2> USE <1>InboundTail
  <2>1. PICK L \in Nat : /\ DOMAIN inbound[n] = 1 .. L + 1
                         /\ DOMAIN inbound'[n] = 1 .. L
                         /\ \A i \in 1 .. L : inbound'[n][i] = inbound[n][i + 1]
    BY ZenonT(90), InboundShrinks
  <2>2. \A i \in 1 .. L : i + 1 \in 1 .. L + 1
    OBVIOUS
  <2>3. \A m \in Nodes : m # n => inbound'[m] = inbound[m]
    BY ZenonT(90), InboundShrinks
  <2>4. \A i \in DOMAIN inbound'[n] : \E j \in DOMAIN inbound[n] : inbound'[n][i] = inbound[n][j]
    BY ZenonT(60), <2>1, <2>2
  <2> QED
    BY <2>3, <2>4 DEF InboundFrom
\* What is answered is the operation of the call, and it was executed.
<1>KnownSound.
      ASSUME IInv, CallInv, ResponseInv, Forward, issued' = issued,
             NEW n \in Nodes, NEW f, Arrived(n, f), Sound(f),
             NEW o, NEW id, Known(n, f, o, id)
      PROVE  CacheSound(n, o, id)'
  <2> USE <1>KnownSound
  <2>1. PICK p \in Nodes : p = Peer(n) /\ Peer(p) = n
    BY SMTT(60), Peers
  <2>2. CASE \E d \in Session1(n).read_cache : o = d.opaque /\ id = d.id
    <3>1. PICK d \in Session1(n).read_cache : o = d.opaque /\ id = d.id
      BY ZenonT(60), <2>2
    <3>2. id # NoId
      BY ZenonT(60), <3>1, Current, IdIsSome DEF IInv, Session, Cached
    <3>3. Asks(p, o, id) /\ Served(p, id)
      BY ZenonT(90), <2>1, <3>1 DEF ResponseInv, CacheSound
    <3> QED
      BY ZenonT(90), <2>1, <3>2, <3>3, AskForward DEF CacheSound
  <2>3. CASE /\ f.verb \in Requests /\ o = f.opaque /\ id = f.id
             /\ f.verb # "ReadReq" => ~f.err /\ Count(n, f)
    <3>1. f.seq # 0 /\ f.src = p /\ id # NoId
      BY ZenonT(90), <2>1, <2>3, ArrivedNumber, IdIsSome DEF Sound, Arrived, DataFrame
    <3>2. Asks(p, o, id)
      BY ZenonT(60), <2>3, <3>1 DEF Sound
    <3>3. /\ f.seq \in DOMAIN issued[p] /\ f.verb = issued[p][f.seq] /\ id[2] = f.seq
      BY ZenonT(60), <2>1, <2>3, <3>1, ArrivedNumber
    <3>4. f.verb # "ReadReq" => exec'[n][f.seq] >= 1
      <4> SUFFICES ASSUME f.verb # "ReadReq" PROVE exec'[n][f.seq] >= 1
        BY ZenonT(60)
      <4>1. f.seq \in DOMAIN exec[n] /\ exec[n][f.seq] \in Nat /\ DOMAIN exec = Nodes
        BY ZenonT(60), <2>1, <3>3, ExecNat DEF IInv, StableTypes
      <4>2. exec' = [exec EXCEPT ![n][f.seq] = @ + 1]
        BY ZenonT(60), <2>3, <3>3 DEF Count
      <4>3. exec'[n][f.seq] = exec[n][f.seq] + 1
        BY SMTT(60), <4>1, <4>2
      <4> QED
        BY SMTT(60), <4>1, <4>3
    <3>5. Served(p, id)'
      BY ZenonT(90), <2>1, <3>3, <3>4 DEF Served
    <3>6. Asks(p, o, id)'
      BY SMTT(60), <3>1, <3>2, AskForward
    <3> QED
      BY SMTT(60), <2>1, <3>5, <3>6 DEF CacheSound
  <2> QED
    BY ZenonT(60), <2>2, <2>3 DEF Known
\* The handlers of requests, writes and sends keep the responses sound.
<1>AnswerResponses.
      ASSUME "ReadReq" \notin Verbs \/ ~Refusals,
             IInv, CallInv, ResponseInv, Forward, InboundFrom, issued' = issued,
             NEW n \in Nodes, NEW f, Arrived(n, f), Sound(f),
             NEW t \in Session, AnswerEffect(n, f, t)
      PROVE  ResponseInv'
  <2> USE <1>AnswerResponses
  <2>1. Session1(n)' = t /\ \A m \in Nodes : m # n => Session1(m)' = Session1(m)
    BY Zenon, SessionUpdate DEF IInv, AnswerEffect
  <2>2. \A o, id : Known(n, f, o, id) => CacheSound(n, o, id)'
    BY ZenonT(60), <1>KnownSound
  <2>3. \A m \in Nodes : \A c \in Session1(m)'.read_cache :
          \/ \E d \in Session1(m).read_cache : c.opaque = d.opaque /\ c.id = d.id
          \/ CacheSound(m, c.opaque, c.id)'
    BY ZenonT(60), <2>1, <2>2 DEF AnswerEffect
  <2>4. ASSUME NEW id \in Id, f.verb \in Requests, Known(n, f, f.opaque, id)
        PROVE  Sound(ResponseFrame(n, f, id))'
    <3>0. PICK g : g = ResponseFrame(n, f, id)
      BY ZenonT(60)
    <3>1. /\ g.src = n /\ g.verb = ResponseVerb(f.verb)
          /\ g.opaque = f.opaque /\ g.id = id
      BY <3>0 DEF ResponseFrame
    <3>2. g.verb \notin Requests /\ g.verb # "ReadReq"
      BY ZenonT(60), <2>4, <3>1 DEF ResponseVerb, Requests
    <3>3. Asks(Peer(n), f.opaque, id)' /\ Served(Peer(n), id)'
      BY SMTT(60), <2>2, <2>4 DEF CacheSound
    <3>4. Sound(g)'
      BY ZenonT(90), <3>1, <3>2, <3>3 DEF Sound
    <3> QED
      BY ZenonT(60), <3>0, <3>4
  <2>5. ASSUME f.verb \in Requests, Refusals PROVE Sound(ErrorFrame(n, f))'
    <3>1. f.verb # "ReadReq"
      <4>1. ASSUME f.verb = "ReadReq" PROVE FALSE
        <5>1. f.seq # 0
          BY ZenonT(60), <4>1 DEF Sound
        <5>2. f.seq \in DOMAIN issued[Peer(n)] /\ issued[Peer(n)][f.seq] = "ReadReq"
          BY ZenonT(60), <4>1, <5>1, ArrivedNumber
        <5>3. "ReadReq" \in Verbs
          BY SMTT(60), <5>2, Peers DEF ResponseInv
        <5> QED
          BY ZenonT(60), <2>5, <5>3
      <4> QED
        BY <4>1
    <3>0. PICK g : g = ErrorFrame(n, f)
      BY ZenonT(60)
    <3>2. g.seq = 0 /\ g.verb = f.verb
      BY <3>0 DEF ErrorFrame
    <3>3. g.verb \notin Responses
      BY <2>5, <3>2 DEF Requests, Responses
    <3>4. Sound(g)'
      BY ZenonT(90), <3>1, <3>2, <3>3 DEF Sound
    <3> QED
      BY ZenonT(60), <3>0, <3>4
  <2>6. \A g \in InFlight(data)' : g \in InFlight(data) \/ Sound(g)'
    BY ZenonT(60), <2>4, <2>5 DEF AnswerEffect
  <2>7. \A m \in Nodes : \A k \in DOMAIN issued'[m] : issued'[m][k] \in Verbs
    BY Zenon DEF ResponseInv
  <2>8. calls' = calls
    BY ZenonT(60) DEF AnswerEffect
  <2> QED
    BY ZenonT(90), <2>3, <2>6, <2>7, <2>8, ResponseStep
<1>CompletedCall.
      ASSUME IInv, CallInv, NEW n \in Nodes, NEW f, Arrived(n, f),
             complete_pending_request(n, f), f.opaque \in pending[n]
      PROVE  f.opaque \in DOMAIN calls[n] /\ \E c \in Call : Completes(n, f, f.opaque, c)
  <2> USE <1>CompletedCall
  <2>1. /\ f.opaque \in DOMAIN calls[n]
        /\ calls[n][f.opaque].status \in {"Waiting", "Refused"}
    BY ZenonT(60) DEF CallInv, CallsOf
  <2>2. calls[n] \in Seq(Call) /\ calls[n][f.opaque] \in Call /\ calls \in [Nodes -> Seq(Call)]
    BY ZenonT(60), <2>1, CallTypes, ElementOfSeq, EngineTypes DEF IInv
  <2>3. CASE calls[n][f.opaque].status = "Waiting"
    <3>1. PICK c \in Call : c = [calls[n][f.opaque] EXCEPT !.status = "Ok", !.answer = f.id]
      BY ZenonT(90), <2>2 DEF Call, Outcome, Arrived, DataFrame
    <3>2. c.id = calls[n][f.opaque].id /\ c.status = "Ok" /\ c.answer = f.id
      BY ZenonT(60), <2>2, <3>1 DEF Call
    <3>3. calls' = [calls EXCEPT ![n][f.opaque].status = "Ok", ![n][f.opaque].answer = f.id]
      BY <2>3 DEF complete_pending_request
    <3>4. calls' = [calls EXCEPT ![n][f.opaque] = c]
      BY Zenon, <2>1, <2>2, <3>1, <3>3
    <3> QED
      BY Zenon, <2>1, <3>2, <3>4 DEF Completes
  <2>4. CASE calls[n][f.opaque].status = "Refused"
    <3>1. calls' = calls
      BY ZenonT(60), <2>4 DEF complete_pending_request
    <3>2. calls' = [calls EXCEPT ![n][f.opaque] = calls[n][f.opaque]]
      BY <2>1, <2>2, <3>1
    <3> QED
      BY ZenonT(90), <2>1, <2>2, <2>4, <3>2 DEF Completes
  <2> QED
    BY ZenonT(60), <2>1, <2>3, <2>4
\* A response completes the call that asked for it, and nothing else.
<1>CompleteCalls.
      ASSUME IInv, CallInv, NEW n \in Nodes, NEW f, Arrived(n, f),
             complete_pending_request(n, f), issued' = issued
      PROVE  /\ CallInv'
             /\ ResponseInv /\ Sound(f) /\ InboundFrom => ResponseInv'
  <2> USE <1>CompleteCalls
  <2>1. UNCHANGED <<data, next_opaque, exec>> /\ f.verb \in Responses
    BY DEF complete_pending_request
  <2>2. CASE f.opaque \notin pending[n]
    <3>1. UNCHANGED <<pending, calls, sess>>
      BY ZenonT(60), <2>2 DEF complete_pending_request
    <3>2. \A m \in Nodes : Session1(m)' = Session1(m) /\ Keeps(Session1(m)', Session1(m))
      BY ZenonT(60), <3>1 DEF Session1, Keeps
    <3>3. CallInv'
      BY ZenonT(60), <2>1, <3>1, <3>2, KeptCalls
    <3>4. ASSUME ResponseInv, InboundFrom PROVE ResponseInv'
      <4>1. Forward
        BY ZenonT(90), <2>1, <3>1 DEF Forward
      <4>2. \A m \in Nodes : \A k \in DOMAIN issued'[m] : issued'[m][k] \in Verbs
        BY ZenonT(90), <3>4 DEF ResponseInv
      <4> QED
        BY ZenonT(90), <2>1, <3>1, <3>2, <3>4, <4>1, <4>2, ResponseStep
    <3> QED
      BY <3>3, <3>4
  <2>3. CASE f.opaque \in pending[n]
    <3>0. PICK o \in DOMAIN calls[n], c \in Call : o = f.opaque /\ Completes(n, f, o, c)
      BY ZenonT(90), <2>3, <1>CompletedCall
    <3>1. /\ o = f.opaque
          /\ calls' = [calls EXCEPT ![n][o] = c]
          /\ c.id = calls[n][o].id
          /\ \/ c.status = "Ok" /\ c.answer = f.id
             \/ c.status = "Refused"
      BY ZenonT(60), <3>0 DEF Completes
    <3>2. PICK s \in Session :
            /\ s = Session1(n) /\ CurrentSession(n) = s /\ HasSession(n)
            /\ \A t : Update(n, t) = [sess EXCEPT ![n][1] = t]
      BY ZenonT(60), Current DEF IInv
    <3>3. PICK t \in Session :
            /\ t = complete_request(s, f.opaque) /\ t.state = s.state
            /\ t.retransmit_queue =
                 {e \in s.retransmit_queue : ~(e.opaque = f.opaque /\ e.verb \in Requests)}
      BY SMTT(60), CompleteRequest
    <3>4. t.read_cache = s.read_cache
      BY ZenonT(90), <3>3, CacheUntouched
    <3>5. sess' = [sess EXCEPT ![n][1] = t] /\ pending' = [pending EXCEPT ![n] = @ \ {o}]
      BY ZenonT(60), <2>3, <3>1, <3>2, <3>3 DEF complete_pending_request
    <3>6. Session1(n)' = t /\ \A m \in Nodes : m # n => Session1(m)' = Session1(m)
      BY ZenonT(90), <3>5, SessionUpdate DEF IInv
    <3>7. CallInv'
      <4>1. /\ Session1(n)'.state = Session1(n).state
            /\ Session1(n)'.retransmit_queue \subseteq Session1(n).retransmit_queue
            /\ \A e \in Session1(n).retransmit_queue \ Session1(n)'.retransmit_queue :
                 e.opaque = o /\ c.status \in {"Ok", "Refused"}
        BY ZenonT(60), <3>1, <3>2, <3>3, <3>6
      <4>2. calls[n][o].status \in {"Ok", "Refused"} => c.status \in {"Ok", "Refused"}
        BY SMTT(60), <3>1
      <4> QED
        BY ZenonT(90), <2>1, <3>1, <3>5, <3>6, <4>1, <4>2, ClosedCall
    <3>8. ASSUME ResponseInv, Sound(f), InboundFrom PROVE ResponseInv'
      <4>1. /\ DOMAIN calls'[n] = DOMAIN calls[n] /\ calls'[n][o] = c
            /\ \A p \in DOMAIN calls[n] : p # o => calls'[n][p] = calls[n][p]
            /\ \A m \in Nodes : m # n => calls'[m] = calls[m]
        <5>1. StableTypes
          BY DEF IInv
        <5>2. Changed(n, o, c)
          BY ZenonT(90), <3>1, <5>1, CallsAfter
        <5> QED
          BY Zenon, <5>2 DEF Changed
      <4>2. Forward
        BY ZenonT(60), <2>1, <3>1, <4>1 DEF Forward
      <4>3. c.status = "Ok" => Answered1(n, o)'
        <5> SUFFICES ASSUME c.status = "Ok" PROVE Answered1(n, o)'
          BY ZenonT(60)
        <5>1. Peer(f.src) = n /\ f.id # NoId
          BY ZenonT(60), Peers, IdIsSome DEF Arrived, DataFrame
        <5>2. Asks(n, o, f.id) /\ Served(n, f.id)
          BY ZenonT(60), <2>1, <3>1, <3>8, <5>1 DEF Sound
        <5>3. c.id = f.id /\ c.answer = f.id
          BY ZenonT(60), <3>1, <5>2 DEF Asks
        <5>4. Served(n, f.id)'
          BY ZenonT(60), <4>2, <5>1, <5>2, AskForward
        <5> QED
          BY ZenonT(60), <4>1, <5>1, <5>3, <5>4 DEF Answered1
      <4>4. \A m \in Nodes : \A p \in DOMAIN calls'[m] : calls'[m][p].status = "Ok" =>
              \/ p \in DOMAIN calls[m] /\ calls'[m][p] = calls[m][p]
              \/ Answered1(m, p)'
        BY ZenonT(90), <4>1, <4>3
      <4>5. \A m \in Nodes : \A k \in DOMAIN issued'[m] : issued'[m][k] \in Verbs
        BY ZenonT(90), <3>8 DEF ResponseInv
      <4>6. \A m \in Nodes : Session1(m)'.read_cache = Session1(m).read_cache
        BY <3>2, <3>4, <3>6
      <4> QED
        BY ZenonT(90), <2>1, <3>8, <4>2, <4>4, <4>5, <4>6, ResponseStep
    <3> QED
      BY SMTT(60), <3>7, <3>8
  <2> QED
    BY ZenonT(60), <2>2, <2>3
<1> QED
  <2> SUFFICES ASSUME NatWellOrdered, IInv, CallInv, NEW n \in Nodes, handle_verb_frame(n)
               PROVE  /\ CallInv'
                      /\ ("ReadReq" \notin Verbs \/ ~Refusals) /\ ResponseInv => ResponseInv'
    BY Zenon
  <2>1. PICK f :
          /\ f = Head(inbound[n]) /\ inbound[n] # << >>
          /\ \/ HandleWrite(n, f) \/ HandleSend(n, f) \/ HandleRead(n, f)
             \/ HandleAtomic(n, f) \/ complete_pending_request(n, f)
          /\ inbound' = [inbound EXCEPT ![n] = Tail(@)]
          /\ issued' = issued
    BY DEF handle_verb_frame
  <2>2. f = inbound[n][1] /\ 1 \in DOMAIN inbound[n]
    BY ZenonT(90), <2>1, InboundShrinks DEF IInv
  <2>3. Arrived(n, f)
    BY <2>2, InboundFrame DEF Arrived, IInv, FrameInv
  <2>4. InboundFrom
    BY ZenonT(90), <2>1, <1>InboundTail DEF IInv
  <2>5. ResponseInv => Sound(f)
    BY ZenonT(60), <2>2 DEF ResponseInv
  <2>6. CASE complete_pending_request(n, f)
    BY ZenonT(60), <2>1, <2>3, <2>4, <2>5, <2>6, <1>CompleteCalls
  <2>7. CASE ~complete_pending_request(n, f)
    <3>1. PICK t \in Session : AnswerEffect(n, f, t)
      BY ZenonT(60), <2>1, <2>3, <2>7, <1>WriteAnswers, <1>ReadAnswers, <1>AtomicAnswers
    <3>2. UNCHANGED <<next_opaque, pending, calls>>
      BY <3>1 DEF AnswerEffect
    <3>3. Session1(n)' = t /\ \A m \in Nodes : m # n => Session1(m)' = Session1(m)
      BY ZenonT(90), <3>1, SessionUpdate DEF IInv, AnswerEffect
    <3>4. \A m \in Nodes : Keeps(Session1(m)', Session1(m))
      BY ZenonT(60), <3>1, <3>3, SenderKeeps DEF AnswerEffect, Keeps
    <3>5. CallInv'
      BY ZenonT(60), <2>1, <3>2, <3>4, KeptCalls
    <3>6. Forward
      <4>1. exec' = exec \/ Count(n, f)
        BY ZenonT(60), <2>1, <2>7
           DEF HandleWrite, HandleSend, HandleRead, HandleAtomic, ResendCached, engineVars
      <4> QED
        BY ZenonT(60), <2>1, <3>2, <4>1, <1>ExecForward
    <3>7. ("ReadReq" \notin Verbs \/ ~Refusals) /\ ResponseInv => ResponseInv'
      BY ZenonT(60), <2>1, <2>3, <2>4, <2>5, <3>1, <3>6, <1>AnswerResponses
    <3> QED
      BY ZenonT(60), <3>5, <3>7
  <2> QED
    BY <2>6, <2>7

-----------------------------------------------------------------------------
(* All steps *)

\* No call is made at the start.
LEMMA InitCalls == InitJoined => CallInv /\ ResponseInv
<1> SUFFICES ASSUME InitJoined PROVE CallInv /\ ResponseInv
  BY ZenonT(60)
<1>1. \A n \in Nodes : /\ Session1(n).retransmit_queue = {} /\ Session1(n).read_cache = {}
                       /\ calls[n] = << >> /\ inbound[n] = << >> /\ issued[n] = << >>
                       /\ pending[n] = {} /\ next_opaque[n] = 1
  BY ZenonT(60) DEF InitJoined, Session1, new_session
<1>2. InFlight(data) = {}
  BY SMTT(60) DEF InitJoined, NoFrames, InFlight
<1>3. CallInv
  <2> SUFFICES ASSUME NEW n \in Nodes PROVE CallsOf(n)
    BY ZenonT(60) DEF CallInv
  <2>0. PICK c : c = << >> /\ c = calls[n]
    BY Zenon, <1>1
  <2>1. DOMAIN c = {} /\ 1 = Len(c) + 1
    BY <2>0
  <2>2. DOMAIN calls[n] = {} /\ next_opaque[n] = Len(calls[n]) + 1
    BY Zenon, <1>1, <2>0, <2>1
  <2> QED
    BY Zenon, <1>1, <2>2 DEF CallsOf
<1>4. ResponseInv
  <2>1. PICK c : c = << >>
    OBVIOUS
  <2>2. DOMAIN c = {}
    BY <2>1
  <2>3. \A n \in Nodes : DOMAIN calls[n] = {} /\ DOMAIN inbound[n] = {} /\ DOMAIN issued[n] = {}
    BY Zenon, <1>1, <2>1, <2>2
  <2> QED
    BY Zenon, <1>1, <1>2, <2>3 DEF ResponseInv
<1> QED
  BY <1>3, <1>4

\* A step of the transports, the network or a cache keeps calls and responses.
LEMMA CarriedCalls ==
    IInv /\ CallInv /\ Carried => CallInv' /\ (ResponseInv => ResponseInv')
\* A queued request is sent as a sound frame.
<1>EntrySound.
      ASSUME IInv, CallInv, NEW m \in Nodes, NEW e \in Session1(m).retransmit_queue
      PROVE  Sound(EntryFrame(m, e))
  <2> USE <1>EntrySound
  <2>1. ValidEntry(issued, m, e) /\ e \in Entry
    BY ZenonT(60), Current DEF IInv, QueueInv, Session
  <2>2. e.seq # 0
    BY <2>1, IssuedTypes DEF IInv, ValidEntry
  <2>3. e.verb \notin Responses
    BY SMTT(60), <2>1 DEF Entry, Responses, Requests, FireAndForget
  <2>4. e.verb \in Requests => Asks(m, e.opaque, e.id)
    BY ZenonT(90) DEF CallInv, CallsOf
  <2> QED
    BY ZenonT(90), <2>2, <2>3, <2>4 DEF Sound, EntryFrame
\* What is carried leaves the responses alone.
<1>CarriedResponses.
      ASSUME IInv, CallInv, ResponseInv, Carried
      PROVE  ResponseInv'
  <2> USE <1>CarriedResponses
  <2>1. UNCHANGED <<calls, exec, issued>>
    BY ZenonT(90) DEF Carried, engineVars
  <2>2. Forward
    BY ZenonT(60), <2>1 DEF Forward
  <2>3. \A g \in InFlight(data)' : g \in InFlight(data) \/ Sound(g)'
    <3> SUFFICES ASSUME NEW g \in InFlight(data)', g \notin InFlight(data)
                 PROVE  Sound(g)'
      BY ZenonT(60)
    <3>1. PICK m \in Nodes : \E e \in Session1(m).retransmit_queue : g = EntryFrame(m, e)
      BY ZenonT(60) DEF Carried
    <3>2. PICK e \in Session1(m).retransmit_queue : g = EntryFrame(m, e)
      BY ZenonT(60), <3>1
    <3>3. Sound(g) /\ g \in DataFrame
      BY ZenonT(60), <3>2, <1>EntrySound, EntryFrames
    <3> QED
      BY ZenonT(60), <2>2, <3>3, SoundForward
  <2>5. \A m \in Nodes : \A k \in DOMAIN issued'[m] : issued'[m][k] \in Verbs
    BY ZenonT(60), <2>1 DEF ResponseInv
  <2> QED
    BY ZenonT(60), <2>1, <2>2, <2>3, <2>5, ResponseStep DEF Carried, CacheFrom
<1> QED
  <2> SUFFICES ASSUME IInv, CallInv, Carried
               PROVE  CallInv' /\ (ResponseInv => ResponseInv')
    BY Zenon
  <2>1. UNCHANGED <<next_opaque, pending, calls, issued>>
    BY Zenon DEF Carried, engineVars
  <2> QED
    BY ZenonT(90), <2>1, KeptCalls, <1>CarriedResponses DEF Carried

\* Every step keeps the calls, and the responses when no read can be refused.
LEMMA NextCalls ==
    ASSUME NatWellOrdered, IInv, CallInv, [StableNext]_vars
    PROVE  /\ CallInv'
           /\ ("ReadReq" \notin Verbs \/ ~Refusals) /\ ResponseInv => ResponseInv'
<1>1. ASSUME NEW n \in Nodes, CallStep(n)
      PROVE  CallInv' /\ (ResponseInv => ResponseInv')
  BY Zenon, <1>1, IssueCalls, TimeoutCalls DEF CallStep
<1>2. ASSUME NEW n \in Nodes, TransportStep(n) \/ CacheExpire(n)
      PROVE  CallInv' /\ (ResponseInv => ResponseInv')
  BY Zenon, <1>2, TransportCarries, CarriedCalls
<1>3. ASSUME NEW n \in Nodes, handle_verb_frame(n)
      PROVE  /\ CallInv'
             /\ ("ReadReq" \notin Verbs \/ ~Refusals) /\ ResponseInv => ResponseInv'
  BY <1>3, VerbCalls
<1>4. ASSUME NetworkStep
      PROVE  CallInv' /\ (ResponseInv => ResponseInv')
  BY ZenonT(60), <1>4, NetworkCarries, CarriedCalls
<1>5. ASSUME UNCHANGED vars
      PROVE  CallInv' /\ (ResponseInv => ResponseInv')
  <2>1. UNCHANGED <<sess, data, inbound, issued, next_opaque, pending, calls, exec>>
    BY ZenonT(60), <1>5 DEF vars, transportVars, engineVars
  <2>2. \A m : Session1(m)' = Session1(m)
    BY SMTT(60), <2>1 DEF Session1
  <2>3. Carried
    BY Zenon, <2>1, <2>2 DEF Carried, Keeps, CacheFrom, InboundFrom, engineVars
  <2> QED
    BY ZenonT(60), <2>3, CarriedCalls
<1> QED
  BY ZenonT(60), <1>1, <1>2, <1>3, <1>4, <1>5 DEF StableNext

\* A call that is not answered has its request in the queue.
LEMMA QueuedUntilAnswered == ASSUME IInv, CallInv PROVE RequestKeptUntilAnswered
<1> SUFFICES ASSUME NEW n \in Nodes, CurrentSession(n).state = "Active",
                    NEW o \in DOMAIN calls[n], calls[n][o].id # NoId,
                    ~(calls[n][o].status \in {"Ok", "Refused"} /\ o \notin pending[n])
             PROVE  Queued(n, calls[n][o].id[2])
  BY ZenonT(60) DEF RequestKeptUntilAnswered
<1>1. CurrentSession(n) = Session1(n)
  BY ZenonT(60), Current DEF IInv
<1>2. PICK e \in Session1(n).retransmit_queue : e.id = calls[n][o].id
  BY ZenonT(60), <1>1 DEF CallInv, CallsOf
<1>3. PICK k : calls[n][o].id = <<n, k>>
  BY ZenonT(60) DEF CallInv, CallsOf
<1>4. calls[n][o].id[2] = k
  BY <1>3
<1> QED
  BY ZenonT(60), <1>1, <1>2, <1>3, <1>4 DEF Queued

\* What ResponseInv says of the answered calls.
LEMMA ResultsSound == ASSUME ResponseInv PROVE AnswersTheCall /\ OkMeansExecuted
<1>1. AnswersTheCall
  BY ZenonT(60) DEF ResponseInv, Answered1, AnswersTheCall
<1>2. OkMeansExecuted
  BY Zenon DEF ResponseInv, Answered1, Served, OkMeansExecuted
<1> QED
  BY ZenonT(60), <1>1, <1>2
=============================================================================
