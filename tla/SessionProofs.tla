--------------------------- MODULE SessionProofs ----------------------------
(***************************************************************************)
(* Lemmas about sequences, the receive window, the sessions and the frames *)
(* of the data plane: what the operations of reliable.rs and dedup.rs that *)
(* the model is built from return and keep. The theorems about the engines *)
(* rest on them.                                                           *)
(*                                                                         *)
(* The last part is about the calls that wait for a response, in engines   *)
(* whose peers come, go and come back: every step keeps TrackInv           *)
(* (TrackInvariant), and the theorems that follow from it need nothing     *)
(* else.                                                                   *)
(***************************************************************************)
EXTENDS TrackInvariant, DataPlaneInvariant, TLAPS

-----------------------------------------------------------------------------
(* Sequences and numbers.  The facts that are needed are stated here: with *)
(* the library's modules on sequences and finite sets every module that    *)
(* extends this one would put all of their theorems before the provers.    *)

\* The elements of a sequence.
LEMMA ElementOfSeq ==
    ASSUME NEW S, NEW s \in Seq(S), NEW i \in 1 .. Len(s)
    PROVE  s[i] \in S
OBVIOUS

\* A sequence as a function.
LEMMA LenProperties ==
    ASSUME NEW S, NEW s \in Seq(S)
    PROVE  Len(s) \in Nat /\ s \in [1 .. Len(s) -> S] /\ DOMAIN s = 1 .. Len(s)
OBVIOUS

\* The empty sequence is the one of length 0.
LEMMA EmptySeq ==
    ASSUME NEW S
    PROVE  << >> \in Seq(S) /\ \A s \in Seq(S) : s = << >> <=> Len(s) = 0
OBVIOUS

\* Replacing one element.
LEMMA ExceptSeq ==
    ASSUME NEW S, NEW s \in Seq(S), NEW i \in 1 .. Len(s), NEW e \in S
    PROVE  /\ [s EXCEPT ![i] = e] \in Seq(S)
           /\ Len([s EXCEPT ![i] = e]) = Len(s)
           /\ \A j \in 1 .. Len(s) : [s EXCEPT ![i] = e][j] = IF j = i THEN e ELSE s[j]
OBVIOUS

\* Appending an element.
LEMMA AppendProperties ==
    ASSUME NEW S, NEW s \in Seq(S), NEW e \in S
    PROVE  /\ Append(s, e) \in Seq(S)
           /\ Append(s, e) # << >>
           /\ Len(Append(s, e)) = Len(s) + 1
           /\ \A i \in 1 .. Len(s) : Append(s, e)[i] = s[i]
           /\ Append(s, e)[Len(s) + 1] = e
OBVIOUS

\* The first element and the rest.
LEMMA HeadTailProperties ==
    ASSUME NEW S, NEW s \in Seq(S), s # << >>
    PROVE  /\ Head(s) \in S /\ Head(s) = s[1]
           /\ Tail(s) \in Seq(S)
           /\ Len(Tail(s)) = Len(s) - 1
           /\ \A i \in 1 .. Len(Tail(s)) : Tail(s)[i] = s[i + 1]
OBVIOUS

\* There is a one-to-one function from n + 1 numbers to n numbers.
OneToOne(n) ==
    \E f \in [1 .. n + 1 -> 1 .. n] : \A i, j \in 1 .. n + 1 : f[i] = f[j] => i = j

\* There is none: from one for the least n, one for n - 1 would follow.
LEMMA NoInjection ==
    ASSUME NatWellOrdered, NEW n \in Nat
    PROVE  ~OneToOne(n)
<1> DEFINE T == {m \in Nat : OneToOne(m)}
<1> SUFFICES ASSUME OneToOne(n) PROVE FALSE
  OBVIOUS
<1>1. PICK m \in T : \A k \in T : m <= k
  <2>1. n \in T
    OBVIOUS
  <2> HIDE DEF T
  <2>2. T \subseteq Nat
    BY DEF T
  <2> QED
    BY ZenonT(90), <2>1, <2>2 DEF NatWellOrdered
<1>2. PICK f \in [1 .. m + 1 -> 1 .. m] : \A i, j \in 1 .. m + 1 : f[i] = f[j] => i = j
  BY ZenonT(90), <1>1 DEF OneToOne
<1>3. m \in Nat /\ m # 0
  BY <1>1, <1>2
<1>4. PICK p \in Nat : m = p + 1
  <2>1. m - 1 \in Nat /\ m = (m - 1) + 1
    BY <1>3
  <2> QED
    BY <2>1
<1> DEFINE g == [i \in 1 .. p + 1 |-> IF f[i] = m THEN f[m + 1] ELSE f[i]]
<1>5. ASSUME NEW i \in 1 .. p + 1
      PROVE  /\ i \in 1 .. m + 1 /\ i # m + 1 /\ f[i] \in 1 .. m
             /\ f[m + 1] \in 1 .. m /\ m + 1 \in 1 .. m + 1 /\ f[m + 1] # f[i]
  BY <1>2, <1>4
<1>6. ASSUME NEW i \in 1 .. p + 1 PROVE g[i] \in 1 .. p
  <2>1. f[i] \in 1 .. m /\ f[m + 1] \in 1 .. m /\ f[m + 1] # f[i]
    BY ZenonT(90), <1>5
  <2>2. g[i] \in 1 .. m /\ g[i] # m
    BY ZenonT(90), <2>1
  <2> HIDE DEF g
  <2> QED
    BY <1>4, <2>2
<1>7. ASSUME NEW i \in 1 .. p + 1, NEW j \in 1 .. p + 1, g[i] = g[j]
      PROVE  i = j
  <2>1. g[i] = (IF f[i] = m THEN f[m + 1] ELSE f[i]) /\ g[j] = (IF f[j] = m THEN f[m + 1] ELSE f[j])
    OBVIOUS
  <2>2. f[i] = f[j]
    BY ZenonT(90), <1>5, <1>7, <2>1
  <2> QED
    BY ZenonT(90), <1>2, <1>5, <2>2
<1>8. g \in [1 .. p + 1 -> 1 .. p]
  BY <1>6
<1> HIDE DEF g
<1>9. p \in T
  BY ZenonT(90), <1>7, <1>8 DEF OneToOne
<1>10. m <= p
  BY ZenonT(90), <1>1, <1>9
<1> QED
  BY <1>4, <1>10

-----------------------------------------------------------------------------
(* The receive window *)

\* The sliding loop stops, at the first number that is not marked.
LEMMA FirstUnseenExists ==
    ASSUME NatWellOrdered, NEW n \in Nat, NEW S \in SUBSET Nat,
           \A k \in S : k < n + WindowSize
    PROVE  /\ FirstUnseen(n, S) \in n .. n + WindowSize
           /\ FirstUnseen(n, S) \notin S
           /\ \A k \in n .. FirstUnseen(n, S) - 1 : k \in S
<1> DEFINE T == {m \in Nat : n <= m /\ m \notin S}
<1>1. WindowSize \in Nat
  BY WindowAssumption
<1>2. n + WindowSize \in T
  BY <1>1
<1>3. PICK m \in T : \A y \in T : m <= y
  BY ZenonT(90), <1>2 DEF NatWellOrdered
<1>4. m \in n .. n + WindowSize
  BY <1>1, <1>2, <1>3
<1>5. \A k \in n .. m - 1 : k \in S
  BY <1>3
<1> QED
  BY ZenonT(90), <1>3, <1>4, <1>5 DEF FirstUnseen

\* mark_and_advance on a number inside the window: the window stays good, never
\* moves back, marks that number and forgets none, marks nothing else, and
\* moves on when the number was the expected one.
LEMMA MarkAndAdvance ==
    ASSUME NatWellOrdered, NEW w, GoodWindow(w), NEW seq \in Nat,
           w.next_expected <= seq, seq < w.next_expected + WindowSize
    PROVE  LET v == mark_and_advance(w, seq)
           IN  /\ GoodWindow(v)
               /\ w.next_expected <= v.next_expected
               /\ \A k \in Nat : is_seen(v, k) <=> is_seen(w, k) \/ k = seq
               /\ seq = w.next_expected => w.next_expected < v.next_expected
<1> DEFINE n == w.next_expected
           S == w.seen \cup {seq}
           m == FirstUnseen(n, S)
           v == mark_and_advance(w, seq)
<1>1. /\ n \in Nat /\ S \in SUBSET Nat /\ WindowSize \in Nat
      /\ \A k \in S : n <= k /\ k < n + WindowSize
  BY WindowAssumption DEF GoodWindow, Window
<1>2. /\ m \in n .. n + WindowSize
      /\ m \notin S
      /\ \A k \in n .. m - 1 : k \in S
  BY <1>1, FirstUnseenExists
<1>3. v = [next_expected |-> m, seen |-> {k \in S : k >= m}]
  BY <1>1 DEF mark_and_advance
<1> HIDE DEF n, m, S, v
<1>4. m \in Nat /\ n <= m
  BY <1>1, <1>2
<1>5. GoodWindow(v)
  <2>1. v \in Window
    BY ZenonT(90), <1>1, <1>3, <1>4 DEF Window
  <2>2. \A k \in v.seen : v.next_expected < k /\ k < v.next_expected + WindowSize
    <3> SUFFICES ASSUME NEW k \in S, k >= m
                 PROVE  m < k /\ k < m + WindowSize
      BY <1>3
    <3> QED
      BY <1>1, <1>2, <1>4
  <2> QED
    BY <2>1, <2>2 DEF GoodWindow
<1>6. \A k \in Nat : is_seen(v, k) <=> is_seen(w, k) \/ k = seq
  <2> SUFFICES ASSUME NEW k \in Nat
               PROVE  k < m \/ (k \in S /\ k >= m) <=> k < n \/ k \in w.seen \/ k = seq
    BY <1>3 DEF is_seen, n
  <2>1. CASE k < m
    BY <1>1, <1>2, <1>4, <2>1 DEF S
  <2>2. CASE ~(k < m)
    BY <1>1, <1>4, <2>2 DEF S
  <2> QED
    BY <2>1, <2>2
<1>7. seq = n => n < m
  BY <1>1, <1>2, <1>4 DEF S
<1> QED
  BY <1>3, <1>4, <1>5, <1>6, <1>7 DEF n, v

-----------------------------------------------------------------------------
(* The session *)

\* A new session is a session, and its window is good.
LEMMA NewSession ==
    ASSUME NEW c \in Nat
    PROVE  /\ new_session(c) \in Session
           /\ GoodWindow(new_session(c).dedup)
<1>1. InfThreshold \in Nat
  BY SessionAssumption
<1>2. GoodWindow(new_window(1)) /\ new_window(1) \in Window
  BY DEF GoodWindow, new_window, Window
<1>3. << >> \in Seq(Nat)
  OBVIOUS
<1> QED
  BY <1>1, <1>2, <1>3 DEF new_session, Session

\* The small updates.
LEMMA ConsumeCredit ==
    ASSUME NEW s \in Session, s.available_credits > 0
    PROVE  LET t == consume_credit(s)
           IN  t \in Session /\ SameSender(t, s) /\ SameReceiver(t, s)
<1>1. s.available_credits - 1 \in Nat
  BY DEF Session
<1> QED
  BY ZenonT(90), <1>1 DEF consume_credit, Session, SameSender, SameReceiver

\* Credits of an ACK change no entry, window or record.
LEMMA AddCredits ==
    ASSUME NEW s \in Session, NEW credits \in Nat
    PROVE  LET t == add_credits(s, credits)
           IN  t \in Session /\ SameSender(t, s) /\ SameReceiver(t, s)
<1>1. s.available_credits + credits \in Nat
  BY DEF Session
<1> QED
  BY ZenonT(90), <1>1 DEF add_credits, Session, SameSender, SameReceiver

\* on_new_ack changes the congestion window alone.
LEMMA OnNewAck ==
    ASSUME NEW s \in Session
    PROVE  LET t == on_new_ack(s)
           IN  t \in Session /\ SameSender(t, s) /\ SameReceiver(t, s)
<1>1. 2 * s.cwnd \in Nat /\ s.cwnd + 1 \in Nat
  BY DEF Session
<1> QED
  BY ZenonT(90), <1>1 DEF on_new_ack, Session, SameSender, SameReceiver

\* on_loss changes the congestion window alone.
LEMMA OnLoss ==
    ASSUME NEW s \in Session
    PROVE  LET t == on_loss(s)
           IN  t \in Session /\ SameSender(t, s) /\ SameReceiver(t, s)
<1>1. s.cwnd \div 2 \in Nat
  BY DEF Session
<1> QED
  BY ZenonT(90), <1>1 DEF on_loss, Session, SameSender, SameReceiver

\* Replacing the retransmit queue leaves the receiving side alone.
LEMMA SetQueue ==
    ASSUME NEW s \in Session, NEW q \in SUBSET Entry
    PROVE  LET t == [s EXCEPT !.retransmit_queue = q]
           IN  /\ t \in Session
               /\ SameReceiver(t, s)
               /\ t.state = s.state
               /\ t.next_seq = s.next_seq
               /\ t.retransmit_queue = q
BY ZenonT(90) DEF Session, SameReceiver

\* Numbering a frame takes a credit and queues an entry.
LEMMA AssignSeq ==
    ASSUME NEW s \in Session, s.available_credits > 0,
           NEW verb \in FireAndForget \cup Requests, NEW opaque \in Nat, NEW id \in Id
    PROVE  LET t == assign_seq(consume_credit(s), verb, opaque, id)
           IN  /\ t \in Session
               /\ SameReceiver(t, s)
               /\ t.state = s.state
               /\ t.next_seq = s.next_seq + 1
               /\ t.retransmit_queue = s.retransmit_queue \cup
                      {[seq |-> s.next_seq, verb |-> verb, opaque |-> opaque,
                        id |-> id, retry_count |-> 0]}
<1> DEFINE e == [seq |-> s.next_seq, verb |-> verb, opaque |-> opaque,
                 id |-> id, retry_count |-> 0]
<1>1. e \in Entry /\ s.next_seq + 1 \in Nat
  BY DEF Entry, Session
<1>2. PICK c \in Session : c = consume_credit(s) /\ SameSender(c, s) /\ SameReceiver(c, s)
  BY ConsumeCredit
<1> DEFINE n == s.next_seq + 1
           q == c.retransmit_queue \cup {e}
<1>3. assign_seq(c, verb, opaque, id)
        = [c EXCEPT !.next_seq = n, !.retransmit_queue = q]
  BY <1>2 DEF assign_seq, SameSender, Session
<1>4. n \in Nat /\ q \in SUBSET Entry
  BY <1>1, <1>2 DEF Session
<1> HIDE DEF n, q, e
<1>5. LET t == assign_seq(c, verb, opaque, id)
      IN  /\ t \in Session
          /\ SameReceiver(t, c)
          /\ t.state = c.state
          /\ t.next_seq = n
          /\ t.retransmit_queue = q
  BY ZenonT(90), <1>3, <1>4 DEF Session, SameReceiver
<1>6. /\ q = s.retransmit_queue \cup {e}
      /\ n = s.next_seq + 1
      /\ c.state = s.state
  BY <1>2 DEF q, n, SameSender
<1>7. SameReceiver(assign_seq(c, verb, opaque, id), s)
  BY <1>2, <1>5 DEF SameReceiver
<1> QED
  BY <1>2, <1>5, <1>6, <1>7 DEF e

\* The duplicate-ACK check touches its two counters only.
LEMMA FastRetransmit ==
    ASSUME NEW s \in Session, NEW ack, ack.ack_seq \in Nat
    PROVE  LET r == process_ack_for_fast_retransmit(s, ack)
           IN  r.session \in Session /\ SameSender(r.session, s) /\ SameReceiver(r.session, s)
<1>1. s.dup_ack_count + 1 \in Nat
  BY DEF Session
<1> QED
  BY ZenonT(90), <1>1 DEF process_ack_for_fast_retransmit, Session, SameSender, SameReceiver

\* An ACK removes the entries it covers and touches no receiver state.
LEMMA ProcessAck ==
    ASSUME NEW s \in Session, NEW ack, ack.ack_seq \in Nat, ack.credit_grant \in Nat
    PROVE  LET t == process_ack(s, ack)
           IN  /\ t \in Session
               /\ SameReceiver(t, s)
               /\ t.state = s.state
               /\ t.next_seq = s.next_seq
               /\ t.retransmit_queue = s.retransmit_queue \ Acked(s, ack)
<1>1. s.retransmit_queue \ Acked(s, ack) \in SUBSET Entry
  BY DEF Session
<1>2. PICK k \in Session :
        /\ k = [s EXCEPT !.retransmit_queue = @ \ Acked(s, ack)]
        /\ SameReceiver(k, s)
        /\ k.state = s.state
        /\ k.next_seq = s.next_seq
        /\ k.retransmit_queue = s.retransmit_queue \ Acked(s, ack)
  <2>1. [s EXCEPT !.retransmit_queue = @ \ Acked(s, ack)]
          = [s EXCEPT !.retransmit_queue = s.retransmit_queue \ Acked(s, ack)]
    BY DEF Session
  <2> QED
    BY ZenonT(90), <1>1, <2>1, SetQueue
<1>3. PICK c \in Session :
        c = add_credits(k, ack.credit_grant) /\ SameSender(c, k) /\ SameReceiver(c, k)
  BY AddCredits
<1>4. process_ack(s, ack) = IF ack.ack_seq > s.last_ack_seq THEN on_new_ack(c) ELSE c
  BY <1>2, <1>3 DEF process_ack
<1>5. process_ack(s, ack) \in Session
      /\ SameSender(process_ack(s, ack), c) /\ SameReceiver(process_ack(s, ack), c)
  BY <1>4, OnNewAck DEF SameSender, SameReceiver
<1> QED
  BY <1>2, <1>3, <1>5 DEF SameSender, SameReceiver

\* A response removes the requests with its opaque.
LEMMA CompleteRequest ==
    ASSUME NEW s \in Session, NEW opaque
    PROVE  LET t == complete_request(s, opaque)
           IN  /\ t \in Session
               /\ SameReceiver(t, s)
               /\ t.state = s.state
               /\ t.next_seq = s.next_seq
               /\ t.retransmit_queue =
                      {e \in s.retransmit_queue : ~(e.opaque = opaque /\ e.verb \in Requests)}
<1> DEFINE q == {e \in s.retransmit_queue : ~(e.opaque = opaque /\ e.verb \in Requests)}
<1>1. q \in SUBSET Entry
  BY DEF Session
<1>2. complete_request(s, opaque) = [s EXCEPT !.retransmit_queue = q]
  BY DEF complete_request, Session
<1> HIDE DEF q
<1> QED
  BY <1>1, <1>2, SetQueue DEF q

\* A tick of the RTO task ends the session with its queue, or counts a retry
\* on the expired entries and keeps every entry.
LEMMA CheckRto ==
    ASSUME NEW s \in Session, NEW expired \in SUBSET s.retransmit_queue
    PROVE  LET t == check_rto(s, expired)
           IN  /\ t \in Session
               /\ SameReceiver(t, s)
               /\ t.next_seq = s.next_seq
               /\ \/ t.state = "Dead" /\ t.retransmit_queue = {}
                  \/ /\ t.state = s.state
                     /\ t.retransmit_queue = (s.retransmit_queue \ expired)
                            \cup {[e EXCEPT !.retry_count = @ + 1] : e \in expired}
<1> DEFINE q == (s.retransmit_queue \ expired)
                    \cup {[e EXCEPT !.retry_count = @ + 1] : e \in expired}
<1>1. ASSUME NEW e \in expired
      PROVE  [e EXCEPT !.retry_count = @ + 1] \in Entry
  <2>1. e \in Entry
    BY DEF Session
  <2>2. e.retry_count + 1 \in Nat
    BY <2>1 DEF Entry
  <2> QED
    BY <2>1, <2>2 DEF Entry
<1>2. q \in SUBSET Entry
  BY <1>1 DEF Session
<1>3. [s EXCEPT !.retransmit_queue =
          (@ \ expired) \cup {[e EXCEPT !.retry_count = @ + 1] : e \in expired}]
        = [s EXCEPT !.retransmit_queue = q]
  BY DEF Session
<1> HIDE DEF q
<1>4. PICK r \in Session :
        /\ r = [s EXCEPT !.retransmit_queue = q]
        /\ SameReceiver(r, s)
        /\ r.state = s.state
        /\ r.next_seq = s.next_seq
        /\ r.retransmit_queue = q
  BY ZenonT(90), <1>2, SetQueue
<1>5. LET t == kill(s)
      IN  /\ t \in Session /\ SameReceiver(t, s) /\ t.next_seq = s.next_seq
          /\ t.state = "Dead" /\ t.retransmit_queue = {}
  BY ZenonT(90) DEF kill, Session, SameReceiver
<1>6. check_rto(s, expired) = IF OutOfRetries(expired) THEN kill(s) ELSE on_loss(r)
  BY <1>3, <1>4 DEF check_rto
<1> QED
  BY ZenonT(60), <1>4, <1>5, <1>6, OnLoss DEF SameReceiver, SameSender, q

\* Receiving a numbered frame moves the window as mark_and_advance says, or
\* leaves it; sending the ACK resets the two counters.
LEMMA ReceiveFrame ==
    ASSUME NatWellOrdered, NEW s \in Session, NEW seq \in Nat, GoodWindow(s.dedup)
    PROVE  LET t == receive_frame(s, seq)
           IN  /\ t \in Session
               /\ SameSender(t, s)
               /\ t.execution_records = s.execution_records
               /\ t.dedup = IF check(s.dedup, seq) \in {"InOrder", "OutOfOrder"}
                            THEN mark_and_advance(s.dedup, seq) ELSE s.dedup
<1> DEFINE w == IF check(s.dedup, seq) \in {"InOrder", "OutOfOrder"}
                THEN mark_and_advance(s.dedup, seq) ELSE s.dedup
<1>1. w \in Window
  <2>1. CASE check(s.dedup, seq) \in {"InOrder", "OutOfOrder"}
    <3>1. /\ s.dedup.next_expected <= seq
          /\ seq < s.dedup.next_expected + WindowSize
      BY <2>1, WindowAssumption DEF check, GoodWindow, Window
    <3> QED
      BY <2>1, <3>1, MarkAndAdvance DEF GoodWindow
  <2>2. CASE ~(check(s.dedup, seq) \in {"InOrder", "OutOfOrder"})
    BY <2>2 DEF GoodWindow
  <2> QED
    BY <2>1, <2>2
<1>2. s.frames_since_last_ack + 1 \in Nat /\ s.credits_to_grant + 1 \in Nat
  BY DEF Session
<1>3. receive_frame(s, seq)
        = [s EXCEPT !.frames_since_last_ack = s.frames_since_last_ack + 1,
                    !.credits_to_grant = s.credits_to_grant + 1,
                    !.dedup = w]
  BY DEF receive_frame, Session
<1> HIDE DEF w
<1>4. LET t == receive_frame(s, seq)
      IN  /\ t \in Session /\ SameSender(t, s)
          /\ t.execution_records = s.execution_records /\ t.dedup = w
  BY ZenonT(60), <1>1, <1>2, <1>3 DEF Session, SameSender
<1> QED
  BY <1>4 DEF w

\* Clearing the counters of a sent ACK changes nothing the invariant reads.
LEMMA AckSent ==
    ASSUME NEW s \in Session
    PROVE  ack_sent(s) \in Session /\ SameSender(ack_sent(s), s) /\ SameReceiver(ack_sent(s), s)
BY ZenonT(90) DEF ack_sent, Session, SameSender, SameReceiver

\* The read cache is apart from everything else.
LEMMA CacheGet ==
    ASSUME NEW s \in Session, NEW opaque
    PROVE  LET t == cache_get(s, opaque)
           IN  t \in Session /\ SameSender(t, s) /\ SameReceiver(t, s)
<1> DEFINE hit == cache_lookup(s, opaque)
           moved == {[c EXCEPT !.order = s.next_order] : c \in hit}
           n == IF hit = {} THEN s.next_order ELSE s.next_order + 1
           rc == (s.read_cache \ hit) \cup moved
<1>1. \A c \in hit : [c EXCEPT !.order = s.next_order] \in Cached
  BY ZenonT(90) DEF cache_lookup, Session, Cached
<1>2. rc \in SUBSET Cached
  BY <1>1 DEF Session
<1>3. n \in Nat
  BY DEF Session
<1>4. cache_get(s, opaque) = [s EXCEPT !.read_cache = rc, !.next_order = n]
  BY DEF cache_get, Session
<1> HIDE DEF rc, n
<1> QED
  BY ZenonT(90), <1>2, <1>3, <1>4 DEF Session, SameSender, SameReceiver

\* Caching a response changes the cache alone.
LEMMA CacheInsert ==
    ASSUME NEW s \in Session, NEW opaque \in Nat, NEW id \in Id
    PROVE  LET t == cache_insert(s, opaque, id)
           IN  t \in Session /\ SameSender(t, s) /\ SameReceiver(t, s)
<1> DEFINE room == IF Cardinality(s.read_cache) >= CacheCap
                   THEN s.read_cache \ find_lru_key(s) ELSE s.read_cache
           new == [opaque |-> opaque, id |-> id, order |-> s.next_order]
           rc == {c \in room : c.opaque # opaque} \cup {new}
<1>1. new \in Cached /\ s.next_order + 1 \in Nat
  BY DEF Session, Cached
<1>2. rc \in SUBSET Cached
  BY ZenonT(60), <1>1 DEF Session
<1>3. cache_insert(s, opaque, id)
        = [s EXCEPT !.read_cache = rc, !.next_order = s.next_order + 1]
  BY DEF cache_insert, Session
<1> HIDE DEF rc
<1> QED
  BY ZenonT(90), <1>1, <1>2, <1>3 DEF Session, SameSender, SameReceiver

\* An expired cache entry changes the cache alone.
LEMMA CacheExpired ==
    ASSUME NEW s \in Session, NEW c
    PROVE  LET t == cache_expire(s, c)
           IN  t \in Session /\ SameSender(t, s) /\ SameReceiver(t, s)
<1>1. s.read_cache \ {c} \in SUBSET Cached
  BY DEF Session
<1> QED
  BY ZenonT(90), <1>1 DEF cache_expire, Session, SameSender, SameReceiver

-----------------------------------------------------------------------------
(* The execution records *)

\* There are only N + 1 numbers up to N.
LEMMA RecordsAreFew ==
    ASSUME NatWellOrdered, NEW r \in Seq(Nat), NEW N \in Nat, GoodRecords(r, N)
    PROVE  Len(r) <= N + 1
<1> SUFFICES ASSUME Len(r) > N + 1 PROVE FALSE
  OBVIOUS
<1> DEFINE f == [i \in 1 .. (N + 1) + 1 |-> r[i] + 1]
<1>1. \A i \in 1 .. (N + 1) + 1 : i \in DOMAIN r
  OBVIOUS
<1>2. \A i \in 1 .. (N + 1) + 1 : f[i] \in 1 .. N + 1
  BY <1>1 DEF GoodRecords
<1>3. \A i, j \in 1 .. (N + 1) + 1 : f[i] = f[j] => i = j
  BY SMTT(60), <1>1 DEF GoodRecords
<1>4. f \in [1 .. (N + 1) + 1 -> 1 .. N + 1] /\ N + 1 \in Nat
  BY <1>2
<1> HIDE DEF f
<1> QED
  BY ZenonT(90), <1>3, <1>4, NoInjection DEF OneToOne

\* Recording a number keeps the records distinct, and while the peer has
\* queued fewer frames than RecordCap no record is ever pushed out.
LEMMA RecordExecuted ==
    ASSUME NatWellOrdered, NEW s \in Session, NEW N \in Nat, NEW seq \in 0 .. N,
           GoodRecords(s.execution_records, N)
    PROVE  LET t == mark_executed(s, seq)
           IN  /\ t \in Session
               /\ SameSender(t, s)
               /\ t.dedup = s.dedup
               /\ GoodRecords(t.execution_records, N)
               /\ N < RecordCap =>
                      \A k \in Nat : is_executed(t, k) <=> is_executed(s, k) \/ k = seq
<1>1. CASE is_executed(s, seq)
  BY <1>1 DEF mark_executed, SameSender
<1>2. CASE ~is_executed(s, seq)
  <2> DEFINE r == s.execution_records
             a == Append(r, seq)
             v == IF Len(r) + 1 > RecordCap THEN Tail(a) ELSE a
  <2>1. /\ r \in Seq(Nat) /\ RecordCap \in Nat
        /\ Len(r) \in Nat /\ DOMAIN r = 1 .. Len(r)
    BY SessionAssumption, LenProperties DEF Session
  <2>2. /\ a \in Seq(Nat) /\ Len(a) = Len(r) + 1
        /\ DOMAIN a = 1 .. Len(r) + 1
        /\ \A i \in 1 .. Len(r) : a[i] = r[i]
        /\ a[Len(r) + 1] = seq
    BY <2>1, AppendProperties, LenProperties
  <2>3. \A i \in DOMAIN r : r[i] # seq
    BY <1>2 DEF is_executed
  <2>4. GoodRecords(a, N)
    <3>1. \A i \in 1 .. Len(r) + 1 : i \in 1 .. Len(r) \/ i = Len(r) + 1
      BY <2>1
    <3>2. \A i \in 1 .. Len(r) + 1 : a[i] \in 0 .. N
      BY <2>1, <2>2, <3>1 DEF GoodRecords
    <3>3. \A i, j \in 1 .. Len(r) + 1 : a[i] = a[j] => i = j
      <4>1. \A i \in 1 .. Len(r) : a[i] # seq
        BY ZenonT(90), <2>1, <2>2, <2>3
      <4> QED
        BY ZenonT(90), <2>1, <2>2, <3>1, <4>1 DEF GoodRecords
    <3> QED
      BY ZenonT(90), <2>2, <3>2, <3>3 DEF GoodRecords
  <2>5. mark_executed(s, seq) = [s EXCEPT !.execution_records = v]
    BY <1>2 DEF mark_executed, Session
  <2>6. /\ Tail(a) \in Seq(Nat)
        /\ DOMAIN Tail(a) = 1 .. Len(r)
        /\ \A i \in 1 .. Len(r) : Tail(a)[i] = a[i + 1]
    <3> HIDE DEF a
    <3>1. a # << >>
      BY <2>1, <2>2, Len(<< >>) = 0
    <3>2. /\ Tail(a) \in Seq(Nat)
          /\ Len(Tail(a)) = Len(a) - 1
          /\ \A i \in 1 .. Len(Tail(a)) : Tail(a)[i] = a[i + 1]
      BY <2>2, <3>1, HeadTailProperties
    <3> QED
      BY <2>1, <2>2, <3>2, LenProperties
  <2>7. GoodRecords(Tail(a), N)
    <3>1. \A i \in 1 .. Len(r) : i + 1 \in 1 .. Len(r) + 1
      BY <2>1
    <3> HIDE DEF a
    <3>2. \A i \in 1 .. Len(r) : Tail(a)[i] \in 0 .. N
      BY ZenonT(90), <2>2, <2>4, <2>6, <3>1 DEF GoodRecords
    <3>3. ASSUME NEW i \in 1 .. Len(r), NEW j \in 1 .. Len(r), Tail(a)[i] = Tail(a)[j]
          PROVE  i = j
      <4>1. a[i + 1] = a[j + 1]
        BY ZenonT(60), <2>6, <3>3
      <4>2. i + 1 = j + 1
        BY ZenonT(90), <2>2, <2>4, <3>1, <4>1 DEF GoodRecords
      <4> QED
        BY <4>2
    <3> QED
      BY ZenonT(90), <2>6, <3>2, <3>3 DEF GoodRecords
  <2>8. v \in Seq(Nat) /\ GoodRecords(v, N)
    BY <2>2, <2>4, <2>6, <2>7
  <2>9. N < RecordCap => v = a
    <3>1. Len(a) <= N + 1
      BY ZenonT(90), <2>2, <2>4, RecordsAreFew
    <3> QED
      BY <2>1, <2>2, <3>1
  <2>10. \A k \in Nat : (\E i \in DOMAIN a : a[i] = k)
                           <=> (\E i \in DOMAIN r : r[i] = k) \/ k = seq
    <3> HIDE DEF a
    <3>1. \A i : i \in 1 .. Len(r) + 1 <=> i \in 1 .. Len(r) \/ i = Len(r) + 1
      BY <2>1
    <3> QED
      BY ZenonT(90), <2>1, <2>2, <3>1
  <2> HIDE DEF v, a
  <2>11. LET t == mark_executed(s, seq)
         IN  /\ t \in Session /\ SameSender(t, s) /\ t.dedup = s.dedup
             /\ t.execution_records = v
    BY ZenonT(90), <2>5, <2>8 DEF Session, SameSender
  <2> QED
    BY ZenonT(60), <2>8, <2>9, <2>10, <2>11 DEF is_executed
<1> QED
  BY <1>1, <1>2

-----------------------------------------------------------------------------
(* Small facts *)

\* There are two nodes, each the peer of the other.
LEMMA Peers ==
    ASSUME NEW n \in Nodes
    PROVE  /\ Peer(n) \in Nodes
           /\ Peer(n) # n
           /\ Peer(Peer(n)) = n
           /\ \A m \in Nodes : m # n => m = Peer(n)
<1>1. PICK p \in Nodes, q \in Nodes : p # q /\ Nodes = {p, q}
  BY TransportAssumption
<1>2. \A m \in Nodes : Peer(m) \in Nodes /\ Peer(m) # m
  BY <1>1 DEF Peer
<1> QED
  BY <1>1, <1>2

\* What is in flight after frames are sent.
LEMMA PutFrames ==
    ASSUME NEW B, NEW F
    PROVE  InFlight(Put(B, F)) = InFlight(B) \cup F
BY DEF InFlight, Put

\* Taking a datagram out puts none in.
LEMMA TakeFrame ==
    ASSUME NEW B, NEW C
    PROVE  InFlight(Take(B, C)) \subseteq InFlight(B)
BY DEF InFlight, Take

\* send_frame_to_peer adds only the frames it is given.
LEMMA SentFrames ==
    ASSUME NEW n, NEW F, data' = SentToPeer(n, F)
    PROVE  InFlight(data)' \subseteq InFlight(data) \cup F
BY PutFrames DEF SentToPeer

\* The one session of each node is its current one.
LEMMA Current ==
    ASSUME StableTypes, NEW n \in Nodes
    PROVE  /\ HasSession(n)
           /\ CurrentSession(n) = Session1(n)
           /\ Session1(n) \in Session
           /\ \A t : Update(n, t) = [sess EXCEPT ![n][1] = t]
BY DEF StableTypes, HasSession, CurrentSession, Session1, Update

\* Replacing the session of one node leaves the other one.
LEMMA SessionUpdate ==
    ASSUME StableTypes, NEW n \in Nodes, NEW t \in Session,
           sess' = [sess EXCEPT ![n][1] = t]
    PROVE  /\ sess' \in [Nodes -> [{1} -> Session]]
           /\ Session1(n)' = t
           /\ \A m \in Nodes : m # n => Session1(m)' = Session1(m)
BY DEF StableTypes, Session1

\* The history and the inbound queue of a node are sequences.
LEMMA IssuedTypes ==
    ASSUME StableTypes, NEW n \in Nodes
    PROVE  /\ issued[n] \in Seq(FireAndForget \cup Requests)
           /\ Len(issued[n]) \in Nat
           /\ DOMAIN issued[n] = 1 .. Len(issued[n])
           /\ inbound[n] \in Seq(DataFrame)
           /\ Len(inbound[n]) \in Nat
           /\ DOMAIN inbound[n] = 1 .. Len(inbound[n])
<1>1. issued[n] \in Seq(FireAndForget \cup Requests) /\ inbound[n] \in Seq(DataFrame)
  BY DEF StableTypes, TypeOK
<1> QED
  BY <1>1, LenProperties

\* An inbound frame is a data frame.
LEMMA InboundFrame ==
    ASSUME StableTypes, NEW n \in Nodes, NEW i \in DOMAIN inbound[n]
    PROVE  inbound[n][i] \in DataFrame /\ inbound[n][i].seq \in Nat
<1>1. inbound[n] \in Seq(DataFrame) /\ i \in 1 .. Len(inbound[n])
  BY IssuedTypes
<1>2. inbound[n][i] \in DataFrame
  BY <1>1, ElementOfSeq
<1> QED
  BY <1>2 DEF DataFrame

\* How often what is queued was executed is a number.
LEMMA ExecNat ==
    ASSUME StableTypes, NEW n \in Nodes, NEW k \in DOMAIN issued[Peer(n)]
    PROVE  k \in DOMAIN exec[n] /\ exec[n][k] \in Nat /\ k \in Nat
<1>1. PICK N \in Nat : N = Len(issued[Peer(n)]) /\ DOMAIN issued[Peer(n)] = 1 .. N
  BY IssuedTypes, Peers
<1>2. exec[n] \in [1 .. MaxSends[Peer(n)] -> Nat] /\ MaxSends[Peer(n)] \in Nat
  BY ZenonT(90), TransportAssumption, Peers DEF StableTypes, TypeOK
<1>3. N <= MaxSends[Peer(n)]
  BY <1>1, Peers DEF StableTypes
<1>4. k \in 1 .. MaxSends[Peer(n)]
  BY <1>1, <1>2, <1>3
<1> QED
  BY <1>2, <1>4

\* The predicates of the invariant do not look at the engine or at the cache.
LEMMA DroppedInSession1 ==
    ASSUME StableTypes
    PROVE  DroppedOnlyIfReceived <=>
             \A n \in Nodes : Session1(n).state = "Active" =>
               \A k \in DOMAIN issued[n] :
                 \/ issued[n][k] \notin FireAndForget
                 \/ \E e \in Session1(n).retransmit_queue : e.id = <<n, k>>
                 \/ is_seen(Session1(Peer(n)).dedup, k)
BY ZenonT(60), Current, Peers DEF DroppedOnlyIfReceived, Queued

-----------------------------------------------------------------------------
(* The history, and the frames a node finds *)

\* Appending the verb to the history of n continues it.
LEMMA SendHistory ==
    ASSUME StableTypes, NEW n \in Nodes, NEW verb \in FireAndForget \cup Requests,
           Len(issued[n]) < MaxSends[n],
           NEW h, h = [issued EXCEPT ![n] = Append(@, verb)]
    PROVE  /\ Continues(h)
           /\ Len(h[n]) = Len(issued[n]) + 1
           /\ h[n][Len(issued[n]) + 1] = verb
           /\ \A m \in Nodes : m # n => h[m] = issued[m]
<1>1. issued \in [Nodes -> Seq(FireAndForget \cup Requests)]
  BY DEF StableTypes, TypeOK
<1>2. PICK N \in Nat : N = Len(issued[n]) /\ DOMAIN issued[n] = 1 .. N
  BY IssuedTypes
<1>3. PICK a \in Seq(FireAndForget \cup Requests) :
        /\ a = Append(issued[n], verb)
        /\ Len(a) = N + 1 /\ DOMAIN a = 1 .. N + 1
        /\ \A k \in 1 .. N : a[k] = issued[n][k]
        /\ a[N + 1] = verb
  <2>1. issued[n] \in Seq(FireAndForget \cup Requests)
    BY <1>1
  <2>2. /\ Append(issued[n], verb) \in Seq(FireAndForget \cup Requests)
        /\ Len(Append(issued[n], verb)) = N + 1
        /\ \A k \in 1 .. N : Append(issued[n], verb)[k] = issued[n][k]
        /\ Append(issued[n], verb)[N + 1] = verb
    BY <1>2, <2>1, AppendProperties
  <2> QED
    BY ZenonT(90), <2>2, LenProperties
<1>4. /\ h \in [Nodes -> Seq(FireAndForget \cup Requests)]
      /\ h[n] = a
      /\ \A m \in Nodes : m # n => h[m] = issued[m]
  <2>1. [issued EXCEPT ![n] = Append(@, verb)] = [issued EXCEPT ![n] = a]
    BY <1>1, <1>3
  <2>2. [issued EXCEPT ![n] = a] \in [Nodes -> Seq(FireAndForget \cup Requests)]
    BY <1>1
  <2> QED
    BY <1>1, <2>1, <2>2
<1>5. \A m \in Nodes : Len(issued[m]) \in Nat /\ Len(issued[m]) <= MaxSends[m]
  BY IssuedTypes DEF StableTypes
<1>6. N + 1 <= MaxSends[n] /\ N <= N + 1 /\ \A k \in 1 .. N : k \in 1 .. N + 1
  BY <1>2, TransportAssumption
<1>7. ASSUME NEW m \in Nodes
      PROVE  /\ Len(issued[m]) <= Len(h[m])
             /\ Len(h[m]) <= MaxSends[m]
             /\ \A k \in DOMAIN issued[m] : k \in DOMAIN h[m] /\ h[m][k] = issued[m][k]
  <2>1. CASE m = n
    BY <1>2, <1>3, <1>4, <1>6, <2>1
  <2>2. CASE m # n
    BY <1>4, <1>5, <2>2
  <2> QED
    BY <2>1, <2>2
<1> QED
  BY <1>2, <1>3, <1>4, <1>7 DEF Continues

\* The frame of a queued entry is a valid frame.
LEMMA EntryFrames ==
    ASSUME IInv, NEW n \in Nodes, NEW e \in Session1(n).retransmit_queue
    PROVE  EntryFrame(n, e) \in DataFrame /\ ValidFrame(issued, EntryFrame(n, e))
<1>1. ValidEntry(issued, n, e)
  BY DEF IInv, QueueInv
<1>2. e \in Entry
  BY Current DEF IInv, Session
<1>3. e.seq # 0
  BY <1>1, IssuedTypes DEF IInv, ValidEntry
<1>4. EntryFrame(n, e) \in DataFrame
  BY <1>2 DEF EntryFrame, DataFrame, Entry, Verb
<1> QED
  BY <1>1, <1>3, <1>4 DEF EntryFrame, ValidFrame, ValidEntry

\* The number of a frame is a position in the history of the peer, or zero for
\* responses and error responses.
LEMMA ArrivedNumber ==
    ASSUME IInv, NEW n \in Nodes, NEW f, Arrived(n, f)
    PROVE  /\ f.seq \in 0 .. Len(issued[Peer(n)])
           /\ f.seq # 0 => /\ f.seq \in DOMAIN issued[Peer(n)]
                           /\ f.verb = issued[Peer(n)][f.seq]
                           /\ f.id[2] = f.seq
           /\ f.seq = 0 => f.verb \notin FireAndForget /\ (f.verb \in Requests => f.err)
<1>1. f.seq \in Nat /\ f.src = Peer(n) /\ Peer(n) \in Nodes
  BY Peers DEF Arrived, DataFrame
<1>2. PICK N \in Nat : N = Len(issued[Peer(n)]) /\ DOMAIN issued[Peer(n)] = 1 .. N
  BY <1>1, IssuedTypes DEF IInv
<1>3. CASE f.seq = 0
  BY <1>2, <1>3 DEF Arrived, ValidFrame, Responses, Requests, FireAndForget
<1>4. CASE f.seq # 0
  <2>1. f.seq \in 1 .. N /\ f.id = <<f.src, f.seq>> /\ f.verb = issued[Peer(n)][f.seq]
    BY <1>1, <1>2, <1>4 DEF Arrived, ValidFrame
  <2>2. f.seq \in 0 .. N
    BY <2>1
  <2> QED
    BY <1>2, <1>4, <2>1, <2>2
<1> QED
  BY <1>3, <1>4

\* The session of n as it stands.
LEMMA Sessions ==
    ASSUME IInv, NEW n \in Nodes
    PROVE  /\ Session1(n) \in Session
           /\ Len(issued[Peer(n)]) \in Nat
           /\ GoodRecords(Session1(n).execution_records, Len(issued[Peer(n)]))
           /\ sess = [sess EXCEPT ![n][1] = Session1(n)]
           /\ SessionKept(n, Session1(n))
<1>1. Session1(n) \in Session /\ Len(issued[Peer(n)]) \in Nat
  BY Current, Peers, IssuedTypes DEF IInv
<1>2. GoodRecords(Session1(n).execution_records, Len(issued[Peer(n)]))
  BY DEF IInv, RecordInv
<1>3. sess = [sess EXCEPT ![n][1] = Session1(n)]
  BY DEF Session1, IInv, StableTypes
<1> QED
  BY <1>1, <1>2, <1>3 DEF SessionKept

\* Marking the number of f as executed.
LEMMA Marked ==
    ASSUME NatWellOrdered, IInv, NEW n \in Nodes, NEW f, Arrived(n, f),
           NEW s \in Session, SameSender(s, Session1(n)), SameReceiver(s, Session1(n))
    PROVE  /\ mark_executed(s, f.seq) \in Session
           /\ SessionKept(n, mark_executed(s, f.seq))
           /\ Len(issued[Peer(n)]) < RecordCap =>
                  is_executed(mark_executed(s, f.seq), f.seq)
<1>1. PICK N \in Nat : N = Len(issued[Peer(n)]) /\ f.seq \in 0 .. N
  BY ArrivedNumber, Sessions
<1>2. GoodRecords(s.execution_records, N)
  BY <1>1, Sessions DEF SameReceiver
<1>3. \A k : is_executed(s, k) <=> is_executed(Session1(n), k)
  BY DEF is_executed, SameReceiver
<1>4. PICK t \in Session :
        /\ t = mark_executed(s, f.seq)
        /\ SameSender(t, s) /\ t.dedup = s.dedup
        /\ GoodRecords(t.execution_records, N)
        /\ N < RecordCap => \A k \in Nat : is_executed(t, k) <=> is_executed(s, k) \/ k = f.seq
  BY <1>1, <1>2, RecordExecuted
<1>5. f.seq \in Nat
  BY <1>1
<1> QED
  BY <1>1, <1>3, <1>4, <1>5 DEF SessionKept, SameSender, SameReceiver

\* The types of the tables of the engine.
LEMMA EngineTypes ==
    ASSUME IInv
    PROVE  pending \in [Nodes -> SUBSET Nat] /\ calls \in [Nodes -> Seq(Call)]
BY DEF IInv, StableTypes, TypeOK

\* The tail of the queue.
LEMMA InboundShrinks ==
    ASSUME StableTypes, NEW n \in Nodes, inbound[n] # << >>,
           inbound' = [inbound EXCEPT ![n] = Tail(@)]
    PROVE  /\ inbound' \in [Nodes -> Seq(DataFrame)]
           /\ \A m \in Nodes : m # n => inbound'[m] = inbound[m]
           /\ 1 \in DOMAIN inbound[n] /\ Head(inbound[n]) = inbound[n][1]
           /\ \E L \in Nat : /\ DOMAIN inbound[n] = 1 .. L + 1
                             /\ DOMAIN inbound'[n] = 1 .. L
                             /\ \A i \in 1 .. L : inbound'[n][i] = inbound[n][i + 1]
<1>1. inbound \in [Nodes -> Seq(DataFrame)] /\ inbound[n] \in Seq(DataFrame)
  BY ZenonT(90) DEF StableTypes, TypeOK
<1>2. /\ Head(inbound[n]) = inbound[n][1]
      /\ Tail(inbound[n]) \in Seq(DataFrame)
      /\ Len(Tail(inbound[n])) = Len(inbound[n]) - 1
      /\ \A i \in 1 .. Len(Tail(inbound[n])) : Tail(inbound[n])[i] = inbound[n][i + 1]
  BY <1>1, HeadTailProperties
<1>3. PICK L \in Nat : Len(inbound[n]) = L + 1
  <2>1. Len(inbound[n]) \in Nat /\ Len(inbound[n]) # 0
    BY <1>1, LenProperties, EmptySeq
  <2>2. Len(inbound[n]) - 1 \in Nat /\ Len(inbound[n]) = (Len(inbound[n]) - 1) + 1
    BY <2>1
  <2> QED
    BY <2>2
<1>4. /\ DOMAIN inbound[n] = 1 .. L + 1
      /\ DOMAIN Tail(inbound[n]) = 1 .. L /\ Len(Tail(inbound[n])) = L
  BY SMTT(60), <1>1, <1>2, <1>3, LenProperties
<1>5. 1 \in 1 .. L + 1
  OBVIOUS
<1>6. inbound'[n] = Tail(inbound[n])
  BY <1>1
<1> QED
  BY ZenonT(90), <1>1, <1>2, <1>4, <1>5, <1>6

-----------------------------------------------------------------------------
(* Waiting calls across peer events, restarts included.  The types of the  *)
(* frames do not matter here: that a session has a queue and that a call   *)
(* has a status is enough.                                                 *)

\* Sequences over a larger set, and sequences as functions.
LEMMA SeqMono ==
    ASSUME NEW S, NEW s \in Seq(S), NEW T
    PROVE  s \in Seq(S \cup T)
OBVIOUS

LEMMA IsASeq ==
    ASSUME NEW T, NEW n \in Nat, NEW s \in [1 .. n -> T]
    PROVE  s \in Seq(T) /\ Len(s) = n
OBVIOUS

-----------------------------------------------------------------------------
(* Peer events *)

\* A node without calls and sessions.
LEMMA NothingTracked ==
    ASSUME NEW n \in Nodes, sess[n] = << >>, calls[n] = << >>, pending[n] = {},
           next_opaque[n] = 1
    PROVE  Tracked(n)
<1>1. calls[n] \in Seq({}) /\ Len(calls[n]) = 0 /\ DOMAIN calls[n] = {}
  BY SMTT(60), EmptySeq
<1> QED
  BY SMTT(60), <1>1 DEF Tracked

-----------------------------------------------------------------------------

LEMMA InitTrack ==
    ASSUME Init
    PROVE  TrackInv
<1>1. Tables /\ \A n \in Nodes : sess[n] = << >> /\ calls[n] = << >>
          /\ pending[n] = {} /\ next_opaque[n] = 1
  BY DEF Init, Tables
<1> QED
  BY SMTT(60), <1>1, NothingTracked DEF TrackInv

LEMMA NextTrack ==
    TrackInv /\ [Next]_vars => TrackInv'
\* Opaques start at 1, so 0 stands for none.
<1>NoCallZero.
      ASSUME NEW n \in Nodes, Tracked(n)
      PROVE  0 \notin DOMAIN calls[n]
  <2> USE <1>NoCallZero
  <2>1. PICK S : calls[n] \in Seq(S)
    BY SMTT(60) DEF Tracked
  <2>2. DOMAIN calls[n] = 1 .. Len(calls[n])
    BY SMTT(60), <2>1, LenProperties
  <2> QED
    BY SMTT(60), <2>2
\* A node whose calls stay as they are, and whose queues keep their requests.
<1>QueuesChange.
      ASSUME NEW m \in Nodes, Tracked(m), KeptQueues(m, 0),
             calls'[m] = calls[m], pending'[m] = pending[m], next_opaque'[m] = next_opaque[m]
      PROVE  Tracked(m)'
  <2> USE <1>QueuesChange
  <2>1. ASSUME NEW o \in DOMAIN calls[m], calls[m][o].status = "Waiting"
        PROVE  o \in pending[m] /\ (RtoTask \/ InQueue(m, o)')
    <3>1. o # 0
      BY <1>NoCallZero
    <3> QED
      BY ZenonT(60), <2>1, <3>1 DEF Tracked, KeptQueues
  <2> QED
    BY ZenonT(90), <2>1 DEF Tracked, KeptQueues
\* A node that a step leaves alone.
<1>NodeUntouched.
      ASSUME NEW m \in Nodes, Tracked(m), sess'[m] = sess[m],
             calls'[m] = calls[m], pending'[m] = pending[m], next_opaque'[m] = next_opaque[m]
      PROVE  Tracked(m)'
  <2> USE <1>NodeUntouched
  <2>1. KeptQueues(m, 0)
    BY DEF KeptQueues, Tracked, InQueue
  <2> QED
    BY ZenonT(60), <2>1, <1>QueuesChange
\* Writing session k of n.
<1>SessionWritten.
      ASSUME TrackInv, NEW n \in Nodes, NEW k \in DOMAIN sess[n], NEW t, NEW o,
             sess' = [sess EXCEPT ![n][k] = t],
             HasQueue(t), RtoTask \/ KeepsRequests(t, sess[n][k], o)
      PROVE  /\ DOMAIN sess' = Nodes
             /\ KeptQueues(n, o)
             /\ \A m \in Nodes : m # n => sess'[m] = sess[m]
  <2> USE <1>SessionWritten
  <2>1. /\ DOMAIN sess' = Nodes /\ DOMAIN sess'[n] = DOMAIN sess[n]
        /\ sess'[n][k] = t
        /\ \A j \in DOMAIN sess[n] : j # k => sess'[n][j] = sess[n][j]
        /\ \A m \in Nodes : m # n => sess'[m] = sess[m]
    BY DEF TrackInv, Tables
  <2>2. \A j \in DOMAIN sess'[n] : HasQueue(sess'[n][j])
    BY <2>1 DEF TrackInv, Tracked
  <2>3. ASSUME ~RtoTask, NEW p, p # o, InQueue(n, p) PROVE InQueue(n, p)'
    <3>1. PICK j \in DOMAIN sess[n] : \E e \in sess[n][j].retransmit_queue :
            e.verb \in Requests /\ e.opaque = p
      BY SMTT(60), <2>3 DEF InQueue
    <3>2. PICK e \in sess[n][j].retransmit_queue : e.verb \in Requests /\ e.opaque = p
      BY SMTT(60), <3>1
    <3>3. e \in sess'[n][j].retransmit_queue
      BY SMTT(60), <2>1, <2>3, <3>2 DEF KeepsRequests
    <3> QED
      BY SMTT(60), <2>1, <3>2, <3>3 DEF InQueue
  <2> QED
    BY SMTT(60), <2>1, <2>2, <2>3 DEF KeptQueues
\* A step that writes at most one session and no table of the engine.
<1>QuietSession.
      ASSUME TrackInv, NEW n \in Nodes, UNCHANGED <<calls, pending, next_opaque>>,
             \/ sess' = sess
             \/ \E k \in DOMAIN sess[n] : \E t :
                   /\ sess' = [sess EXCEPT ![n][k] = t]
                   /\ HasQueue(t) /\ (RtoTask \/ KeepsRequests(t, sess[n][k], 0))
      PROVE  TrackInv'
  <2> USE <1>QuietSession
  <2>1. CASE sess' = sess
    BY SMTT(60), <2>1, <1>NodeUntouched DEF TrackInv, Tables
  <2>2. CASE sess' # sess
    <3>1. PICK k \in DOMAIN sess[n] : \E t :
            /\ sess' = [sess EXCEPT ![n][k] = t]
            /\ HasQueue(t) /\ (RtoTask \/ KeepsRequests(t, sess[n][k], 0))
      BY <2>2
    <3>2. PICK t : /\ sess' = [sess EXCEPT ![n][k] = t]
                   /\ HasQueue(t) /\ (RtoTask \/ KeepsRequests(t, sess[n][k], 0))
      BY Zenon, <3>1
    <3>3. /\ DOMAIN sess' = Nodes
          /\ KeptQueues(n, 0)
          /\ \A m \in Nodes : m # n => sess'[m] = sess[m]
      BY ZenonT(90), <3>2, <1>SessionWritten
    <3>4. Tracked(n)'
      BY SMTT(60), <3>3, <1>QueuesChange DEF TrackInv
    <3>5. \A m \in Nodes : m # n => Tracked(m)'
      BY ZenonT(60), <3>3, <1>NodeUntouched DEF TrackInv
    <3> QED
      BY SMTT(60), <3>3, <3>4, <3>5 DEF TrackInv, Tables
  <2> QED
    BY SMTT(60), <2>1, <2>2
\* Methods that leave the queue alone.
<1>QueueUntouched.
      ASSUME NEW s, HasQueue(s), NEW seq, NEW opaque, NEW id, NEW c
      PROVE  /\ KeepsRequests(s, s, 0)
             /\ KeepsRequests(receive_frame(s, seq), s, 0)
             /\ KeepsRequests(ack_sent(receive_frame(s, seq)), s, 0)
             /\ KeepsRequests(mark_executed(s, seq), s, 0)
             /\ KeepsRequests(cache_get(s, opaque), s, 0)
             /\ KeepsRequests(cache_insert(s, opaque, id), s, 0)
             /\ KeepsRequests(mark_executed(cache_insert(s, opaque, id), seq), s, 0)
             /\ KeepsRequests(cache_expire(s, c), s, 0)
  <2> USE <1>QueueUntouched
  <2>0. \A t : HasQueue(t) /\ t.retransmit_queue = s.retransmit_queue => KeepsRequests(t, s, 0)
    BY DEF KeepsRequests
  <2>1. \A u, q : HasQueue(u) =>
          HasQueue(mark_executed(u, q)) /\ mark_executed(u, q).retransmit_queue = u.retransmit_queue
    BY DEF HasQueue, mark_executed
  <2>2. PICK r : r = receive_frame(s, seq)
    OBVIOUS
  <2>3. HasQueue(r) /\ r.retransmit_queue = s.retransmit_queue
    BY <2>2 DEF HasQueue, receive_frame
  <2>4. HasQueue(ack_sent(r)) /\ ack_sent(r).retransmit_queue = s.retransmit_queue
    BY <2>3 DEF HasQueue, ack_sent
  <2>5. HasQueue(cache_get(s, opaque)) /\ cache_get(s, opaque).retransmit_queue = s.retransmit_queue
    BY DEF HasQueue, cache_get
  <2>6. PICK i : i = cache_insert(s, opaque, id)
    OBVIOUS
  <2>7. HasQueue(i) /\ i.retransmit_queue = s.retransmit_queue
    BY <2>6 DEF HasQueue, cache_insert
  <2>8. HasQueue(cache_expire(s, c)) /\ cache_expire(s, c).retransmit_queue = s.retransmit_queue
    BY DEF HasQueue, cache_expire
  <2>9. KeepsRequests(mark_executed(i, seq), s, 0)
    BY SMTT(60), <2>0, <2>1, <2>7
  <2> QED
    BY ZenonT(60), <2>0, <2>1, <2>2, <2>3, <2>4, <2>5, <2>6, <2>7, <2>8, <2>9
\* An ACK removes fire-and-forget entries only.
<1>AckKeepsRequests.
      ASSUME NEW s, HasQueue(s), NEW ack
      PROVE  LET r == process_ack_for_fast_retransmit(s, ack)
             IN  KeepsRequests(process_ack(r.session, ack), s, 0)
  <2> USE <1>AckKeepsRequests
  <2>1. PICK r : r = process_ack_for_fast_retransmit(s, ack).session
    OBVIOUS
  <2>2. HasQueue(r) /\ r.retransmit_queue = s.retransmit_queue
    BY <2>1 DEF HasQueue, process_ack_for_fast_retransmit
  <2>3. PICK a :
          a = add_credits([r EXCEPT !.retransmit_queue = @ \ Acked(r, ack)], ack.credit_grant)
    OBVIOUS
  <2>4. HasQueue(a) /\ a.retransmit_queue = r.retransmit_queue \ Acked(r, ack)
    BY SMTT(60), <2>2, <2>3 DEF HasQueue, add_credits
  <2>5. HasQueue(on_new_ack(a)) /\ on_new_ack(a).retransmit_queue = a.retransmit_queue
    BY <2>4 DEF HasQueue, on_new_ack
  <2>6. process_ack(r, ack) \in {a, on_new_ack(a)}
    BY SMTT(60), <2>3 DEF process_ack
  <2>7. \A e \in Acked(r, ack) : e.verb \notin Requests
    BY ZenonT(60) DEF Acked, FireAndForget, Requests
  <2>8. KeepsRequests(process_ack(r, ack), s, 0)
    BY <2>2, <2>4, <2>5, <2>6, <2>7 DEF KeepsRequests
  <2> QED
    BY <2>1, <2>8
\* A tick of the RTO task leaves a queue, if an empty one.
<1>RtoHasQueue.
      ASSUME NEW s, HasQueue(s), NEW expired
      PROVE  HasQueue(check_rto(s, expired))
  BY <1>RtoHasQueue DEF HasQueue, check_rto, kill, on_loss
\* A response removes the requests with its opaque only.
<1>CompleteKeepsRequests.
      ASSUME NEW s, HasQueue(s), NEW o
      PROVE  KeepsRequests(complete_request(s, o), s, o)
  BY <1>CompleteKeepsRequests DEF HasQueue, KeepsRequests, complete_request
\* Numbering a frame queues it and drops none.
<1>AssignKeepsRequests.
      ASSUME NEW s, HasQueue(s), NEW verb, NEW opaque, NEW id
      PROVE  LET t == assign_seq(consume_credit(s), verb, opaque, id)
             IN  /\ KeepsRequests(t, s, 0)
                 /\ \E e \in t.retransmit_queue : e.verb = verb /\ e.opaque = opaque
  <2> USE <1>AssignKeepsRequests
  <2>1. PICK c : c = consume_credit(s)
    OBVIOUS
  <2>2. HasQueue(c) /\ c.retransmit_queue = s.retransmit_queue
    BY <2>1 DEF HasQueue, consume_credit
  <2>3. PICK e : e = [seq |-> c.next_seq, verb |-> verb, opaque |-> opaque, id |-> id,
                      retry_count |-> 0]
    BY Zenon
  <2>4. e.verb = verb /\ e.opaque = opaque
    BY <2>3
  <2>5. PICK t : t = assign_seq(c, verb, opaque, id)
    OBVIOUS
  <2>6. HasQueue(t) /\ t.retransmit_queue = c.retransmit_queue \cup {e}
    BY ZenonT(60), <2>2, <2>3, <2>5 DEF HasQueue, assign_seq
  <2> QED
    BY ZenonT(60), <2>1, <2>2, <2>4, <2>5, <2>6 DEF KeepsRequests
\* Every session of a node has a queue.
<1>QueueOf.
      ASSUME TrackInv, NEW n \in Nodes, NEW k \in DOMAIN sess[n]
      PROVE  HasQueue(sess[n][k])
  BY <1>QueueOf DEF TrackInv, Tracked
\* Fire-and-forget calls queue a frame.
<1>FireAndForgetTracks.
      ASSUME TrackInv, NEW n \in Nodes, IssueFireAndForget(n)
      PROVE  TrackInv'
  <2> USE <1>FireAndForgetTracks
  <2>1. PICK verb, taken : send(n, verb, 0, taken)
    BY DEF IssueFireAndForget
  <2>2. UNCHANGED <<calls, pending, next_opaque>>
    BY SMTT(60) DEF IssueFireAndForget, engineVars
  <2>3. cur[n] \in DOMAIN sess[n]
    BY ZenonT(90), <2>1 DEF send, CanSend, HasSession
  <2>4. PICK t : t = assign_seq(consume_credit(sess[n][cur[n]]), verb, 0, NextId(n))
    OBVIOUS
  <2>5. sess' = [sess EXCEPT ![n][cur[n]] = t]
    BY SMTT(60), <2>1, <2>4 DEF send, Update, CurrentSession
  <2>6. KeepsRequests(t, sess[n][cur[n]], 0)
    BY ZenonT(90), <2>3, <2>4, <1>QueueOf, <1>AssignKeepsRequests
  <2> QED
    BY ZenonT(90), <2>2, <2>3, <2>5, <2>6, <1>QuietSession DEF KeepsRequests
\* The transports: an ACK leaves the requests queued, a received frame leaves
\* the queue alone, and where the RTO task runs less is claimed.
<1>TransportTracks.
      ASSUME TrackInv, NEW n \in Nodes, TransportStep(n)
      PROVE  TrackInv'
  <2> USE <1>TransportTracks
  <2>1. UNCHANGED <<calls, pending, next_opaque>>
    BY DEF TransportStep, engineVars
  <2>2. CASE RtoTick(n)
    <3>1. RtoTask
      BY <2>2 DEF RtoTick
    <3>2. PICK k \in DOMAIN sess[n] :
            \E expired : sess' = [sess EXCEPT ![n][k] = check_rto(sess[n][k], expired)]
      BY Zenon, <2>2 DEF RtoTick
    <3>3. PICK expired : sess' = [sess EXCEPT ![n][k] = check_rto(sess[n][k], expired)]
      BY ZenonT(90), <3>2
    <3>4. HasQueue(check_rto(sess[n][k], expired))
      BY SMTT(60), <1>QueueOf, <1>RtoHasQueue
    <3> QED
      BY ZenonT(90), <2>1, <3>1, <3>3, <3>4, <1>QuietSession
  <2>3. CASE handle_data_frame(n)
    <3>1. PICK f : DeliverUnchecked(n, f) \/ DropOnDeadSession(n, f) \/ ReceiveInSession(n, f)
      BY <2>3 DEF handle_data_frame
    <3>2. CASE sess' = sess
      BY SMTT(60), <2>1, <3>2, <1>QuietSession
    <3>3. CASE ReceiveInSession(n, f)
      <4>1. cur[n] \in DOMAIN sess[n]
        BY ZenonT(90), <3>3 DEF ReceiveInSession, HasSession
      <4>2. PICK s : s = sess[n][cur[n]]
        OBVIOUS
      <4>3. \E t \in {receive_frame(s, f.seq), ack_sent(receive_frame(s, f.seq))} :
              sess' = [sess EXCEPT ![n][cur[n]] = t]
        BY Zenon, <3>3, <4>2 DEF ReceiveInSession, Update, CurrentSession
      <4>4. PICK t : /\ sess' = [sess EXCEPT ![n][cur[n]] = t]
                     /\ t \in {receive_frame(s, f.seq), ack_sent(receive_frame(s, f.seq))}
        BY ZenonT(90), <4>3
      <4>5. KeepsRequests(t, s, 0)
        BY ZenonT(60), <4>1, <4>2, <4>4, <1>QueueOf, <1>QueueUntouched
      <4> QED
        BY Zenon, <2>1, <4>1, <4>2, <4>4, <4>5, <1>QuietSession DEF KeepsRequests
    <3> QED
      BY SMTT(60), <3>1, <3>2, <3>3 DEF DeliverUnchecked, DropOnDeadSession
  <2>4. CASE handle_ack_frame(n)
    <3>1. CASE sess' = sess
      BY <2>1, <3>1, <1>QuietSession
    <3>2. CASE sess' # sess
      <4>1. PICK f : /\ HasSession(n)
                     /\ sess' = Update(n, process_ack(
                          process_ack_for_fast_retransmit(CurrentSession(n), f).session, f))
        BY SMTT(60), <2>4, <3>2 DEF handle_ack_frame
      <4>2. cur[n] \in DOMAIN sess[n]
        BY SMTT(60), <4>1 DEF HasSession
      <4>3. PICK t : t = process_ack(
                       process_ack_for_fast_retransmit(sess[n][cur[n]], f).session, f)
        OBVIOUS
      <4>4. sess' = [sess EXCEPT ![n][cur[n]] = t]
        BY ZenonT(60), <4>1, <4>3 DEF Update, CurrentSession
      <4>5. KeepsRequests(t, sess[n][cur[n]], 0)
        BY <4>2, <4>3, <1>QueueOf, <1>AckKeepsRequests
      <4> QED
        BY Zenon, <2>1, <4>2, <4>4, <4>5, <1>QuietSession DEF KeepsRequests
    <3> QED
      BY ZenonT(60), <3>1, <3>2
  <2> QED
    BY SMTT(60), <2>2, <2>3, <2>4 DEF TransportStep
\* Expiring a cached response leaves the queue alone.
<1>ExpireTracks.
      ASSUME TrackInv, NEW n \in Nodes, CacheExpire(n)
      PROVE  TrackInv'
  <2> USE <1>ExpireTracks
  <2>1. UNCHANGED <<calls, pending, next_opaque>>
    BY DEF CacheExpire, engineVars
  <2>2. PICK k \in DOMAIN sess[n] : \E c :
          sess' = [sess EXCEPT ![n][k] = cache_expire(sess[n][k], c)]
    BY ZenonT(90) DEF CacheExpire
  <2>3. PICK c : sess' = [sess EXCEPT ![n][k] = cache_expire(sess[n][k], c)]
    BY Zenon, <2>2
  <2>4. KeepsRequests(cache_expire(sess[n][k], c), sess[n][k], 0)
    BY <1>QueueOf, <1>QueueUntouched
  <2> QED
    BY ZenonT(90), <2>1, <2>3, <2>4, <1>QuietSession DEF KeepsRequests
\* The handlers of writes, sends, reads and atomics write the cache and the
\* records of the current session at most.
<1>HandlersTrack.
      ASSUME TrackInv, NEW n \in Nodes, NEW f,
             HandleWrite(n, f) \/ HandleSend(n, f) \/ HandleRead(n, f) \/ HandleAtomic(n, f)
      PROVE  TrackInv'
  <2> USE <1>HandlersTrack
  <2>1. UNCHANGED <<calls, pending, next_opaque>>
    BY ZenonT(60) DEF HandleWrite, HandleSend, HandleRead, HandleAtomic, ResendCached, engineVars
  <2>2. PICK s : s = sess[n][cur[n]]
    BY ZenonT(60)
  <2>3. \/ sess' = sess
        \/ sess' = MarkExecuted(n, sess, f.seq)
        \/ sess' = ReadCacheGet(n, f.opaque)
        \/ sess' = ReadCacheInsert(n, f.opaque, f.id)
        \/ sess' = MarkExecuted(n, ReadCacheInsert(n, f.opaque, f.id), f.seq)
    BY DEF HandleWrite, HandleSend, HandleRead, HandleAtomic, ResendCached
  <2>4. CASE sess' = sess
    BY <2>1, <2>4, <1>QuietSession
  <2>5. CASE sess' # sess
    <3>1. HasSession(n) /\ cur[n] \in DOMAIN sess[n]
      BY SMTT(60), <2>3, <2>5 DEF MarkExecuted, ReadCacheGet, ReadCacheInsert, HasSession
    <3>2. PICK i : i = cache_insert(s, f.opaque, f.id)
      OBVIOUS
    <3>3. MarkExecuted(n, [sess EXCEPT ![n][cur[n]] = i], f.seq)
            = [sess EXCEPT ![n][cur[n]] = mark_executed(i, f.seq)]
      <4>1. PICK S : S = [sess EXCEPT ![n][cur[n]] = i]
        BY Zenon
      <4>2. S[n][cur[n]] = i
        BY SMTT(60), <3>1, <4>1 DEF TrackInv, Tables
      <4>3. [S EXCEPT ![n][cur[n]] = mark_executed(i, f.seq)]
              = [sess EXCEPT ![n][cur[n]] = mark_executed(i, f.seq)]
        BY Zenon, <3>1, <4>1 DEF TrackInv, Tables
      <4> QED
        BY Zenon, <3>1, <4>1, <4>2, <4>3 DEF MarkExecuted
    <3>4. \E t \in {mark_executed(s, f.seq), cache_get(s, f.opaque), i, mark_executed(i, f.seq)} :
            sess' = [sess EXCEPT ![n][cur[n]] = t]
      BY ZenonT(60), <2>2, <2>3, <2>5, <3>1, <3>2, <3>3
         DEF MarkExecuted, ReadCacheGet, ReadCacheInsert, Update, CurrentSession
    <3>5. PICK t : /\ sess' = [sess EXCEPT ![n][cur[n]] = t]
                   /\ t \in {mark_executed(s, f.seq), cache_get(s, f.opaque), i,
                             mark_executed(i, f.seq)}
      BY ZenonT(90), <3>4
    <3>6. KeepsRequests(t, s, 0)
      BY SMTT(60), <2>2, <3>1, <3>2, <3>5, <1>QueueOf, <1>QueueUntouched
    <3> QED
      BY Zenon, <2>1, <2>2, <3>1, <3>5, <3>6, <1>QuietSession DEF KeepsRequests
  <2> QED
    BY ZenonT(60), <2>4, <2>5
\* A step that changes the calls, the table and the queues of n alone.
<1>OneNode.
      ASSUME TrackInv, NEW n \in Nodes, Tables', Tracked(n)',
             \A m \in Nodes : m # n =>
                 /\ sess'[m] = sess[m] /\ calls'[m] = calls[m]
                 /\ pending'[m] = pending[m] /\ next_opaque'[m] = next_opaque[m]
      PROVE  TrackInv'
  BY <1>OneNode, ZenonT(90), <1>NodeUntouched DEF TrackInv
\* A call takes the next opaque.  If it waits, its request is queued.
<1>NewCallTracked.
      ASSUME TrackInv, NEW n \in Nodes, NEW id, NEW status \in {"Waiting", "Refused"},
             TakeOpaque(n, id, status), DOMAIN sess' = Nodes, KeptQueues(n, 0),
             NEW next, next = next_opaque[n], status = "Waiting" => InQueue(n, next)',
             \A m \in Nodes : m # n => sess'[m] = sess[m]
      PROVE  TrackInv'
  <2> USE <1>NewCallTracked
  <2>1. PICK c : c = [id |-> id, answer |-> NoId, status |-> status]
    BY ZenonT(90)
  <2>2. /\ Tables'
        /\ next_opaque'[n] = next + 1
        /\ pending'[n] = pending[n] \cup {next}
        /\ calls'[n] = Append(calls[n], c)
        /\ \A m \in Nodes : m # n =>
              calls'[m] = calls[m] /\ pending'[m] = pending[m] /\ next_opaque'[m] = next_opaque[m]
    BY ZenonT(90), <2>1 DEF TakeOpaque, TrackInv, Tables
  <2>3. "status" \in DOMAIN c /\ c.status = status
    BY ZenonT(60), <2>1
  <2>4. PICK S : calls[n] \in Seq(S)
    BY DEF TrackInv, Tracked
  <2>5. calls[n] \in Seq(S \cup {c})
    BY ZenonT(60), <2>4, SeqMono
  <2>6. /\ calls'[n] \in Seq(S \cup {c})
        /\ Len(calls'[n]) = Len(calls[n]) + 1
        /\ DOMAIN calls'[n] = DOMAIN calls[n] \cup {next}
        /\ next \notin DOMAIN calls[n]
        /\ next_opaque'[n] = Len(calls'[n]) + 1
        /\ \A o \in DOMAIN calls[n] : calls'[n][o] = calls[n][o]
        /\ calls'[n][next] = c
    <3>1. next = Len(calls[n]) + 1
      BY ZenonT(60) DEF TrackInv, Tracked
    <3> QED
      BY SMTT(60), <2>2, <2>5, <3>1, AppendProperties, LenProperties
  <2>7. \A o \in DOMAIN calls'[n] : "status" \in DOMAIN calls'[n][o]
    BY SMTT(60), <2>3, <2>6 DEF TrackInv, Tracked
  <2>8. /\ pending'[n] \subseteq DOMAIN calls'[n]
        /\ \A o \in pending'[n] : calls'[n][o].status \in {"Waiting", "Refused"}
    BY ZenonT(90), <2>2, <2>3, <2>6 DEF TrackInv, Tracked
  <2>9. ASSUME NEW o \in DOMAIN calls'[n], calls'[n][o].status = "Waiting"
        PROVE  o \in pending'[n] /\ (RtoTask \/ InQueue(n, o)')
    <3>1. CASE o = next
      BY ZenonT(90), <2>2, <2>3, <2>6, <2>9, <3>1
    <3>2. CASE o \in DOMAIN calls[n]
      <4>1. o # 0
        BY ZenonT(60), <3>2, <1>NoCallZero DEF TrackInv
      <4>2. calls[n][o].status = "Waiting"
        BY <2>6, <2>9, <3>2
      <4> QED
        BY ZenonT(90), <2>2, <3>2, <4>1, <4>2 DEF TrackInv, Tracked, KeptQueues
    <3>3. o = next \/ o \in DOMAIN calls[n]
      BY ZenonT(60), <2>6, <2>9
    <3> QED
      BY Zenon, <3>1, <3>2, <3>3
  <2>10. Tracked(n)'
    BY ZenonT(90), <2>6, <2>7, <2>8, <2>9 DEF Tracked, KeptQueues
  <2> QED
    BY ZenonT(60), <2>2, <2>10, <1>OneNode
<1>IssueRequestTracks.
      ASSUME TrackInv, NEW n \in Nodes, IssueRequest(n)
      PROVE  TrackInv'
  <2> USE <1>IssueRequestTracks
  <2>1. PICK verb \in Verbs \cap Requests, taken \in BOOLEAN :
           /\ send(n, verb, next_opaque[n], taken)
           /\ TakeOpaque(n, NextId(n), IF taken THEN "Waiting" ELSE "Refused")
    BY SMTT(60) DEF IssueRequest
  <2>2. cur[n] \in DOMAIN sess[n]
    BY ZenonT(90), <2>1 DEF send, CanSend, HasSession
  <2>3. PICK t : t = assign_seq(consume_credit(sess[n][cur[n]]), verb, next_opaque[n], NextId(n))
    OBVIOUS
  <2>4. sess' = [sess EXCEPT ![n][cur[n]] = t]
    BY ZenonT(60), <2>1, <2>3 DEF send, Update, CurrentSession
  <2>5. /\ KeepsRequests(t, sess[n][cur[n]], 0)
        /\ \E e \in t.retransmit_queue : e.verb = verb /\ e.opaque = next_opaque[n]
    BY SMTT(60), <2>2, <2>3, <1>QueueOf, <1>AssignKeepsRequests
  <2>6. HasQueue(t)
    BY <2>5 DEF KeepsRequests
  <2>7. /\ DOMAIN sess' = Nodes
        /\ KeptQueues(n, 0)
        /\ \A m \in Nodes : m # n => sess'[m] = sess[m]
    BY ZenonT(90), <2>2, <2>4, <2>5, <2>6, <1>SessionWritten
  <2>8. cur[n] \in DOMAIN sess'[n] /\ sess'[n][cur[n]] = t
    BY ZenonT(60), <2>2, <2>4 DEF TrackInv, Tables
  <2>9. \E k \in DOMAIN sess'[n] : \E e \in sess'[n][k].retransmit_queue :
           e.verb \in Requests /\ e.opaque = next_opaque[n]
    BY SMTT(60), <2>1, <2>5, <2>8
  <2>10. PICK o : o = next_opaque[n]
    BY ZenonT(60)
  <2>11. InQueue(n, o)'
    BY <2>9, <2>10 DEF InQueue
  <2>12. PICK status \in {"Waiting", "Refused"} : TakeOpaque(n, NextId(n), status)
    BY <2>1
  <2> QED
    BY Zenon, <2>7, <2>10, <2>11, <2>12, <1>NewCallTracked
<1>RefuseRequestTracks.
      ASSUME TrackInv, NEW n \in Nodes, RefuseRequest(n)
      PROVE  TrackInv'
  <2> USE <1>RefuseRequestTracks
  <2>1. sess' = sess /\ TakeOpaque(n, NoId, "Refused")
    BY ZenonT(60) DEF RefuseRequest, transportVars
  <2>2. KeptQueues(n, 0)
    BY ZenonT(60), <2>1 DEF KeptQueues, InQueue, TrackInv, Tracked
  <2>3. DOMAIN sess' = Nodes
    BY <2>1 DEF TrackInv, Tables
  <2> QED
    BY ZenonT(90), <2>1, <2>2, <2>3, <1>NewCallTracked
\* Call o of n ends: its entry leaves the pending table, and only its request
\* may leave the queues.
<1>CallEnds.
      ASSUME TrackInv, NEW n \in Nodes, NEW o \in DOMAIN calls[n], NEW c,
             pending' = [pending EXCEPT ![n] = @ \ {o}],
             \/ calls' = calls /\ calls[n][o].status # "Waiting"
             \/ /\ calls' = [calls EXCEPT ![n][o] = c]
                /\ "status" \in DOMAIN c /\ c.status # "Waiting",
             next_opaque' = next_opaque,
             DOMAIN sess' = Nodes, KeptQueues(n, o),
             \A m \in Nodes : m # n => sess'[m] = sess[m]
      PROVE  TrackInv'
  <2> USE <1>CallEnds
  <2>1. /\ Tables'
        /\ pending'[n] = pending[n] \ {o}
        /\ DOMAIN calls'[n] = DOMAIN calls[n]
        /\ \A p \in DOMAIN calls[n] : p # o => calls'[n][p] = calls[n][p]
        /\ \A m \in Nodes : m # n => calls'[m] = calls[m] /\ pending'[m] = pending[m]
    BY DEF TrackInv, Tables
  <2>2. "status" \in DOMAIN calls'[n][o] /\ calls'[n][o].status # "Waiting"
    BY DEF TrackInv, Tables, Tracked
  <2>3. (\E S : calls'[n] \in Seq(S)) /\ next_opaque'[n] = Len(calls'[n]) + 1
    <3>1. PICK S : calls[n] \in Seq(S)
      BY DEF TrackInv, Tracked
    <3>2. calls[n] \in Seq(S \cup {c})
      BY SMTT(60), <3>1, SeqMono
    <3>3. calls'[n] = calls[n] \/ calls'[n] = [calls[n] EXCEPT ![o] = c]
      BY DEF TrackInv, Tables
    <3>4. calls'[n] \in Seq(S \cup {c}) /\ Len(calls'[n]) = Len(calls[n])
      BY SMTT(60), <3>2, <3>3, ExceptSeq, LenProperties
    <3> QED
      BY ZenonT(60), <3>4 DEF TrackInv, Tracked
  <2>4. \A p \in DOMAIN calls'[n] : "status" \in DOMAIN calls'[n][p]
    BY ZenonT(60), <2>1, <2>2 DEF TrackInv, Tracked
  <2>5. /\ pending'[n] \subseteq DOMAIN calls'[n]
        /\ \A p \in pending'[n] : calls'[n][p].status \in {"Waiting", "Refused"}
    BY ZenonT(60), <2>1 DEF TrackInv, Tracked
  <2>6. ASSUME NEW p \in DOMAIN calls'[n], calls'[n][p].status = "Waiting"
        PROVE  p \in pending'[n] /\ (RtoTask \/ InQueue(n, p)')
    <3>1. p # o
      BY ZenonT(60), <2>1, <2>2, <2>6
    <3> QED
      BY ZenonT(60), <2>1, <2>6, <3>1 DEF TrackInv, Tracked, KeptQueues
  <2>7. Tracked(n)'
    BY <2>3, <2>4, <2>5, <2>6 DEF Tracked, KeptQueues
  <2> QED
    BY ZenonT(60), <2>1, <2>7, <1>OneNode
<1>VerbTimeoutTracks.
      ASSUME TrackInv, NEW n \in Nodes, VerbTimeout(n)
      PROVE  TrackInv'
  <2> USE <1>VerbTimeoutTracks
  <2>1. PICK o \in DOMAIN calls[n] :
           /\ pending' = [pending EXCEPT ![n] = @ \ {o}]
           /\ calls' = [calls EXCEPT ![n][o].status = "Timeout"]
    BY Zenon DEF VerbTimeout
  <2>2. sess' = sess /\ next_opaque' = next_opaque
    BY DEF VerbTimeout, transportVars
  <2>3. PICK c : c = [calls[n][o] EXCEPT !.status = "Timeout"]
    BY Zenon
  <2>4. calls' = [calls EXCEPT ![n][o] = c]
    BY SMTT(60), <2>1, <2>3
  <2>5. "status" \in DOMAIN c /\ c.status # "Waiting"
    BY ZenonT(60), <2>3 DEF TrackInv, Tracked
  <2>6. KeptQueues(n, o) /\ DOMAIN sess' = Nodes
    BY SMTT(60), <2>2 DEF KeptQueues, InQueue, TrackInv, Tables, Tracked
  <2> QED
    BY ZenonT(90), <2>1, <2>2, <2>4, <2>5, <2>6, <1>CallEnds
\* A response ends the call with its opaque.
<1>ResponseTracks.
      ASSUME TrackInv, NEW n \in Nodes, NEW f, complete_pending_request(n, f)
      PROVE  TrackInv'
  <2> USE <1>ResponseTracks
  <2>1. CASE f.opaque \notin pending[n]
    BY <2>1, <1>QuietSession DEF complete_pending_request
  <2>2. CASE f.opaque \in pending[n]
    <3>1. PICK o : o = f.opaque
      OBVIOUS
    <3>2. /\ pending' = [pending EXCEPT ![n] = @ \ {o}]
          /\ calls' = IF calls[n][o].status = "Waiting"
                      THEN [calls EXCEPT ![n][o].status = "Ok", ![n][o].answer = f.id]
                      ELSE calls
          /\ sess' = IF HasSession(n)
                     THEN Update(n, complete_request(CurrentSession(n), o))
                     ELSE sess
          /\ next_opaque' = next_opaque
      BY ZenonT(60), <2>2, <3>1 DEF complete_pending_request
    <3>3. o \in DOMAIN calls[n]
      BY SMTT(60), <2>2, <3>1 DEF TrackInv, Tracked
    <3>4. PICK c : c = [calls[n][o] EXCEPT !.status = "Ok", !.answer = f.id]
      OBVIOUS
    <3>5. "status" \in DOMAIN c /\ c.status # "Waiting"
      BY SMTT(60), <3>3, <3>4 DEF TrackInv, Tracked
    <3>6. [calls EXCEPT ![n][o].status = "Ok", ![n][o].answer = f.id] = [calls EXCEPT ![n][o] = c]
      BY ZenonT(90), <3>3, <3>4 DEF TrackInv, Tables
    <3>7. \/ calls' = calls /\ calls[n][o].status # "Waiting"
          \/ /\ calls' = [calls EXCEPT ![n][o] = c]
             /\ "status" \in DOMAIN c /\ c.status # "Waiting"
      BY ZenonT(60), <3>2, <3>5, <3>6
    <3>8. /\ DOMAIN sess' = Nodes
          /\ KeptQueues(n, o)
          /\ \A m \in Nodes : m # n => sess'[m] = sess[m]
      <4>1. CASE ~HasSession(n)
        BY ZenonT(60), <3>2, <4>1 DEF KeptQueues, InQueue, TrackInv, Tables, Tracked
      <4>2. CASE HasSession(n)
        <5>1. PICK t : t = complete_request(sess[n][cur[n]], o)
          OBVIOUS
        <5>2. cur[n] \in DOMAIN sess[n]
          BY <4>2 DEF HasSession
        <5>3. sess' = [sess EXCEPT ![n][cur[n]] = t]
          BY ZenonT(60), <3>2, <4>2, <5>1 DEF Update, CurrentSession
        <5>4. KeepsRequests(t, sess[n][cur[n]], o) /\ HasQueue(t)
          BY SMTT(60), <5>1, <5>2, <1>QueueOf, <1>CompleteKeepsRequests DEF KeepsRequests
        <5> QED
          BY ZenonT(90), <5>2, <5>3, <5>4, <1>SessionWritten
      <4> QED
        BY ZenonT(60), <4>1, <4>2
    <3>9. pending' = [pending EXCEPT ![n] = @ \ {o}] /\ next_opaque' = next_opaque
      BY ZenonT(90), <3>2
    <3> QED
      BY ZenonT(90), <3>3, <3>7, <3>8, <3>9, <1>CallEnds
  <2> QED
    BY SMTT(60), <2>1, <2>2
\* A new session has an empty queue, and no session is replaced.
<1>JoinedTracks.
      ASSUME TrackInv, NEW n \in Nodes, PeerJoined(n)
      PROVE  TrackInv'
  <2> USE <1>JoinedTracks
  <2>1. UNCHANGED <<calls, pending, next_opaque>>
    BY DEF PeerJoined, engineVars
  <2>2. PICK e \in 1 .. epoch[Peer(n)], credits \in {InitialCredits, 0} :
          create_session(n, e, credits)
    BY DEF PeerJoined
  <2>3. CASE e \in DOMAIN sess[n]
    BY ZenonT(60), <2>1, <2>2, <2>3, <1>QuietSession DEF create_session
  <2>4. CASE e \notin DOMAIN sess[n]
    <3>1. PICK t : t = new_session(credits)
      OBVIOUS
    <3>2. sess' = [sess EXCEPT ![n] =
             [k \in DOMAIN sess[n] \cup {e} |-> IF k = e THEN t ELSE sess[n][k]]]
      BY ZenonT(60), <2>2, <2>4, <3>1 DEF create_session
    <3>3. /\ DOMAIN sess' = Nodes
          /\ DOMAIN sess'[n] = DOMAIN sess[n] \cup {e} /\ sess'[n][e] = t
          /\ \A k \in DOMAIN sess[n] : sess'[n][k] = sess[n][k]
          /\ \A m \in Nodes : m # n => sess'[m] = sess[m]
      BY ZenonT(60), <2>4, <3>2 DEF TrackInv, Tables
    <3>4. HasQueue(t)
      BY <3>1 DEF HasQueue, new_session
    <3>5. KeptQueues(n, 0)
      <4>1. \A k \in DOMAIN sess'[n] : HasQueue(sess'[n][k])
        BY ZenonT(90), <3>3, <3>4 DEF TrackInv, Tracked
      <4>2. \A p : InQueue(n, p) => InQueue(n, p)'
        BY SMTT(60), <3>3 DEF InQueue
      <4> QED
        BY SMTT(60), <4>1, <4>2 DEF KeptQueues
    <3>6. Tracked(n)'
      BY ZenonT(90), <2>1, <3>5, <1>QueuesChange DEF TrackInv
    <3>7. Tables'
      BY ZenonT(90), <2>1, <3>3 DEF TrackInv, Tables
    <3> QED
      BY ZenonT(60), <2>1, <3>3, <3>6, <3>7, <1>OneNode
  <2> QED
    BY SMTT(60), <2>3, <2>4
<1>RecoveredTracks.
      ASSUME TrackInv, NEW n \in Nodes, PeerRecovered(n)
      PROVE  TrackInv'
  BY <1>RecoveredTracks, SMTT(60), <1>QuietSession DEF PeerRecovered, engineVars
\* The calls that lose their queue entry are the ones that fail.
<1>DownTracks.
      ASSUME TrackInv, NEW n \in Nodes, PeerDown(n)
      PROVE  TrackInv'
  <2> USE <1>DownTracks
  <2>1. /\ Tables' /\ sess'[n] = << >>
        /\ pending'[n] = pending[n] \ QueuedRequests(n)
        /\ \A m \in Nodes : m # n =>
              /\ sess'[m] = sess[m] /\ calls'[m] = calls[m]
              /\ pending'[m] = pending[m] /\ next_opaque'[m] = next_opaque[m]
        /\ next_opaque'[n] = next_opaque[n]
    BY DEF PeerDown, notify_peer_down, TrackInv, Tables
  <2>2. PICK C : C = calls[n]
    OBVIOUS
  <2>3. calls'[n] = [o \in DOMAIN C |->
           IF o \in QueuedRequests(n) /\ C[o].status = "Waiting"
           THEN [C[o] EXCEPT !.status = "LinkDown"] ELSE C[o]]
    BY <2>2 DEF PeerDown, TrackInv, Tables
  <2>4. \A o \in DOMAIN C :
           /\ "status" \in DOMAIN calls'[n][o]
           /\ o \notin QueuedRequests(n) => calls'[n][o] = C[o]
           /\ o \in QueuedRequests(n) => calls'[n][o].status # "Waiting"
    BY SMTT(60), <2>2, <2>3 DEF TrackInv, Tracked
  <2>5. (\E S : calls'[n] \in Seq(S)) /\ next_opaque'[n] = Len(calls'[n]) + 1
    <3>1. PICK S : C \in Seq(S)
      BY <2>2 DEF TrackInv, Tracked
    <3>2. PICK T : T = {calls'[n][o] : o \in DOMAIN C}
      BY Zenon
    <3>3. DOMAIN C = 1 .. Len(C) /\ Len(C) \in Nat
      BY SMTT(60), <3>1, LenProperties
    <3>4. calls'[n] \in [1 .. Len(C) -> T]
      BY ZenonT(60), <2>3, <3>2, <3>3
    <3>5. calls'[n] \in Seq(T) /\ Len(calls'[n]) = Len(C)
      BY <3>3, <3>4, IsASeq, LenProperties
    <3> QED
      BY ZenonT(60), <2>1, <2>2, <3>5 DEF TrackInv, Tracked
  <2>6. DOMAIN calls'[n] = DOMAIN C
    BY ZenonT(60), <2>3
  <2>7. \A k \in DOMAIN sess'[n] : HasQueue(sess'[n][k])
    BY SMTT(60), <2>1
  <2>8. /\ pending'[n] \subseteq DOMAIN calls'[n]
        /\ \A o \in pending'[n] : calls'[n][o].status \in {"Waiting", "Refused"}
    BY ZenonT(60), <2>1, <2>2, <2>4, <2>6 DEF TrackInv, Tracked
  <2>9. ASSUME NEW o \in DOMAIN C, calls'[n][o].status = "Waiting"
        PROVE  o \in pending'[n] /\ RtoTask
    <3>1. o \notin QueuedRequests(n) /\ C[o].status = "Waiting"
      BY ZenonT(60), <2>4, <2>9
    <3>2. o \in pending[n] /\ (RtoTask \/ InQueue(n, o))
      BY ZenonT(60), <2>2, <3>1 DEF TrackInv, Tracked
    <3> QED
      BY ZenonT(60), <2>1, <3>1, <3>2 DEF QueuedRequests, InQueue
  <2>10. Tracked(n)'
    BY ZenonT(90), <2>4, <2>5, <2>6, <2>7, <2>8, <2>9 DEF Tracked
  <2> QED
    BY ZenonT(90), <2>1, <2>10, <1>OneNode
<1>RestartTracks.
      ASSUME TrackInv, NEW n \in Nodes, Restart(n)
      PROVE  TrackInv'
  <2> USE <1>RestartTracks
  <2>1. /\ Tables' /\ sess'[n] = << >> /\ calls'[n] = << >>
        /\ pending'[n] = {} /\ next_opaque'[n] = 1
        /\ \A m \in Nodes : m # n =>
              /\ sess'[m] = sess[m] /\ calls'[m] = calls[m]
              /\ pending'[m] = pending[m] /\ next_opaque'[m] = next_opaque[m]
    BY ZenonT(60) DEF Restart, notify_peer_down, TrackInv, Tables
  <2>2. Len(calls'[n]) = 0 /\ DOMAIN calls'[n] = {} /\ calls'[n] \in Seq({})
    BY SMTT(60), <2>1, EmptySeq
  <2>3. next_opaque'[n] = Len(calls'[n]) + 1 /\ DOMAIN sess'[n] = {}
    BY <2>1, <2>2
  <2>4. Tracked(n)'
    BY ZenonT(60), <2>1, <2>2, <2>3 DEF Tracked
  <2> QED
    BY ZenonT(60), <2>1, <2>4, <1>OneNode
<1> QED
  <2> SUFFICES ASSUME TrackInv, [Next]_vars
               PROVE  TrackInv'
    BY Zenon
  <2>1. CASE UNCHANGED vars
    <3>1. UNCHANGED <<sess, calls, pending, next_opaque>>
      BY <2>1 DEF vars, transportVars, engineVars
    <3> QED
      BY SMTT(60), <3>1, <1>NodeUntouched DEF TrackInv, Tables
  <2>2. CASE NetworkStep
    <3>1. UNCHANGED <<sess, calls, pending, next_opaque>>
      BY <2>2 DEF NetworkStep, LoseData, LoseAck, DuplicateData, DuplicateAck, engineVars
    <3> QED
      BY <3>1, <1>NodeUntouched DEF TrackInv, Tables
  <2>3. ASSUME NEW n \in Nodes, CallStep(n) PROVE TrackInv'
    BY ZenonT(60), <2>3, <1>FireAndForgetTracks, <1>IssueRequestTracks, <1>RefuseRequestTracks,
       <1>VerbTimeoutTracks
       DEF CallStep
  <2>4. ASSUME NEW n \in Nodes, handle_verb_frame(n) PROVE TrackInv'
    BY ZenonT(60), <2>4, <1>HandlersTrack, <1>ResponseTracks DEF handle_verb_frame
  <2>5. ASSUME NEW n \in Nodes, PeerEvent(n) PROVE TrackInv'
    BY <2>5, <1>JoinedTracks, <1>RecoveredTracks, <1>DownTracks, <1>RestartTracks DEF PeerEvent
  <2> QED
    BY ZenonT(60), <2>1, <2>2, <2>3, <2>4, <2>5, <1>TransportTracks, <1>ExpireTracks
       DEF Next, StableNext

\* The invariant of the waiting calls holds in every state, through peer events,
\* new sessions and restarts.
THEOREM TrackInvariance == Spec => []TrackInv
<1>1. Init => TrackInv
  BY InitTrack
<1>2. TrackInv /\ [Next]_vars => TrackInv'
  BY NextTrack
<1> QED
  BY <1>1, <1>2, PTL DEF Spec

\* The pending table holds no finished call, through peer events and restarts:
\* complete_pending_request, the timeout and disconnect_peer each take the entry
\* of the call they end.
THEOREM PendingStaysOpen == Spec => []PendingIsOpen
<1>1. TrackInv => PendingIsOpen
  BY ZenonT(90) DEF TrackInv, Tracked, PendingIsOpen
<1> QED
  BY <1>1, TrackInvariance, PTL

\* A waiting call has its entry in the pending table and, without the RTO task,
\* its request in the queue of a session: disconnect_peer finds every call
\* that nobody will answer.
THEOREM WaitingStaysTracked == Spec => []WaitingIsTracked
<1>1. TrackInv => WaitingIsTracked
  BY DEF TrackInv, Tracked, InQueue, WaitingIsTracked, QueuedRequests
<1> QED
  BY <1>1, TrackInvariance, PTL
=============================================================================
