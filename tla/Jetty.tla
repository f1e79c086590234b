------------------------------- MODULE Jetty -------------------------------
(***************************************************************************)
(* Jettys (ub-core/src/jetty.rs): send, receive and completion queues, the *)
(* table that creates and deregisters them, and the verb handlers that     *)
(* match an incoming Send or WriteImm with them (ub-dataplane/src/lib.rs,  *)
(* handle_send and handle_write_imm).                                      *)
(*                                                                         *)
(* Each queue has its own lock, so an operation that visits two of them is *)
(* two steps.  Whoever looked a Jetty up keeps it after the table forgot   *)
(* it: posting and polling stay possible.  A work request or a buffer is a *)
(* number, in the order of posting; payloads and immediates are left out.  *)
(***************************************************************************)
EXTENDS Integers, Sequences, Functions

CONSTANTS
    jfs_depth, jfr_depth, jfc_depth, jfc_high_watermark,   \* JettyConfig
    Senders,      \* application tasks that post work requests
    MaxJettys,    \* bound on Jettys created
    MaxBusy,      \* only Jettys up to this handle are posted to and receive frames
    MaxWork       \* bound on buffers and requests posted

ASSUME JettyAssumption ==
    /\ jfs_depth \in Nat /\ jfr_depth \in Nat /\ jfc_depth \in Nat
    /\ jfc_high_watermark \in Nat
    /\ MaxJettys \in Nat /\ MaxBusy \in Nat /\ MaxWork \in Nat

VARIABLES
    jetty,      \* Jettys by handle: [jfs, jfr, jfc, created, life, mark]
    default,    \* default_jetty, 0 when there is none
    posted,     \* buffers and requests posted so far
    sending,    \* sender -> 0, or the handle whose JFC it found below the mark
    handler,    \* [pc, h, w]: the task that handles incoming frames
    polled,     \* completions of posted work that were polled, in order
    dropped,    \* work whose completion found the JFC full
    handed      \* requests the send worker popped

vars == <<jetty, default, posted, sending, handler, polled, dropped, handed>>

Handles == DOMAIN jetty
Work == 1..MaxWork

\* work is 0 for a WriteImm, which completes nothing that was posted.
Cqe == [work : 0..MaxWork, status : {"OK", "FLUSHED"}, jetty_id : 1..MaxJettys]

\* The table holds a Jetty while it is "listed"; the deregister that removed
\* it then clears the default and then closes it, which `mark` remembers as
\* the number of posts so far.
Life == {"listed", "removed", "cleared", "closed"}

NoFrame == [pc |-> "idle", h |-> 0, w |-> 0]

Init ==
    /\ jetty = <<>>
    /\ default = 0
    /\ posted = 0
    /\ sending = [s \in Senders |-> 0]
    /\ handler = NoFrame
    /\ polled = <<>>
    /\ dropped = {}
    /\ handed = {}

-----------------------------------------------------------------------------
(* The table.  create inserts, then tries to become the default.           *)

create_insert ==
    /\ Len(jetty) < MaxJettys
    /\ jetty' = Append(jetty, [jfs |-> <<>>, jfr |-> <<>>, jfc |-> <<>>,
                               created |-> FALSE, life |-> "listed", mark |-> 0])
    /\ UNCHANGED <<default, posted, sending, handler, polled, dropped, handed>>

create_default(h) ==
    /\ ~jetty[h].created
    /\ jetty' = [jetty EXCEPT ![h].created = TRUE]
    /\ default' = IF default = 0 THEN h ELSE default
    /\ UNCHANGED <<posted, sending, handler, polled, dropped, handed>>

deregister_remove(h) ==
    /\ jetty[h].life = "listed"
    /\ jetty' = [jetty EXCEPT ![h].life = "removed"]
    /\ UNCHANGED <<default, posted, sending, handler, polled, dropped, handed>>

deregister_default(h) ==
    /\ jetty[h].life = "removed"
    /\ jetty' = [jetty EXCEPT ![h].life = "cleared"]
    /\ default' = IF default = h THEN 0 ELSE default
    /\ UNCHANGED <<posted, sending, handler, polled, dropped, handed>>

\* close empties the JFS, then the JFR, into the JFC, past its depth.
Flushed(h, q) ==
    [i \in DOMAIN q |-> [work |-> q[i], status |-> "FLUSHED", jetty_id |-> h]]

\* A mistake to compare with: close leaves the posted buffers.
close_keeps_jfr(h) ==
    /\ jetty[h].life = "cleared"
    /\ jetty' = [jetty EXCEPT ![h] =
                   [jetty[h] EXCEPT !.life = "closed", !.mark = posted, !.jfs = <<>>,
                                    !.jfc = @ \o Flushed(h, jetty[h].jfs)]]
    /\ UNCHANGED <<default, posted, sending, handler, polled, dropped, handed>>

close(h) ==
    /\ jetty[h].life = "cleared"
    /\ jetty' = [jetty EXCEPT ![h] =
                   [jetty[h] EXCEPT
                      !.life = "closed", !.mark = posted, !.jfs = <<>>, !.jfr = <<>>,
                      !.jfc = @ \o Flushed(h, jetty[h].jfs) \o Flushed(h, jetty[h].jfr)]]
    /\ UNCHANGED <<default, posted, sending, handler, polled, dropped, handed>>

-----------------------------------------------------------------------------
(* The application: post_recv, post_send (a look at the JFC, then a push   *)
(* on the JFS), poll_cqe; and the worker that pops requests.  A full queue *)
(* refuses with NoResources.  None of them looks at `closed`.              *)

post_recv(h) ==
    /\ posted < MaxWork
    /\ Len(jetty[h].jfr) < jfr_depth
    /\ posted' = posted + 1
    /\ jetty' = [jetty EXCEPT ![h].jfr = Append(@, posted')]
    /\ UNCHANGED <<default, sending, handler, polled, dropped, handed>>

post_send_check(s, h) ==
    /\ sending[s] = 0
    /\ Len(jetty[h].jfc) < jfc_high_watermark
    /\ sending' = [sending EXCEPT ![s] = h]
    /\ UNCHANGED <<jetty, default, posted, handler, polled, dropped, handed>>

post_send_push(s) ==
    /\ sending[s] # 0
    /\ sending' = [sending EXCEPT ![s] = 0]
    /\ LET h == sending[s] IN
         IF Len(jetty[h].jfs) < jfs_depth /\ posted < MaxWork
           THEN /\ posted' = posted + 1
                /\ jetty' = [jetty EXCEPT ![h].jfs = Append(@, posted')]
           ELSE UNCHANGED <<jetty, posted>>
    /\ UNCHANGED <<default, handler, polled, dropped, handed>>

pop_send(h) ==
    /\ jetty[h].jfs # <<>>
    /\ handed' = handed \union {Head(jetty[h].jfs)}
    /\ jetty' = [jetty EXCEPT ![h].jfs = Tail(@)]
    /\ UNCHANGED <<default, posted, sending, handler, polled, dropped>>

poll_cqe(h) ==
    /\ jetty[h].jfc # <<>>
    /\ LET cqe == Head(jetty[h].jfc)
       IN  polled' = IF cqe.work = 0 THEN polled ELSE Append(polled, cqe)
    /\ jetty' = [jetty EXCEPT ![h].jfc = Tail(@)]
    /\ UNCHANGED <<default, posted, sending, handler, dropped, handed>>

-----------------------------------------------------------------------------
(* The task that handles incoming frames: find the Jetty; for a Send pop a *)
(* buffer (none: the message is dropped) and push its completion; for a    *)
(* WriteImm, which has written to its region, push a completion.  push_cqe *)
(* refuses when the JFC is full, and the handlers only count that.         *)

handler_lookup(h) ==
    /\ handler.pc = "idle"
    /\ jetty[h].life = "listed"
    /\ handler' = [pc |-> "found", h |-> h, w |-> 0]
    /\ UNCHANGED <<jetty, default, posted, sending, polled, dropped, handed>>

\* A mistake to compare with: the buffer posted last is filled first.
pop_recv_newest ==
    /\ handler.pc = "found"
    /\ LET q == jetty[handler.h].jfr IN
         IF q = <<>>
           THEN handler' = NoFrame /\ UNCHANGED jetty
           ELSE /\ handler' = [handler EXCEPT !.pc = "matched", !.w = q[Len(q)]]
                /\ jetty' = [jetty EXCEPT ![handler.h].jfr = SubSeq(@, 1, Len(@) - 1)]
    /\ UNCHANGED <<default, posted, sending, polled, dropped, handed>>

\* A mistake to compare with: the buffer stays in the queue.
pop_recv_peek ==
    /\ handler.pc = "found"
    /\ LET q == jetty[handler.h].jfr IN
         handler' = IF q = <<>> THEN NoFrame
                    ELSE [handler EXCEPT !.pc = "matched", !.w = Head(q)]
    /\ UNCHANGED <<jetty, default, posted, sending, polled, dropped, handed>>

pop_recv ==
    /\ handler.pc = "found"
    /\ LET q == jetty[handler.h].jfr IN
         IF q = <<>>
           THEN handler' = NoFrame /\ UNCHANGED jetty
           ELSE /\ handler' = [handler EXCEPT !.pc = "matched", !.w = Head(q)]
                /\ jetty' = [jetty EXCEPT ![handler.h].jfr = Tail(@)]
    /\ UNCHANGED <<default, posted, sending, polled, dropped, handed>>

Full(h) == Len(jetty[h].jfc) >= jfc_depth

push_cqe(h, w) ==
    jetty' = [jetty EXCEPT ![h].jfc =
                IF Full(h) THEN @
                ELSE Append(@, [work |-> w, status |-> "OK", jetty_id |-> h])]

handle_send_complete ==
    /\ handler.pc = "matched"
    /\ push_cqe(handler.h, handler.w)
    /\ dropped' = IF Full(handler.h) THEN dropped \union {handler.w} ELSE dropped
    /\ handler' = NoFrame
    /\ UNCHANGED <<default, posted, sending, polled, handed>>

handle_write_imm ==
    /\ handler.pc = "found"
    /\ push_cqe(handler.h, 0)
    /\ handler' = NoFrame
    /\ UNCHANGED <<default, posted, sending, polled, dropped, handed>>

-----------------------------------------------------------------------------
Next ==
    \/ create_insert
    \/ \E h \in Handles :
         create_default(h) \/ deregister_remove(h) \/ deregister_default(h) \/ close(h)
    \/ \E h \in {h \in Handles : h <= MaxBusy} :
         \/ post_recv(h) \/ pop_send(h) \/ poll_cqe(h) \/ handler_lookup(h)
         \/ \E s \in Senders : post_send_check(s, h)
    \/ \E s \in Senders : post_send_push(s)
    \/ pop_recv
    \/ handle_send_complete
    \/ handle_write_imm

Spec == Init /\ [][Next]_vars

-----------------------------------------------------------------------------
(* Properties.                                                             *)

\* The shape of every variable; a queue never exceeds its depth.
TypeOK ==
    /\ \A h \in Handles : Len(jetty[h].jfs) <= jfs_depth /\ Len(jetty[h].jfr) <= jfr_depth
    /\ jetty \in Seq([jfs : Seq(Work), jfr : Seq(Work), jfc : Seq(Cqe),
                      created : BOOLEAN, life : Life, mark : 0..MaxWork])
    /\ default \in 0..MaxJettys
    /\ posted \in 0..MaxWork
    /\ sending \in [Senders -> 0..MaxJettys]
    /\ handler \in [pc : {"idle", "found", "matched"}, h : 0..MaxJettys, w : 0..MaxWork]
    /\ polled \in Seq(Cqe)
    /\ dropped \subseteq Work
    /\ handed \subseteq Work

WorkOf(cqes) == {cqes[i].work : i \in DOMAIN cqes}

\* What became of a buffer or a request, for the refinement of WorkPromise.
Fate(w) ==
    CASE w > posted -> "new"
      [] w \in dropped -> "dropped"
      [] w \in WorkOf(polled) -> "reaped"
      [] \E h \in Handles : w \in WorkOf(jetty[h].jfc) -> "done"
      [] w \in handed \/ (handler.pc = "matched" /\ handler.w = w) -> "taken"
      [] OTHER -> "posted"

Promise == INSTANCE WorkPromise WITH fate <- [w \in Work |-> Fate(w)]

\* The queues, their locks and the handlers keep what WorkPromise promises
\* for each buffer and request: one consumer, one completion, one poll.
WorkRefinement == Promise!Spec

\* Where a buffer or a request is: the queue and the position in it, or the
\* hands it is in.
Held(queue, w) == {i \in DOMAIN queue : queue[i] = w}
Completions(cqes, w) == {i \in DOMAIN cqes : cqes[i].work = w}
Places(w) ==
    (UNION {{<<"jfs", h, i>> : i \in Held(jetty[h].jfs, w)} : h \in Handles})
    \union (UNION {{<<"jfr", h, i>> : i \in Held(jetty[h].jfr, w)} : h \in Handles})
    \union (UNION {{<<"jfc", h, i>> : i \in Completions(jetty[h].jfc, w)} : h \in Handles})
    \union {<<"polled", 0, i>> : i \in Completions(polled, w)}
    \union (IF handler.pc = "matched" /\ handler.w = w THEN {<<"handler", 0, 0>>} ELSE {})
    \union (IF w \in handed THEN {<<"handed", 0, 0>>} ELSE {})
    \union (IF w \in dropped THEN {<<"dropped", 0, 0>>} ELSE {})

\* Every buffer and request that was posted is in exactly one place: a queue,
\* a completion, the hands of the handler or of the worker, or, when its
\* completion found the JFC full, nowhere but in the count of drops.
AccountedOnce == \A w \in 1..posted : \E p \in Places(w) : Places(w) = {p}

\* Messages fill a Jetty's buffers in the order in which they were posted,
\* however posting, polling and closing interleave with the handler.
ReceivesInOrder ==
    \A h \in Handles :
        LET cqes == polled \o jetty[h].jfc
            Received(i) == cqes[i].jetty_id = h /\ cqes[i].status = "OK" /\ cqes[i].work # 0
        IN  \A i, j \in DOMAIN cqes :
              i < j /\ Received(i) /\ Received(j) => cqes[i].work < cqes[j].work

\* Closing completes all that was posted before it: a buffer or a request
\* that a closed Jetty still holds was posted after it closed.
FlushIsComplete ==
    \A h \in Handles : jetty[h].life = "closed" =>
        \A w \in Range(jetty[h].jfs \o jetty[h].jfr) : w > jetty[h].mark

\* A JFC grows past its depth only by what close flushes into it.
JfcBounded ==
    \A h \in Handles :
        Len(jetty[h].jfc) <= jfc_depth + (IF jetty[h].life = "closed"
                                           THEN jfs_depth + jfr_depth ELSE 0)

\* While the default Jetty is in the table no other takes its place, and
\* deregistering another one does not take it away.
DefaultKept ==
    [][default # 0 /\ jetty[default].life = "listed" => default' = default]_vars

\* docs/REQUIREMENTS.md, FR-JETTY-3: a backlog of completions must not lose
\* a completion event silently.
NoCompletionLost == dropped = {}
=============================================================================
