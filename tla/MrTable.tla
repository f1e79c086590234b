------------------------------ MODULE MrTable ------------------------------
(***************************************************************************)
(* The table of registered memory regions of one node (ub-core/src/mr.rs), *)
(* the tasks that access a region while serving a peer's verb, and the     *)
(* calls that deregister it.                                               *)
(*                                                                         *)
(* A region is reached without a lock: `state` and `inflight_refs` are     *)
(* atomics, so every load, store and read-modify-write of them is a step   *)
(* of its own, and the steps of tasks and callers interleave.  What a      *)
(* region stores, its permissions and its offsets are left out: a check    *)
(* of a verb handler passes or fails, and each way out of the handler      *)
(* gives the reference back.                                               *)
(***************************************************************************)
EXTENDS Integers, Sequences, FiniteSets

CONSTANTS
    Tasks,       \* tasks that serve verbs (the daemon has one, `inbound_handle`)
    Callers,     \* concurrent calls of deregister and deregister_async
    MaxRegions   \* bound on registrations

ASSUME MrAssumption == MaxRegions \in Nat /\ IsFiniteSet(Tasks)

VARIABLES
    mr,            \* regions by handle: [state, refs, listed, outcome]
    unpublished,   \* handles inserted whose Publish event is not sent yet
    events,        \* the channel publish_tx to the control plane
    acc,           \* task -> [pc, h, early]: the access it is serving
    dereg          \* caller -> [pc, h, woken, missed]: its deregistration

tableVars == <<mr, unpublished, events, acc, dereg>>

Handles == DOMAIN mr

\* MrState is the field `state`; `outcome` remembers how the call that took
\* the entry out of the table returned.
Region == [state : {"Active", "Revoking", "Released"}, refs : Nat,
           listed : BOOLEAN, outcome : {"none", "ok", "timeout", "removed"}]

Event == [type : {"Publish", "Revoke"}, h : Nat]

\* `missed` is history: a notification came between the caller's load of the
\* references and its wait.
Idle == [pc |-> "idle", h |-> 0, woken |-> FALSE, missed |-> FALSE]
NoAccess == [pc |-> "idle", h |-> 0, early |-> FALSE]

TableInit ==
    /\ mr = <<>>
    /\ unpublished = {}
    /\ events = <<>>
    /\ acc = [t \in Tasks |-> NoAccess]
    /\ dereg = [d \in Callers |-> Idle]

-----------------------------------------------------------------------------
(* Registration: the entry is in the table before its Publish is sent.     *)

register ==
    /\ Len(mr) < MaxRegions
    /\ mr' = Append(mr, [state |-> "Active", refs |-> 0, listed |-> TRUE,
                         outcome |-> "none"])
    /\ unpublished' = unpublished \union {Len(mr) + 1}
    /\ UNCHANGED <<events, acc, dereg>>

register_publish(h) ==
    /\ h \in unpublished
    /\ unpublished' = unpublished \ {h}
    /\ events' = Append(events, [type |-> "Publish", h |-> h])
    /\ UNCHANGED <<mr, acc, dereg>>

-----------------------------------------------------------------------------
(* An access by a verb handler: look the handle up, try_inflight_inc (a    *)
(* load of the state, then fetch_add), the checks and the device,          *)
(* inflight_dec (a fetch_sub, then notify_waiters when it was the last).   *)
(* `early` says that the reference was taken while the region was Active.  *)

Step(t, pc) == acc' = [acc EXCEPT ![t] = [@ EXCEPT !.pc = pc]]

lookup(t, h) ==
    /\ acc[t].pc = "idle"
    /\ mr[h].listed
    /\ acc' = [acc EXCEPT ![t] = [pc |-> "found", h |-> h, early |-> FALSE]]
    /\ UNCHANGED <<mr, unpublished, events, dereg>>

try_inflight_inc_load(t) ==
    /\ acc[t].pc = "found"
    /\ IF mr[acc[t].h].state = "Active"
         THEN Step(t, "checked")
         ELSE acc' = [acc EXCEPT ![t] = NoAccess]
    /\ UNCHANGED <<mr, unpublished, events, dereg>>

try_inflight_inc_add(t) ==
    /\ acc[t].pc = "checked"
    /\ acc' = [acc EXCEPT ![t] = [@ EXCEPT !.pc = "perms",
                                          !.early = (mr[acc[t].h].state = "Active")]]
    /\ mr' = [mr EXCEPT ![acc[t].h].refs = @ + 1]
    /\ UNCHANGED <<unpublished, events, dereg>>

\* The points of a handler that has a reference, and its ways from one to the
\* next: check_perms; in handle_atomic_cas and handle_atomic_faa the alignment
\* and the length of the operands; the device; in handle_write_imm the jetty.
\* Every way out calls inflight_dec.
Using == {"perms", "operands", "device", "jetty", "done"}

HandlerSteps ==
    {<<"perms", "done">>, <<"perms", "operands">>, <<"perms", "device">>,
     <<"operands", "done">>, <<"operands", "device">>,
     <<"device", "done">>, <<"device", "jetty">>, <<"jetty", "done">>}

\* A mistake to compare with: an atomic request that is not aligned is
\* answered without inflight_dec.
handler_step_leak(t) ==
    /\ \E step \in HandlerSteps :
         /\ acc[t].pc = step[1]
         /\ IF step = <<"operands", "done">> THEN acc' = [acc EXCEPT ![t] = NoAccess]
                                            ELSE Step(t, step[2])
    /\ UNCHANGED <<mr, unpublished, events, dereg>>

handler_step(t) ==
    /\ \E step \in HandlerSteps : acc[t].pc = step[1] /\ Step(t, step[2])
    /\ UNCHANGED <<mr, unpublished, events, dereg>>

inflight_dec(t) ==
    /\ acc[t].pc = "done"
    /\ mr' = [mr EXCEPT ![acc[t].h].refs = @ - 1]
    /\ IF mr[acc[t].h].refs = 1
         THEN Step(t, "notify")
         ELSE acc' = [acc EXCEPT ![t] = NoAccess]
    /\ UNCHANGED <<unpublished, events, dereg>>

\* notify_waiters wakes the waiters that exist at the call, and keeps
\* nothing for a waiter that comes later.
inflight_notify(t) ==
    /\ acc[t].pc = "notify"
    /\ dereg' = [d \in Callers |->
                   IF dereg[d].pc = "waiting" /\ dereg[d].h = acc[t].h
                     THEN [dereg[d] EXCEPT !.woken = TRUE]
                   ELSE IF dereg[d].pc = "arming" /\ dereg[d].h = acc[t].h
                     THEN [dereg[d] EXCEPT !.missed = TRUE]
                   ELSE dereg[d]]
    /\ acc' = [acc EXCEPT ![t] = NoAccess]
    /\ UNCHANGED <<mr, unpublished, events>>

-----------------------------------------------------------------------------
(* Deregistration.  Both forms fail with AddrInvalid on an unlisted handle *)
(* and with Internal when the compare-exchange loses; neither failure      *)
(* changes anything.  The winner sends Revoke; deregister removes the      *)
(* entry at once, deregister_async waits for the references first.         *)

Goto(d, pc) == dereg' = [dereg EXCEPT ![d] = [@ EXCEPT !.pc = pc]]
Return(d) == dereg' = [dereg EXCEPT ![d] = Idle]

deregister_lookup(d, h) ==
    /\ dereg[d].pc = "idle"
    /\ mr[h].listed
    /\ dereg' = [dereg EXCEPT ![d] = [pc |-> "found", h |-> h, woken |-> FALSE, missed |-> FALSE]]
    /\ UNCHANGED <<mr, unpublished, events, acc>>

\* A mistake to compare with: a store in place of the compare-exchange.
deregister_store(d) ==
    /\ dereg[d].pc = "found"
    /\ mr' = [mr EXCEPT ![dereg[d].h] = [@ EXCEPT !.state = "Revoking"]]
    /\ events' = Append(events, [type |-> "Revoke", h |-> dereg[d].h])
    /\ \E pc \in {"draining", "removing"} : Goto(d, pc)
    /\ UNCHANGED <<unpublished, acc>>

deregister_cas(d) ==
    /\ dereg[d].pc = "found"
    /\ IF mr[dereg[d].h].state = "Active"
         THEN /\ mr' = [mr EXCEPT ![dereg[d].h] = [@ EXCEPT !.state = "Revoking"]]
              /\ events' = Append(events, [type |-> "Revoke", h |-> dereg[d].h])
              /\ \E pc \in {"draining", "removing"} : Goto(d, pc)
         ELSE Return(d) /\ UNCHANGED <<mr, events>>
    /\ UNCHANGED <<unpublished, acc>>

\* deregister (the synchronous form): the entry goes while accesses may be
\* under way, and its state stays Revoking.
deregister_remove(d) ==
    /\ dereg[d].pc = "removing"
    /\ mr' = [mr EXCEPT ![dereg[d].h] = [@ EXCEPT !.listed = FALSE, !.outcome = "removed"]]
    /\ Return(d)
    /\ UNCHANGED <<unpublished, events, acc>>

\* deregister_async reads inflight_refs; wait_inflight_zero reads it again
\* and only then creates the future that inflight_dec can wake.
drain_load(d) ==
    /\ dereg[d].pc = "draining"
    /\ Goto(d, IF mr[dereg[d].h].refs > 0 THEN "loading" ELSE "release")
    /\ UNCHANGED <<mr, unpublished, events, acc>>

wait_inflight_zero_load(d) ==
    /\ dereg[d].pc = "loading"
    /\ Goto(d, IF mr[dereg[d].h].refs = 0 THEN "release" ELSE "arming")
    /\ UNCHANGED <<mr, unpublished, events, acc>>

wait_inflight_zero_arm(d) ==
    /\ dereg[d].pc = "arming"
    /\ Goto(d, "waiting")
    /\ UNCHANGED <<mr, unpublished, events, acc>>

deregister_woken(d) ==
    /\ dereg[d].pc = "waiting"
    /\ dereg[d].woken
    /\ Goto(d, "release")
    /\ UNCHANGED <<mr, unpublished, events, acc>>

ReleaseWith(d, outcome) ==
    /\ mr' = [mr EXCEPT ![dereg[d].h] = [@ EXCEPT !.state = "Released", !.listed = FALSE,
                                                  !.outcome = outcome]]
    /\ Return(d)
    /\ UNCHANGED <<unpublished, events, acc>>

\* A mistake to compare with: running out of time is taken for drained.
deregister_timeout_ok(d) ==
    /\ dereg[d].pc = "waiting"
    /\ ~dereg[d].woken
    /\ ReleaseWith(d, "ok")

\* tokio's timeout polls the future before the timer: a woken caller does
\* not time out.
deregister_timeout(d) ==
    /\ dereg[d].pc = "waiting"
    /\ ~dereg[d].woken
    /\ ReleaseWith(d, "timeout")

deregister_release(d) ==
    /\ dereg[d].pc = "release"
    /\ ReleaseWith(d, "ok")

-----------------------------------------------------------------------------
Access(t) ==
    \/ \E h \in Handles : lookup(t, h)
    \/ try_inflight_inc_load(t)
    \/ try_inflight_inc_add(t)
    \/ handler_step(t)
    \/ inflight_dec(t)
    \/ inflight_notify(t)

\* What a deregistration does once it has looked its handle up.
Deregister(d) ==
    \/ deregister_cas(d)
    \/ deregister_remove(d)
    \/ drain_load(d)
    \/ wait_inflight_zero_load(d)
    \/ wait_inflight_zero_arm(d)
    \/ deregister_woken(d)
    \/ deregister_timeout(d)
    \/ deregister_release(d)

TableNext ==
    \/ register
    \/ \E h \in unpublished : register_publish(h)
    \/ \E t \in Tasks : Access(t)
    \/ \E d \in Callers : Deregister(d) \/ \E h \in Handles : deregister_lookup(d, h)

TableSpec == TableInit /\ [][TableNext]_tableVars

-----------------------------------------------------------------------------
(* Properties.                                                             *)

AccessState == [pc : {"idle", "found", "checked", "notify"} \union Using, h : Nat, early : BOOLEAN]
CallState == [pc : {"idle", "found", "removing", "draining", "loading", "arming", "waiting",
                    "release"},
              h : Nat, woken : BOOLEAN, missed : BOOLEAN]

\* The shape of the table, of the accesses and of the deregistrations.
TableTypeOK ==
    /\ mr \in Seq(Region)
    /\ unpublished \subseteq Handles
    /\ events \in Seq(Event)
    /\ acc \in [Tasks -> AccessState]
    /\ dereg \in [Callers -> CallState]

Holders(h) == {t \in Tasks : acc[t].pc \in Using /\ acc[t].h = h}

\* inflight_refs is the number of accesses under way: a part of the inductive
\* invariant, which the wait for the references rests on.
RefsCountAccesses ==
    \A h \in Handles : mr[h].refs = Cardinality(Holders(h))

\* Someone is going to notify the waiters of h: an access to it is under way,
\* or has given the last reference back and is about to notify.
Attended(h) ==
    \E t \in Tasks : acc[t].h = h /\ acc[t].pc \in Using \union {"notify"}

\* A caller of deregister_async never waits for nobody: while it waits and is
\* not woken, an access to the region is under way or its notification is
\* about to come, whichever way each handler leaves, unless the notification
\* came between the caller's load of the references and its wait
\* (inflight_dec on every path of the verb handlers, wait_inflight_zero).
WaitsForAccess ==
    \A d \in Callers :
      dereg[d].pc = "waiting" /\ ~dereg[d].woken /\ ~dereg[d].missed => Attended(dereg[d].h)

\* mr.rs, wait_inflight_zero: "Wait for inflight_refs to reach zero": a caller
\* that is not woken has something to wait for.
WaitEndsAtZero ==
    \A d \in Callers : dereg[d].pc = "waiting" /\ ~dereg[d].woken => Attended(dereg[d].h)

Winners(h) == {d \in Callers : dereg[d].h = h /\ dereg[d].pc \notin {"idle", "found"}}

\* However many calls of deregister and deregister_async race for a region,
\* one wins: only it revokes, waits and removes, and while it is at work the
\* entry is still listed, Revoking, and not yet decided.
OneDeregistration ==
    \A h \in Handles :
        /\ \A d, e \in Winners(h) : d = e
        /\ \A d \in Winners(h) :
             mr[h].listed /\ mr[h].state = "Revoking" /\ mr[h].outcome = "none"
        /\ Winners(h) = {} => (mr[h].listed <=> mr[h].state = "Active")

\* When deregister_async returns Ok, no access that took its reference while
\* the region was Active is still under way.
EarlyAccessesDone ==
    \A h \in Handles : mr[h].outcome = "ok" =>
        \A t \in Holders(h) : ~acc[t].early

\* mr.rs, deregister_async: "Returns Ok(()) if inflight drained and MR
\* released": after Ok no access is under way.
OkMeansDrained ==
    \A h \in Handles : mr[h].outcome = "ok" => Holders(h) = {}
=============================================================================
