--------------------------- MODULE MrTableProofs ----------------------------
(***************************************************************************)
(* Theorems about the region table, for any number of tasks, of racing     *)
(* deregistrations, of regions and of connections to the peer.  Beside the *)
(* types, the invariant says that what tasks and callers work on are       *)
(* handles of the table, and that a listed region is not decided yet.      *)
(***************************************************************************)
EXTENDS MrPublication, TLAPS, FiniteSetTheorems

\* What OneDeregistration says of one handle; an outcome comes with leaving
\* the table.
OneAtMost(W, r) ==
    /\ \A d, e \in W : d = e
    /\ \A d \in W : r.listed /\ r.state = "Revoking"
    /\ W = {} => (r.listed <=> r.state = "Active")
    /\ r.listed => r.outcome = "none"

Decided(h) == OneAtMost(Winners(h), mr[h])

Decisions == \A h \in Handles : Decided(h)

IInv ==
    /\ TableTypeOK
    /\ \A t \in Tasks : acc[t].pc # "idle" => acc[t].h \in Handles
    /\ \A d \in Callers : dereg[d].pc # "idle" => dereg[d].h \in Handles
    /\ RefsCountAccesses
    /\ Decisions

-----------------------------------------------------------------------------
(* What replacing one entry, one access or one call leaves alone.          *)

LEMMA Typed ==
    ASSUME IInv
    PROVE  /\ mr \in Seq(Region) /\ Handles = 1..Len(mr) /\ Len(mr) \in Nat
           /\ unpublished \subseteq Handles /\ events \in Seq(Event)
           /\ acc \in [Tasks -> AccessState] /\ dereg \in [Callers -> CallState]
           /\ \A h \in Handles : mr[h] \in Region
           /\ \A t \in Tasks : acc[t] \in AccessState
           /\ \A d \in Callers : dereg[d] \in CallState
BY DEF IInv, TableTypeOK, Handles

LEMMA Entry ==
    ASSUME IInv, NEW h \in Handles, NEW r \in Region, mr' = [mr EXCEPT ![h] = r]
    PROVE  /\ mr' \in Seq(Region) /\ Handles' = Handles /\ mr'[h] = r
           /\ \A i \in Handles : i # h => mr'[i] = mr[i]
<1>1. mr \in Seq(Region) /\ h \in DOMAIN mr
  BY Typed DEF Handles
<1> QED
  BY <1>1 DEF Handles

LEMMA OneAccess ==
    ASSUME IInv, NEW t \in Tasks, NEW r \in AccessState, acc' = [acc EXCEPT ![t] = r]
    PROVE  /\ acc' \in [Tasks -> AccessState] /\ acc'[t] = r
           /\ \A u \in Tasks : u # t => acc'[u] = acc[u]
BY Typed

LEMMA OneCall ==
    ASSUME IInv, NEW d \in Callers, NEW r \in CallState, dereg' = [dereg EXCEPT ![d] = r]
    PROVE  /\ dereg' \in [Callers -> CallState] /\ dereg'[d] = r
           /\ \A e \in Callers : e # d => dereg'[e] = dereg[e]
BY Typed

\* Where a handler has a reference, and where it has none.
LEMMA UsingPcs ==
    /\ "perms" \in Using /\ "done" \in Using
    /\ "idle" \notin Using /\ "found" \notin Using /\ "checked" \notin Using /\ "notify" \notin Using
BY DEF Using

LEMMA HoldersFinite == \A h : IsFiniteSet(Holders(h))
<1>1. \A h : Holders(h) \subseteq Tasks
  BY DEF Holders
<1> QED
  BY <1>1, FS_Subset, MrAssumption

\* A step that changes no count and no holder keeps the counts.
LEMMA CountsKept ==
    ASSUME IInv, Handles' = Handles,
           \A h \in Handles : Holders(h)' = Holders(h) /\ mr'[h].refs = mr[h].refs
    PROVE  RefsCountAccesses'
<1>1. RefsCountAccesses
  BY DEF IInv
<1> QED
  BY ZenonT(60), <1>1 DEF RefsCountAccesses

\* A step that leaves the winners and the entries of other handles alone.
LEMMA DecisionsKept ==
    ASSUME IInv, Handles' = Handles, NEW h \in Handles, Decided(h)',
           \A i \in Handles : i # h => Winners(i)' = Winners(i) /\ mr'[i] = mr[i]
    PROVE  Decisions'
<1>1. \A i \in Handles : Decided(i)
  BY ZenonT(60) DEF IInv, Decisions
<1>2. ASSUME NEW i \in Handles, i # h PROVE Decided(i)'
  BY ZenonT(60), <1>1, <1>2 DEF Decided
<1>3. \A i \in Handles' : Decided(i)'
  BY ZenonT(60), <1>2
<1> QED
  BY ZenonT(60), <1>3 DEF Decisions

\* The start: no region is registered.
LEMMA InitInv == ASSUME Init PROVE IInv
<1>1. mr \in Seq(Region) /\ Handles = {} /\ events \in Seq(Event)
  BY DEF Init, TableInit, Handles
<1>2. NoAccess \in AccessState /\ Idle \in CallState
  BY DEF NoAccess, Idle, AccessState, CallState
<1>3. TableTypeOK
  BY <1>1, <1>2 DEF Init, TableInit, TableTypeOK
<1>4. /\ \A t \in Tasks : acc[t].pc = "idle"
      /\ \A d \in Callers : dereg[d].pc = "idle"
  BY DEF Init, TableInit, NoAccess, Idle
<1> QED
  BY <1>1, <1>3, <1>4 DEF IInv, RefsCountAccesses, Decisions, Decided, OneAtMost

-----------------------------------------------------------------------------
(* One lemma for each kind of step.                                        *)

\* register: a new handle, which nobody works on.
LEMMA Register == ASSUME IInv, register PROVE IInv'
<1> DEFINE entry == [state |-> "Active", refs |-> 0, listed |-> TRUE, outcome |-> "none"]
<1>0. PICK n \in Nat : n = Len(mr) + 1
  BY Typed
<1>1. entry \in Region
  BY DEF Region
<1>2. mr' = Append(mr, entry) /\ UNCHANGED <<events, acc, dereg>> /\ unpublished' = unpublished \union {n}
  BY <1>0 DEF register
<1>3. /\ mr' \in Seq(Region) /\ Handles' = Handles \union {n} /\ n \notin Handles
      /\ mr'[n] = entry /\ \A h \in Handles : mr'[h] = mr[h]
  BY <1>0, <1>1, <1>2, Typed DEF Handles
<1>4. mr'[n].refs = 0 /\ mr'[n].listed /\ mr'[n].state = "Active" /\ mr'[n].outcome = "none"
  BY <1>3
<1> HIDE DEF entry
<1>5. TableTypeOK'
  BY <1>2, <1>3, Typed DEF TableTypeOK
<1>6. /\ \A h : Holders(h)' = Holders(h) /\ Winners(h)' = Winners(h)
      /\ Holders(n) = {} /\ Winners(n) = {}
  BY <1>2, <1>3, UsingPcs DEF IInv, Holders, Winners
<1>7. RefsCountAccesses'
  BY Zenon, <1>3, <1>4, <1>6, FS_EmptySet DEF IInv, RefsCountAccesses
<1>8. Decisions'
  <2>1. \A h \in Handles : Decided(h)'
    BY ZenonT(60), <1>3, <1>6 DEF IInv, Decisions, Decided
  <2>2. Decided(n)'
    BY ZenonT(60), <1>4, <1>6 DEF Decided, OneAtMost
  <2> QED
    BY ZenonT(60), <1>3, <2>1, <2>2 DEF Decisions
<1> QED
  BY <1>2, <1>3, <1>5, <1>7, <1>8 DEF IInv

\* register's event, and the steps of the control plane and the peer: the
\* table, the accesses and the calls stay.
LEMMA TableKept ==
    ASSUME IInv, UNCHANGED <<mr, acc, dereg>>, unpublished' \subseteq unpublished,
           events' \in Seq(Event)
    PROVE  IInv'
<1>1. Handles' = Handles
  BY DEF Handles
<1>2. TableTypeOK'
  BY <1>1, Typed DEF TableTypeOK
<1>3. \A h : Holders(h)' = Holders(h) /\ Winners(h)' = Winners(h)
  BY DEF Holders, Winners
<1> QED
  BY <1>1, <1>2, <1>3 DEF IInv, RefsCountAccesses, Decisions, Decided, OneAtMost

LEMMA RegisterPublish == ASSUME IInv, NEW h \in unpublished, register_publish(h) PROVE IInv'
<1>1. h \in Nat
  BY Typed
<1>2. [type |-> "Publish", h |-> h] \in Event
  BY <1>1 DEF Event
<1>3. events' \in Seq(Event)
  BY <1>2, Typed DEF register_publish
<1> QED
  BY <1>3, TableKept DEF register_publish

LEMMA PeerStep == ASSUME IInv, PeerNext PROVE IInv'
<1>1. UNCHANGED <<mr, acc, dereg, unpublished>>
  BY Zenon DEF PeerNext, broadcast_take, broadcast_send, hello, send_existing_list, send_existing_one,
         mr_message, connection_end, mark_down, member_snapshot, tableVars
<1>2. events' = events \/ (events # <<>> /\ events' = Tail(events))
  BY Zenon DEF PeerNext, broadcast_take, broadcast_send, hello, send_existing_list, send_existing_one,
         mr_message, connection_end, mark_down, member_snapshot, tableVars
<1>3. events' \in Seq(Event)
  <2>1. events \in Seq(Event)
    BY Typed
  <2> QED
    BY <1>2, <2>1
<1> QED
  BY SMTT(30), <1>1, <1>3, TableKept

\* A step of the handler leads from one point with a reference to another.
LEMMA HandlerUses ==
    ASSUME NEW t \in Tasks, handler_step(t)
    PROVE  \E pc \in Using : acc' = [acc EXCEPT ![t] = [acc[t] EXCEPT !.pc = pc]] /\ acc[t].pc \in Using
<1>1. PICK step \in HandlerSteps : acc[t].pc = step[1] /\ acc' = [acc EXCEPT ![t] = [acc[t] EXCEPT !.pc = step[2]]]
  BY Zenon DEF handler_step, Step
<1>2. step[1] \in Using /\ step[2] \in Using
  BY DEF HandlerSteps, Using
<1> QED
  BY Zenon, <1>1, <1>2

\* The lookup, the load of the state and the handler's own steps: no reference
\* is taken and none is given back.
LEMMA AccessLooks ==
    ASSUME IInv, NEW t \in Tasks,
           (\E h \in Handles : lookup(t, h)) \/ try_inflight_inc_load(t) \/ handler_step(t)
    PROVE  IInv'
<1>1. PICK r \in AccessState :
        /\ acc' = [acc EXCEPT ![t] = r]
        /\ \/ r.pc \notin Using /\ acc[t].pc \notin Using
           \/ r.pc \in Using /\ acc[t].pc \in Using /\ r.h = acc[t].h
        /\ r.pc # "idle" => r.h \in Handles
  <2>1. CASE \E h \in Handles : lookup(t, h)
    <3>1. PICK h \in Handles : lookup(t, h)
      BY <2>1
    <3>2. [pc |-> "found", h |-> h, early |-> FALSE] \in AccessState
      BY Typed DEF AccessState
    <3> QED
      BY Zenon, <3>1, <3>2, UsingPcs DEF lookup
  <2>2. CASE try_inflight_inc_load(t)
    <3>1. /\ NoAccess \in AccessState /\ NoAccess.pc = "idle"
          /\ [acc[t] EXCEPT !.pc = "checked"] \in AccessState
          /\ [acc[t] EXCEPT !.pc = "checked"].pc = "checked"
          /\ [acc[t] EXCEPT !.pc = "checked"].h = acc[t].h
      BY SMTT(30), Typed DEF AccessState, NoAccess
    <3> HIDE DEF NoAccess
    <3>2. acc[t].pc = "found" /\ acc[t].h \in Handles
      BY <2>2 DEF try_inflight_inc_load, IInv
    <3>3. acc' = [acc EXCEPT ![t] = [acc[t] EXCEPT !.pc = "checked"]] \/ acc' = [acc EXCEPT ![t] = NoAccess]
      BY <2>2 DEF try_inflight_inc_load, Step
    <3>4. CASE acc' = [acc EXCEPT ![t] = NoAccess]
      BY Zenon, <3>1, <3>2, <3>4, UsingPcs
    <3>5. CASE acc' = [acc EXCEPT ![t] = [acc[t] EXCEPT !.pc = "checked"]]
      BY Zenon, <3>1, <3>2, <3>5, UsingPcs
    <3> QED
      BY <3>3, <3>4, <3>5
  <2>3. CASE handler_step(t)
    <3>1. PICK pc \in Using : acc' = [acc EXCEPT ![t] = [acc[t] EXCEPT !.pc = pc]] /\ acc[t].pc \in Using
      BY <2>3, HandlerUses
    <3>2. /\ [acc[t] EXCEPT !.pc = pc] \in AccessState
          /\ [acc[t] EXCEPT !.pc = pc].pc = pc /\ [acc[t] EXCEPT !.pc = pc].h = acc[t].h
      BY Zenon, Typed DEF AccessState
    <3>3. acc[t].h \in Handles
      BY Zenon, <3>1, UsingPcs DEF IInv
    <3> QED
      BY Zenon, <3>1, <3>2, <3>3
  <2> QED
    BY <2>1, <2>2, <2>3
<1>2. UNCHANGED <<mr, unpublished, events, dereg>>
  BY DEF lookup, try_inflight_inc_load, handler_step
<1>3. /\ acc' \in [Tasks -> AccessState] /\ acc'[t] = r
      /\ \A u \in Tasks : u # t => acc'[u] = acc[u]
  BY Zenon, <1>1, OneAccess
<1>4. Handles' = Handles
  BY <1>2 DEF Handles
<1>5. TableTypeOK'
  BY <1>2, <1>3, <1>4, Typed DEF TableTypeOK
<1>6. \A h : Holders(h)' = Holders(h) /\ Winners(h)' = Winners(h)
  BY <1>1, <1>2, <1>3 DEF Holders, Winners
<1> QED
  BY <1>1, <1>2, <1>3, <1>4, <1>5, <1>6 DEF IInv, RefsCountAccesses, Decisions, Decided, OneAtMost

\* fetch_add: the task joins the holders of its handle, and only of it.
LEMMA AccessAdds == ASSUME IInv, NEW t \in Tasks, try_inflight_inc_add(t) PROVE IInv'
<1>0. PICK h \in Handles : /\ h = acc[t].h /\ mr[h] \in Region
                            /\ acc[t] \in AccessState /\ acc[t].pc = "checked"
  BY Typed DEF try_inflight_inc_add, IInv
<1> DEFINE r == [mr[acc[t].h] EXCEPT !.refs = @ + 1]
           s == [acc[t] EXCEPT !.pc = "perms", !.early = (mr[acc[t].h].state = "Active")]
<1>1. /\ r \in Region /\ r.refs = mr[h].refs + 1 /\ r.listed = mr[h].listed
      /\ r.state = mr[h].state /\ r.outcome = mr[h].outcome
  <2>1. mr[h].refs + 1 \in Nat
    BY <1>0 DEF Region
  <2> QED
    BY ZenonT(60), <1>0, <2>1 DEF Region
<1>2. s \in AccessState /\ s.pc = "perms" /\ s.h = h
  BY ZenonT(60), <1>0, UsingPcs DEF AccessState
<1>3. mr' = [mr EXCEPT ![h] = r] /\ acc' = [acc EXCEPT ![t] = s] /\ UNCHANGED <<unpublished, events, dereg>>
  <2>1. acc' = [acc EXCEPT ![t] = s]
    BY ZenonT(60) DEF try_inflight_inc_add
  <2>2. mr' = [mr EXCEPT ![acc[t].h] = r]
    BY ZenonT(60) DEF try_inflight_inc_add
  <2>3. UNCHANGED <<unpublished, events, dereg>>
    BY DEF try_inflight_inc_add
  <2> HIDE DEF r, s
  <2>4. mr' = [mr EXCEPT ![h] = r]
    BY ZenonT(60), <1>0, <2>2
  <2> QED
    BY <2>1, <2>3, <2>4
<1> HIDE DEF r, s
<1>4. /\ mr' \in Seq(Region) /\ Handles' = Handles /\ mr'[h] = r
      /\ \A i \in Handles : i # h => mr'[i] = mr[i]
  BY Zenon, <1>0, <1>1, <1>3, Entry
<1>5. /\ acc' \in [Tasks -> AccessState] /\ acc'[t] = s
      /\ \A u \in Tasks : u # t => acc'[u] = acc[u]
  BY Zenon, <1>2, <1>3, OneAccess
<1>6. TableTypeOK'
  BY <1>3, <1>4, <1>5, Typed DEF TableTypeOK
<1>7. /\ Holders(h)' = Holders(h) \union {t} /\ t \notin Holders(h)
      /\ \A i : i # h => Holders(i)' = Holders(i)
      /\ \A i : Winners(i)' = Winners(i)
  BY <1>0, <1>2, <1>3, <1>5, UsingPcs DEF Holders, Winners
<1>8. Cardinality(Holders(h)') = Cardinality(Holders(h)) + 1
  BY ZenonT(60), <1>7, HoldersFinite, FS_AddElement
<1>9. RefsCountAccesses'
  <2>1. \A i \in Handles : mr[i].refs = Cardinality(Holders(i))
    BY DEF IInv, RefsCountAccesses
  <2>2. mr'[h].refs = Cardinality(Holders(h)')
    BY ZenonT(60), <1>0, <1>1, <1>4, <1>8, <2>1
  <2>3. \A i \in Handles : i # h => mr'[i].refs = Cardinality(Holders(i)')
    BY ZenonT(60), <1>4, <1>7, <2>1
  <2> QED
    BY ZenonT(60), <1>4, <2>2, <2>3 DEF RefsCountAccesses
<1>10. Decisions'
  <2>1. Decided(h)
    BY ZenonT(60), <1>0 DEF IInv, Decisions
  <2>2. Decided(h)'
    BY ZenonT(60), <1>1, <1>4, <1>7, <2>1 DEF Decided, OneAtMost
  <2> QED
    BY ZenonT(60), <1>0, <1>4, <1>7, <2>2, DecisionsKept
<1>11. \A u \in Tasks : acc'[u].pc # "idle" => acc'[u].h \in Handles'
  BY <1>0, <1>2, <1>4, <1>5 DEF IInv
<1> QED
  BY <1>3, <1>4, <1>6, <1>9, <1>10, <1>11 DEF IInv

\* fetch_sub: the task leaves the holders of its handle, and only of it.
LEMMA AccessDone == ASSUME IInv, NEW t \in Tasks, inflight_dec(t) PROVE IInv'
<1>0. PICK h \in Handles : /\ h = acc[t].h /\ mr[h] \in Region
                            /\ acc[t] \in AccessState /\ acc[t].pc = "done"
  BY Typed DEF inflight_dec, IInv
<1> DEFINE r == [mr[acc[t].h] EXCEPT !.refs = @ - 1]
           s == IF mr[acc[t].h].refs = 1 THEN [acc[t] EXCEPT !.pc = "notify"] ELSE NoAccess
<1>7. t \in Holders(h) /\ mr[h].refs = Cardinality(Holders(h)) /\ IsFiniteSet(Holders(h))
  BY Zenon, <1>0, HoldersFinite, UsingPcs DEF IInv, RefsCountAccesses, Holders
<1>8. /\ Cardinality(Holders(h) \ {t}) = mr[h].refs - 1
      /\ Cardinality(Holders(h) \ {t}) \in Nat
  <2>1. IsFiniteSet(Holders(h) \ {t}) /\ Cardinality(Holders(h) \ {t}) = Cardinality(Holders(h)) - 1
    BY Zenon, <1>7, FS_RemoveElement
  <2> QED
    BY <1>7, <2>1, FS_CardinalityType
<1>1. /\ r \in Region /\ r.refs = mr[h].refs - 1 /\ r.listed = mr[h].listed
      /\ r.state = mr[h].state /\ r.outcome = mr[h].outcome
  BY ZenonT(60), <1>0, <1>8 DEF Region
<1>2. s \in AccessState /\ s.pc \in {"idle", "notify"} /\ (s.pc = "notify" => s.h = h)
  <2>1. /\ [acc[t] EXCEPT !.pc = "notify"] \in AccessState
        /\ [acc[t] EXCEPT !.pc = "notify"].pc = "notify"
        /\ [acc[t] EXCEPT !.pc = "notify"].h = h
    BY <1>0 DEF AccessState
  <2>2. NoAccess \in AccessState /\ NoAccess.pc = "idle"
    BY DEF AccessState, NoAccess
  <2> QED
    BY <2>1, <2>2
<1>3. mr' = [mr EXCEPT ![h] = r] /\ acc' = [acc EXCEPT ![t] = s] /\ UNCHANGED <<unpublished, events, dereg>>
  <2>1. acc' = [acc EXCEPT ![t] = s]
    BY ZenonT(60) DEF inflight_dec, Step
  <2>2. mr' = [mr EXCEPT ![acc[t].h] = r]
    BY ZenonT(60) DEF inflight_dec
  <2>3. UNCHANGED <<unpublished, events, dereg>>
    BY DEF inflight_dec
  <2> HIDE DEF r, s
  <2>4. mr' = [mr EXCEPT ![h] = r]
    BY ZenonT(60), <1>0, <2>2
  <2> QED
    BY <2>1, <2>3, <2>4
<1> HIDE DEF r, s
<1>4. /\ mr' \in Seq(Region) /\ Handles' = Handles /\ mr'[h] = r
      /\ \A i \in Handles : i # h => mr'[i] = mr[i]
  BY Zenon, <1>0, <1>1, <1>3, Entry
<1>5. /\ acc' \in [Tasks -> AccessState] /\ acc'[t] = s
      /\ \A u \in Tasks : u # t => acc'[u] = acc[u]
  BY Zenon, <1>2, <1>3, OneAccess
<1>6. TableTypeOK'
  BY <1>3, <1>4, <1>5, Typed DEF TableTypeOK
<1>9. /\ Holders(h)' = Holders(h) \ {t}
      /\ \A i : i # h => Holders(i)' = Holders(i)
      /\ \A i : Winners(i)' = Winners(i)
  BY <1>0, <1>2, <1>3, <1>5, UsingPcs DEF Holders, Winners
<1>10. RefsCountAccesses'
  <2>1. \A i \in Handles : mr[i].refs = Cardinality(Holders(i))
    BY DEF IInv, RefsCountAccesses
  <2>2. mr'[h].refs = Cardinality(Holders(h)')
    BY ZenonT(60), <1>0, <1>1, <1>4, <1>8, <1>9
  <2>3. \A i \in Handles : i # h => mr'[i].refs = Cardinality(Holders(i)')
    BY ZenonT(60), <1>4, <1>9, <2>1
  <2> QED
    BY ZenonT(60), <1>4, <2>2, <2>3 DEF RefsCountAccesses
<1>11. Decisions'
  <2>1. Decided(h)
    BY ZenonT(60), <1>0 DEF IInv, Decisions
  <2>2. Decided(h)'
    BY ZenonT(60), <1>1, <1>4, <1>9, <2>1 DEF Decided, OneAtMost
  <2> QED
    BY ZenonT(60), <1>0, <1>4, <1>9, <2>2, DecisionsKept
<1>12. \A u \in Tasks : acc'[u].pc # "idle" => acc'[u].h \in Handles'
  BY SMTT(30), <1>0, <1>2, <1>4, <1>5 DEF IInv
<1> QED
  BY <1>3, <1>4, <1>6, <1>10, <1>11, <1>12 DEF IInv

\* What notify_waiters does to the calls: who waits for the region is woken,
\* who has yet to wait misses it.
LEMMA Notified ==
    ASSUME IInv, NEW t \in Tasks, inflight_notify(t)
    PROVE  /\ dereg' \in [Callers -> CallState]
           /\ \A d \in Callers :
                /\ dereg'[d].pc = dereg[d].pc /\ dereg'[d].h = dereg[d].h
                /\ dereg'[d].woken => dereg[d].woken \/ dereg[d].pc = "waiting"
                /\ dereg[d].woken => dereg'[d].woken
                /\ dereg[d].missed => dereg'[d].missed
                /\ dereg[d].h = acc[t].h /\ dereg[d].pc = "waiting" => dereg'[d].woken
                /\ dereg[d].h = acc[t].h /\ dereg[d].pc = "arming" => dereg'[d].missed
<1> DEFINE w(d) == [dereg[d] EXCEPT !.woken = TRUE]
           m(d) == [dereg[d] EXCEPT !.missed = TRUE]
<1>1. \A d \in Callers : /\ w(d) \in CallState /\ w(d).pc = dereg[d].pc /\ w(d).h = dereg[d].h
                         /\ w(d).woken = TRUE /\ w(d).missed = dereg[d].missed
  BY Zenon, Typed DEF CallState
<1>2. \A d \in Callers : /\ m(d) \in CallState /\ m(d).pc = dereg[d].pc /\ m(d).h = dereg[d].h
                         /\ m(d).missed = TRUE /\ m(d).woken = dereg[d].woken
  BY Zenon, Typed DEF CallState
<1>3. /\ DOMAIN dereg' = Callers
      /\ dereg' = [d \in Callers |->
                     IF dereg[d].pc = "waiting" /\ dereg[d].h = acc[t].h THEN w(d)
                     ELSE IF dereg[d].pc = "arming" /\ dereg[d].h = acc[t].h THEN m(d) ELSE dereg[d]]
  BY Zenon DEF inflight_notify
<1> HIDE DEF w, m
<1>4. \A d \in Callers : dereg'[d] = IF dereg[d].pc = "waiting" /\ dereg[d].h = acc[t].h THEN w(d)
                     ELSE IF dereg[d].pc = "arming" /\ dereg[d].h = acc[t].h THEN m(d) ELSE dereg[d]
  BY Zenon, <1>3
<1>5. dereg' \in [Callers -> CallState]
  BY <1>1, <1>2, <1>3, Typed
<1>6. \A d \in Callers :
        \/ dereg[d].pc = "waiting" /\ dereg[d].h = acc[t].h /\ dereg'[d] = w(d)
        \/ dereg[d].pc = "arming" /\ dereg[d].h = acc[t].h /\ dereg'[d] = m(d)
        \/ ~(dereg[d].pc \in {"waiting", "arming"} /\ dereg[d].h = acc[t].h) /\ dereg'[d] = dereg[d]
  BY ZenonT(60), <1>4
<1> QED
  BY <1>1, <1>2, <1>5, <1>6

\* notify_waiters: calls are woken, and stay where they are.
LEMMA AccessNotifies == ASSUME IInv, NEW t \in Tasks, inflight_notify(t) PROVE IInv'
<1>1. /\ acc' = [acc EXCEPT ![t] = NoAccess] /\ acc[t].pc = "notify"
      /\ UNCHANGED <<mr, unpublished, events>>
  BY DEF inflight_notify
<1>2. NoAccess \in AccessState /\ NoAccess.pc = "idle"
  BY DEF AccessState, NoAccess
<1>3. /\ acc' \in [Tasks -> AccessState] /\ acc'[t] = NoAccess
      /\ \A u \in Tasks : u # t => acc'[u] = acc[u]
  BY Zenon, <1>1, <1>2, OneAccess
<1>6. dereg' \in [Callers -> CallState]
  BY Zenon, Notified
<1>7. \A d \in Callers : dereg'[d].pc = dereg[d].pc /\ dereg'[d].h = dereg[d].h
  BY Zenon, Notified
<1>8. Handles' = Handles
  BY <1>1 DEF Handles
<1>9. TableTypeOK'
  BY <1>1, <1>3, <1>6, <1>8, Typed DEF TableTypeOK
<1>10. \A h : Holders(h)' = Holders(h) /\ Winners(h)' = Winners(h)
  BY <1>1, <1>2, <1>3, <1>7, UsingPcs DEF Holders, Winners
<1> QED
  BY <1>1, <1>2, <1>3, <1>7, <1>8, <1>9, <1>10 DEF IInv, RefsCountAccesses, Decisions, Decided, OneAtMost

\* A call that looks its handle up, or goes on as the winner or gives up before
\* it has won: the table stays, and so do the winners.
LEMMA CallMoves ==
    ASSUME IInv, NEW d \in Callers, NEW r \in CallState, dereg' = [dereg EXCEPT ![d] = r],
           UNCHANGED <<mr, unpublished, events, acc>>,
           r.pc # "idle" => r.h \in Handles,
           \/ dereg[d].pc \in {"idle", "found"} /\ r.pc \in {"idle", "found"}
           \/ dereg[d].pc \notin {"idle", "found"} /\ r.pc \notin {"idle", "found"} /\ r.h = dereg[d].h
    PROVE  IInv'
<1>1. /\ dereg' \in [Callers -> CallState] /\ dereg'[d] = r
      /\ \A e \in Callers : e # d => dereg'[e] = dereg[e]
  BY Zenon, OneCall
<1>2. Handles' = Handles
  BY DEF Handles
<1>3. TableTypeOK'
  BY <1>1, <1>2, Typed DEF TableTypeOK
<1>4. \A h : Holders(h)' = Holders(h) /\ Winners(h)' = Winners(h)
  BY <1>1 DEF Holders, Winners
<1> QED
  BY <1>1, <1>2, <1>3, <1>4 DEF IInv, RefsCountAccesses, Decisions, Decided, OneAtMost

LEMMA CallLooks == ASSUME IInv, NEW d \in Callers, NEW h \in Handles, deregister_lookup(d, h) PROVE IInv'
<1> DEFINE r == [pc |-> "found", h |-> h, woken |-> FALSE, missed |-> FALSE]
<1>1. r \in CallState /\ r.pc = "found" /\ r.h = h
  BY Typed DEF CallState
<1>2. /\ dereg' = [dereg EXCEPT ![d] = r] /\ dereg[d].pc = "idle"
      /\ UNCHANGED <<mr, unpublished, events, acc>>
  BY DEF deregister_lookup
<1> HIDE DEF r
<1> QED
  BY Zenon, <1>1, <1>2, CallMoves

LEMMA CallWaits ==
    ASSUME IInv, NEW d \in Callers,
           drain_load(d) \/ wait_inflight_zero_load(d) \/ wait_inflight_zero_arm(d) \/ deregister_woken(d)
    PROVE  IInv'
<1>1. PICK pc \in {"loading", "release", "arming", "waiting"} :
        dereg' = [dereg EXCEPT ![d] = [dereg[d] EXCEPT !.pc = pc]]
  BY DEF drain_load, wait_inflight_zero_load, wait_inflight_zero_arm, deregister_woken, Goto
<1>2. /\ dereg[d].pc \in {"draining", "loading", "arming", "waiting"}
      /\ UNCHANGED <<mr, unpublished, events, acc>>
  BY DEF drain_load, wait_inflight_zero_load, wait_inflight_zero_arm, deregister_woken
<1> DEFINE r == [dereg[d] EXCEPT !.pc = pc]
<1>3. r \in CallState /\ r.pc = pc /\ r.h = dereg[d].h
  BY Zenon, Typed DEF CallState
<1>4. dereg[d].h \in Handles /\ dereg' = [dereg EXCEPT ![d] = r]
  BY <1>1, <1>2 DEF IInv
<1> HIDE DEF r
<1> QED
  BY Zenon, <1>2, <1>3, <1>4, CallMoves

\* The compare-exchange: whoever finds the region Active is its only winner,
\* since a region with a winner is Revoking.
LEMMA CallSwaps == ASSUME IInv, NEW d \in Callers, deregister_cas(d) PROVE IInv'
<1>0. PICK h \in Handles : /\ h = dereg[d].h /\ mr[h] \in Region /\ h \in Nat
                            /\ dereg[d] \in CallState /\ dereg[d].pc = "found"
  BY Typed DEF deregister_cas, IInv
<1>1. CASE mr[h].state # "Active"
  <2>1. Idle \in CallState /\ Idle.pc = "idle"
    BY DEF Idle, CallState
  <2>2. dereg' = [dereg EXCEPT ![d] = Idle] /\ UNCHANGED <<mr, unpublished, events, acc>>
    BY <1>0, <1>1 DEF deregister_cas, Return
  <2> QED
    BY ZenonT(60), <1>0, <2>1, <2>2, CallMoves
<1>2. CASE mr[h].state = "Active"
  <2> DEFINE r == [mr[h] EXCEPT !.state = "Revoking"]
  <2>1. PICK pc \in {"draining", "removing"} : dereg' = [dereg EXCEPT ![d] = [dereg[d] EXCEPT !.pc = pc]]
    BY <1>0, <1>2 DEF deregister_cas, Goto
  <2> DEFINE s == [dereg[d] EXCEPT !.pc = pc]
  <2>2. /\ r \in Region /\ r.refs = mr[h].refs /\ r.listed = mr[h].listed
        /\ r.state = "Revoking" /\ r.outcome = mr[h].outcome
    BY <1>0 DEF Region
  <2>3. s \in CallState /\ s.pc = pc /\ s.h = h
    BY <1>0 DEF CallState
  <2>4. /\ mr' = [mr EXCEPT ![h] = r] /\ dereg' = [dereg EXCEPT ![d] = s]
        /\ events' = Append(events, [type |-> "Revoke", h |-> h]) /\ UNCHANGED <<unpublished, acc>>
    BY <1>0, <1>2, <2>1 DEF deregister_cas
  <2>5. [type |-> "Revoke", h |-> h] \in Event
    BY <1>0 DEF Event
  <2> HIDE DEF r, s
  <2>6. /\ mr' \in Seq(Region) /\ Handles' = Handles /\ mr'[h] = r
        /\ \A i \in Handles : i # h => mr'[i] = mr[i]
    BY Zenon, <1>0, <2>2, <2>4, Entry
  <2>7. /\ dereg' \in [Callers -> CallState] /\ dereg'[d] = s
        /\ \A e \in Callers : e # d => dereg'[e] = dereg[e]
    BY Zenon, <2>3, <2>4, OneCall
  <2>8. events' \in Seq(Event)
    BY <2>4, <2>5, Typed
  <2>9. TableTypeOK'
    BY SMTT(30), <2>4, <2>6, <2>7, <2>8, Typed DEF TableTypeOK
  <2>10. /\ Winners(h)' = Winners(h) \union {d} /\ \A i : i # h => Winners(i)' = Winners(i)
         /\ \A i : Holders(i)' = Holders(i)
    BY <1>0, <2>3, <2>4, <2>7 DEF Holders, Winners
  <2>11. Winners(h) = {} /\ mr[h].listed /\ mr[h].outcome = "none"
    <3>1. Decided(h)
      BY ZenonT(60), <1>0 DEF IInv, Decisions
    <3>2. Winners(h) = {}
      BY ZenonT(60), <1>2, <3>1 DEF Decided, OneAtMost
    <3> QED
      BY ZenonT(60), <1>2, <3>1, <3>2 DEF Decided, OneAtMost
  <2>12. RefsCountAccesses'
    <3>1. \A i \in Handles : mr'[i].refs = mr[i].refs
      BY ZenonT(60), <2>2, <2>6
    <3> QED
      BY ZenonT(60), <2>6, <2>10, <3>1, CountsKept
  <2>13. Decisions'
    <3>1. Winners(h)' = {d} /\ mr'[h].listed /\ mr'[h].state = "Revoking" /\ mr'[h].outcome = "none"
      BY ZenonT(60), <2>2, <2>6, <2>10, <2>11
    <3>2. Decided(h)'
      BY ZenonT(60), <3>1 DEF Decided, OneAtMost
    <3> QED
      BY ZenonT(60), <1>0, <2>6, <2>10, <3>2, DecisionsKept
  <2>14. \A e \in Callers : dereg'[e].pc # "idle" => dereg'[e].h \in Handles'
    BY SMTT(30), <1>0, <2>3, <2>6, <2>7 DEF IInv
  <2> QED
    BY <2>4, <2>6, <2>9, <2>12, <2>13, <2>14 DEF IInv
<1> QED
  BY <1>1, <1>2

\* The winner takes the entry out of the table, and nobody wins it again.
LEMMA CallRemoves ==
    ASSUME IInv, NEW d \in Callers,
           deregister_remove(d) \/ deregister_timeout(d) \/ deregister_release(d)
    PROVE  IInv'
<1>0. PICK h \in Handles : /\ h = dereg[d].h /\ mr[h] \in Region
                            /\ dereg[d] \in CallState
                            /\ dereg[d].pc \in {"removing", "waiting", "release"}
  BY Typed DEF deregister_remove, deregister_timeout, deregister_release, IInv
<1>1. Winners(h) = {d} /\ mr[h].state = "Revoking"
  <2>1. Decided(h)
    BY ZenonT(60), <1>0 DEF IInv, Decisions
  <2>2. d \in Winners(h)
    BY <1>0 DEF Winners
  <2> QED
    BY ZenonT(60), <2>1, <2>2 DEF Decided, OneAtMost
<1>2. PICK s \in Region : /\ mr' = [mr EXCEPT ![h] = s] /\ s.refs = mr[h].refs
                          /\ ~s.listed /\ s.state # "Active"
  <2>1. /\ [mr[h] EXCEPT !.listed = FALSE, !.outcome = "removed"] \in Region
        /\ [mr[h] EXCEPT !.listed = FALSE, !.outcome = "removed"].refs = mr[h].refs
        /\ ~[mr[h] EXCEPT !.listed = FALSE, !.outcome = "removed"].listed
        /\ [mr[h] EXCEPT !.listed = FALSE, !.outcome = "removed"].state = "Revoking"
    BY Zenon, <1>0, <1>1 DEF Region
  <2>2. \A o \in {"ok", "timeout"} :
           /\ [mr[h] EXCEPT !.state = "Released", !.listed = FALSE, !.outcome = o] \in Region
           /\ [mr[h] EXCEPT !.state = "Released", !.listed = FALSE, !.outcome = o].refs = mr[h].refs
           /\ ~[mr[h] EXCEPT !.state = "Released", !.listed = FALSE, !.outcome = o].listed
           /\ [mr[h] EXCEPT !.state = "Released", !.listed = FALSE, !.outcome = o].state = "Released"
    BY Zenon, <1>0 DEF Region
  <2>3. CASE deregister_remove(d)
    BY Zenon, <2>1, <1>0, <2>3 DEF deregister_remove
  <2>4. CASE deregister_timeout(d)
    BY Zenon, <2>2, <1>0, <2>4 DEF deregister_timeout, ReleaseWith
  <2>5. CASE deregister_release(d)
    BY Zenon, <2>2, <1>0, <2>5 DEF deregister_release, ReleaseWith
  <2> QED
    BY <2>3, <2>4, <2>5
<1>3. dereg' = [dereg EXCEPT ![d] = Idle] /\ UNCHANGED <<unpublished, events, acc>>
  BY DEF deregister_remove, deregister_timeout, deregister_release, ReleaseWith, Return
<1>4. Idle \in CallState /\ Idle.pc = "idle"
  BY DEF Idle, CallState
<1>5. /\ mr' \in Seq(Region) /\ Handles' = Handles /\ mr'[h] = s
      /\ \A i \in Handles : i # h => mr'[i] = mr[i]
  BY Zenon, <1>0, <1>2, Entry
<1>6. /\ dereg' \in [Callers -> CallState] /\ dereg'[d] = Idle
      /\ \A e \in Callers : e # d => dereg'[e] = dereg[e]
  BY Zenon, <1>3, <1>4, OneCall
<1>7. TableTypeOK'
  BY SMTT(30), <1>3, <1>5, <1>6, Typed DEF TableTypeOK
<1>8. /\ Winners(h)' = {} /\ \A i : i # h => Winners(i)' = Winners(i)
      /\ \A i : Holders(i)' = Holders(i)
  BY <1>0, <1>1, <1>3, <1>4, <1>6 DEF Holders, Winners
<1>9. RefsCountAccesses'
  <2>1. \A i \in Handles : mr'[i].refs = mr[i].refs
    BY ZenonT(60), <1>2, <1>5
  <2> QED
    BY ZenonT(60), <1>5, <1>8, <2>1, CountsKept
<1>10. Decisions'
  <2>1. Decided(h)'
    BY ZenonT(60), <1>2, <1>5, <1>8 DEF Decided, OneAtMost
  <2> QED
    BY ZenonT(60), <1>0, <1>5, <1>8, <2>1, DecisionsKept
<1>11. \A e \in Callers : dereg'[e].pc # "idle" => dereg'[e].h \in Handles'
  BY <1>4, <1>5, <1>6 DEF IInv
<1> QED
  BY <1>3, <1>5, <1>7, <1>9, <1>10, <1>11 DEF IInv

-----------------------------------------------------------------------------
\* The invariant holds of every behaviour of the table, its tasks, the calls
\* that deregister and the control plane that reads the table.
THEOREM TableInvariant == Spec => []IInv
<1>1. ASSUME IInv, TableNext PROVE IInv'
  <2>1. CASE register
    BY <1>1, <2>1, Register
  <2>2. CASE \E h \in unpublished : register_publish(h)
    BY <1>1, <2>2, RegisterPublish
  <2>3. CASE \E t \in Tasks : Access(t)
    BY <1>1, <2>3, AccessLooks, AccessAdds, AccessDone, AccessNotifies DEF Access
  <2>4. CASE \E d \in Callers : Deregister(d) \/ \E h \in Handles : deregister_lookup(d, h)
    BY <1>1, <2>4, CallLooks, CallWaits, CallSwaps, CallRemoves DEF Deregister
  <2> QED
    BY <1>1, <2>1, <2>2, <2>3, <2>4 DEF TableNext
<1>2. ASSUME IInv, UNCHANGED vars PROVE IInv'
  <2>1. UNCHANGED <<mr, acc, dereg, unpublished, events>>
    BY <1>2 DEF vars, tableVars
  <2> QED
    BY <1>2, <2>1, Typed, TableKept
<1>3. IInv /\ [Next]_vars => IInv'
  BY <1>1, <1>2, PeerStep DEF Next
<1> QED
  BY <1>3, InitInv, PTL DEF Spec

\* Of any number of calls of deregister and deregister_async for a region, one
\* wins, and the entry stays Revoking and listed until it is done.
THEOREM DeregistrationWonOnce == Spec => []OneDeregistration
<1>1. IInv => OneDeregistration
  BY DEF IInv, Decisions, Decided, OneAtMost, OneDeregistration
<1> QED
  BY <1>1, TableInvariant, PTL

-----------------------------------------------------------------------------
(* What the peer learns.  No Revoke of an Active region is on its way, and *)
(* while the peer is taken for alive on a live connection each Active      *)
(* region is known to it or is still going to be sent to it.               *)

\* A message tells of a region of the table, and a Revoke of one that is not
\* Active.
Truthful(table, e) ==
    /\ e.h \in DOMAIN table
    /\ e.type = "Revoke" => table[e.h].state # "Active"

PublishOf(h) == [type |-> "Publish", h |-> h]

\* The peer knows h, or a message that tells of h on the connection c has yet
\* to be sent or to arrive.
OnItsWay(h, c) ==
    \/ h \in cache
    \/ h \in unpublished
    \/ \E i \in DOMAIN events : events[i] = PublishOf(h)
    \/ drain = <<[event |-> PublishOf(h), to |-> c]>>
    \/ greet[c].pc = "upserted"
    \/ h \in greet[c].left
    \/ \E i \in DOMAIN wire[c] : wire[c][i] = PublishOf(h)

Greeting == [pc : {"idle", "upserted", "sending"}, left : SUBSET Handles]
Broadcast == [event : Event, to : Conns]

PeerTypes ==
    /\ tx \in Conns \union {NoConn}
    /\ up \in BOOLEAN
    /\ closed \subseteq Conns
    /\ hellos \in 0..MaxHellos
    /\ greet \in [Conns -> Greeting]
    /\ drain = <<>> \/ \E b \in Broadcast : drain = <<b>>
    /\ wire \in [Conns -> Seq(Event)]
    /\ cache \subseteq Handles

AllTruthful ==
    /\ \A i \in DOMAIN events : Truthful(mr, events[i])
    /\ \A i \in DOMAIN drain : Truthful(mr, drain[i].event)
    /\ \A c \in Conns : \A i \in DOMAIN wire[c] : Truthful(mr, wire[c][i])

NoneMissed ==
    /\ \A c \in Conns : greet[c].pc # "sending" => greet[c].left = {}
    /\ up /\ tx \in Conns \ closed =>
         \A h \in Handles : mr[h].state = "Active" => OnItsWay(h, tx)

PeerInv == PeerTypes /\ AllTruthful /\ NoneMissed

\* What a step of the table, its tasks and its callers means to the peer.
TableEffect ==
    /\ Handles \subseteq Handles'
    /\ \A h \in Handles : mr'[h].state = "Active" => mr[h].state = "Active"
    /\ \A h \in Handles' \ Handles : h \in unpublished'
    /\ events' = events \/ \E e \in Event : events' = Append(events, e) /\ Truthful(mr', e)
    /\ \A h \in unpublished : h \in unpublished' \/ events' = Append(events, PublishOf(h))

\* A call that takes a region out of Active, or the entry out of the table.
LEMMA EffectOfEntry ==
    ASSUME IInv, NEW h \in Handles, NEW r \in Region, mr' = [mr EXCEPT ![h] = r],
           r.state = "Active" => mr[h].state = "Active",
           UNCHANGED <<unpublished, events>>
    PROVE  TableEffect
<1>1. /\ Handles' = Handles /\ mr'[h] = r
      /\ \A i \in Handles : i # h => mr'[i] = mr[i]
  BY Zenon, Entry
<1>2. unpublished' = unpublished /\ events' = events
  OBVIOUS
<1> QED
  BY ZenonT(60), <1>1, <1>2 DEF TableEffect

\* A step that leaves the entries and the events alone.
LEMMA EffectOfNothing ==
    ASSUME UNCHANGED <<mr, unpublished, events>>
    PROVE  TableEffect
<1>1. Handles' = Handles /\ mr' = mr /\ unpublished' = unpublished /\ events' = events
  BY DEF Handles
<1> QED
  BY ZenonT(60), <1>1 DEF TableEffect

LEMMA EffectOfRegister == ASSUME IInv, register PROVE TableEffect
<1>0. PICK n \in Nat : n = Len(mr) + 1
  BY Typed
<1> DEFINE entry == [state |-> "Active", refs |-> 0, listed |-> TRUE, outcome |-> "none"]
<1>1. entry \in Region
  BY DEF Region
<1>2. mr' = Append(mr, entry) /\ events' = events /\ unpublished' = unpublished \union {n}
  BY <1>0 DEF register
<1> HIDE DEF entry
<1>3. Handles' = Handles \union {n} /\ \A h \in Handles : mr'[h] = mr[h]
  BY <1>0, <1>1, <1>2, Typed DEF Handles
<1> QED
  BY ZenonT(60), <1>2, <1>3 DEF TableEffect

LEMMA EffectOfPublish ==
    ASSUME IInv, NEW h \in unpublished, register_publish(h) PROVE TableEffect
<1>1. /\ mr' = mr /\ Handles' = Handles /\ unpublished' = unpublished \ {h}
      /\ events' = Append(events, PublishOf(h)) /\ h \in Handles /\ h \in Nat
  BY Typed DEF register_publish, PublishOf, Handles
<1>2. PublishOf(h) \in Event /\ PublishOf(h).h = h /\ PublishOf(h).type = "Publish"
  BY <1>1 DEF Event, PublishOf
<1>3. Truthful(mr', PublishOf(h))
  BY ZenonT(60), <1>1, <1>2 DEF Truthful, Handles
<1> QED
  BY ZenonT(60), <1>1, <1>2, <1>3 DEF TableEffect

LEMMA EffectOfAccess == ASSUME IInv, NEW t \in Tasks, Access(t) PROVE TableEffect
<1>1. CASE UNCHANGED <<mr, unpublished, events>>
  BY <1>1, EffectOfNothing
<1>2. ASSUME NEW k \in {1, -1}, acc[t].pc \in {"checked", "done"},
             mr' = [mr EXCEPT ![acc[t].h].refs = @ + k], UNCHANGED <<unpublished, events>>
      PROVE  TableEffect
  <2>1. PICK h \in Handles : h = acc[t].h /\ mr[h] \in Region
    BY <1>2, Typed DEF IInv
  <2>2. /\ Handles' = Handles
        /\ \A i \in Handles : mr'[i].state = mr[i].state
    <3>1. mr \in Seq(Region) /\ DOMAIN mr = Handles /\ DOMAIN mr[h] = {"state", "refs", "listed", "outcome"}
      BY <2>1, Typed DEF Handles, Region
    <3>2. mr' = [mr EXCEPT ![h] = [mr[h] EXCEPT !.refs = mr[h].refs + k]]
      BY ZenonT(60), <1>2, <2>1
    <3>3. [mr[h] EXCEPT !.refs = mr[h].refs + k].state = mr[h].state
      BY ZenonT(60), <3>1
    <3>4. DOMAIN mr' = DOMAIN mr
      BY <3>1, <3>2
    <3>5. \A i \in Handles : mr'[i] = IF i = h THEN [mr[h] EXCEPT !.refs = mr[h].refs + k] ELSE mr[i]
      BY ZenonT(60), <3>1, <3>2
    <3> QED
      BY ZenonT(60), <3>1, <3>3, <3>4, <3>5 DEF Handles
  <2>3. unpublished' = unpublished /\ events' = events
    BY <1>2
  <2> QED
    BY ZenonT(60), <2>2, <2>3 DEF TableEffect
<1>3. CASE try_inflight_inc_add(t)
  BY SMTT(30), <1>2, <1>3 DEF try_inflight_inc_add
<1>4. CASE inflight_dec(t)
  <2>1. mr' = [mr EXCEPT ![acc[t].h].refs = @ + (-1)]
    <3>1. PICK h \in Handles : h = acc[t].h /\ mr[h] \in Region
      BY SMTT(30), <1>4, Typed DEF IInv, inflight_dec
    <3>2. mr[acc[t].h].refs - 1 = mr[acc[t].h].refs + (-1)
      BY SMTT(30), <3>1 DEF Region
    <3> QED
      BY ZenonT(60), <1>4, <3>2 DEF inflight_dec
  <2> QED
    BY Zenon, <1>2, <1>4, <2>1 DEF inflight_dec
<1> QED
  BY <1>1, <1>3, <1>4 DEF Access, lookup, try_inflight_inc_load, handler_step, inflight_notify

LEMMA EffectOfCall ==
    ASSUME IInv, NEW d \in Callers, Deregister(d) \/ \E h \in Handles : deregister_lookup(d, h)
    PROVE  TableEffect
<1>1. CASE UNCHANGED <<mr, unpublished, events>>
  BY <1>1, EffectOfNothing
<1>2. CASE deregister_cas(d) /\ mr[dereg[d].h].state = "Active"
  <2>1. PICK h \in Handles : h = dereg[d].h /\ mr[h] \in Region /\ h \in Nat
    BY <1>2, Typed DEF deregister_cas, IInv
  <2> DEFINE r == [mr[h] EXCEPT !.state = "Revoking"]
             e == [type |-> "Revoke", h |-> h]
  <2>2. r \in Region /\ r.state = "Revoking" /\ e \in Event /\ e.h = h
    BY <2>1 DEF Region, Event
  <2>3. mr' = [mr EXCEPT ![h] = r] /\ events' = Append(events, e) /\ unpublished' = unpublished
    BY SMTT(30), <1>2, <2>1 DEF deregister_cas
  <2> HIDE DEF r, e
  <2>4. /\ Handles' = Handles /\ mr'[h] = r
        /\ \A i \in Handles : i # h => mr'[i] = mr[i]
    BY Zenon, <2>1, <2>2, <2>3, Entry
  <2>5. Truthful(mr', e)
    BY ZenonT(60), <2>1, <2>2, <2>4 DEF Truthful, Handles
  <2> QED
    BY ZenonT(60), <2>2, <2>3, <2>4, <2>5 DEF TableEffect
<1>3. CASE deregister_remove(d) \/ deregister_timeout(d) \/ deregister_release(d)
  <2>1. PICK h \in Handles : h = dereg[d].h /\ mr[h] \in Region
    BY <1>3, Typed DEF deregister_remove, deregister_timeout, deregister_release, IInv
  <2>2. PICK s \in Region : /\ mr' = [mr EXCEPT ![h] = s]
                            /\ s.state = "Active" => mr[h].state = "Active"
    <3>1. /\ [mr[h] EXCEPT !.listed = FALSE, !.outcome = "removed"] \in Region
          /\ [mr[h] EXCEPT !.listed = FALSE, !.outcome = "removed"].state = mr[h].state
      BY Zenon, <2>1 DEF Region
    <3>2. \A o \in {"ok", "timeout"} :
             /\ [mr[h] EXCEPT !.state = "Released", !.listed = FALSE, !.outcome = o] \in Region
             /\ [mr[h] EXCEPT !.state = "Released", !.listed = FALSE, !.outcome = o].state = "Released"
      BY Zenon, <2>1 DEF Region
    <3>3. CASE deregister_remove(d)
      BY Zenon, <2>1, <3>1, <3>3 DEF deregister_remove
    <3>4. CASE deregister_timeout(d)
      BY Zenon, <2>1, <3>2, <3>4 DEF deregister_timeout, ReleaseWith
    <3>5. CASE deregister_release(d)
      BY Zenon, <2>1, <3>2, <3>5 DEF deregister_release, ReleaseWith
    <3> QED
      BY <1>3, <3>3, <3>4, <3>5
  <2>3. UNCHANGED <<unpublished, events>>
    BY <1>3 DEF deregister_remove, deregister_timeout, deregister_release, ReleaseWith
  <2> QED
    BY Zenon, <2>1, <2>2, <2>3, EffectOfEntry
<1> QED
  BY <1>1, <1>2, <1>3
  DEF Deregister, deregister_lookup, deregister_cas, drain_load, wait_inflight_zero_load,
      wait_inflight_zero_arm, deregister_woken

\* What the table says of a message stays true of it.
LEMMA StillTruthful ==
    ASSUME TableEffect, NEW e, Truthful(mr, e)
    PROVE  Truthful(mr', e)
BY ZenonT(60) DEF TableEffect, Truthful, Handles

\* A step of the table takes no region off its way to the peer.
LEMMA TableKeepsPeer ==
    ASSUME IInv, PeerInv, TableEffect, UNCHANGED peerVars
    PROVE  PeerInv'
<1>1. /\ tx' = tx /\ up' = up /\ closed' = closed /\ hellos' = hellos /\ greet' = greet
      /\ drain' = drain /\ wire' = wire /\ cache' = cache
  BY DEF peerVars
<1>2. PeerTypes'
  <2>1. Handles \subseteq Handles'
    BY DEF TableEffect
  <2>2. greet' \in [Conns -> Greeting']
    <3>1. Greeting \subseteq Greeting'
      BY <2>1 DEF Greeting
    <3>2. greet \in [Conns -> Greeting]
      BY DEF PeerInv, PeerTypes
    <3> QED
      BY <1>1, <3>1, <3>2
  <2> QED
    BY <1>1, <2>1, <2>2 DEF PeerInv, PeerTypes, Broadcast
<1>3. events \in Seq(Event)
  BY Typed
<1>4. \A i \in DOMAIN events' : Truthful(mr', events'[i])
  <2>1. CASE events' = events
    BY ZenonT(60), <2>1, StillTruthful DEF PeerInv, AllTruthful
  <2>2. CASE \E e \in Event : events' = Append(events, e) /\ Truthful(mr', e)
    <3>1. PICK e \in Event : events' = Append(events, e) /\ Truthful(mr', e)
      BY <2>2
    <3>2. \A i \in DOMAIN events' : events'[i] = e \/ (i \in DOMAIN events /\ events'[i] = events[i])
      BY <1>3, <3>1
    <3> QED
      BY ZenonT(60), <3>1, <3>2, StillTruthful DEF PeerInv, AllTruthful
  <2> QED
    BY <2>1, <2>2 DEF TableEffect
<1>5. AllTruthful'
  <2>1. \A i \in DOMAIN drain : Truthful(mr', drain[i].event)
    BY ZenonT(60), StillTruthful DEF PeerInv, AllTruthful
  <2>2. \A c \in Conns : \A i \in DOMAIN wire[c] : Truthful(mr', wire[c][i])
    BY ZenonT(60), StillTruthful DEF PeerInv, AllTruthful
  <2> QED
    BY ZenonT(60), <1>1, <1>4, <2>1, <2>2 DEF AllTruthful
<1>6. ASSUME NEW h, \E i \in DOMAIN events : events[i] = PublishOf(h)
      PROVE  \E i \in DOMAIN events' : events'[i] = PublishOf(h)
  BY <1>3, <1>6 DEF TableEffect
<1>7. ASSUME NEW h \in unpublished, h \notin unpublished'
      PROVE  \E i \in DOMAIN events' : events'[i] = PublishOf(h)
  <2>1. PublishOf(h) \in Event
    BY Typed DEF PublishOf, Event
  <2>2. events' = Append(events, PublishOf(h))
    BY <1>7 DEF TableEffect
  <2> QED
    BY <1>3, <2>1, <2>2
<1>8. ASSUME up, tx \in Conns \ closed, NEW h \in Handles', mr'[h].state = "Active"
      PROVE  OnItsWay(h, tx)'
  <2>1. CASE h \in Handles
    <3>1. OnItsWay(h, tx)
      BY ZenonT(60), <1>8, <2>1 DEF PeerInv, NoneMissed, TableEffect
    <3> QED
      BY ZenonT(60), <1>1, <1>6, <1>7, <3>1 DEF OnItsWay
  <2>2. CASE h \notin Handles
    BY ZenonT(60), <1>8, <2>2 DEF TableEffect, OnItsWay
  <2> QED
    BY <2>1, <2>2
<1>9. NoneMissed'
  BY ZenonT(60), <1>1, <1>8 DEF PeerInv, NoneMissed
<1> QED
  BY <1>2, <1>5, <1>9 DEF PeerInv

-----------------------------------------------------------------------------
(* The control plane and the peer.  The table stays.                       *)

LEMMA SameTable ==
    ASSUME UNCHANGED mr
    PROVE  /\ Handles' = Handles /\ mr' = mr /\ Greeting' = Greeting
           /\ \A e : Truthful(mr', e) <=> Truthful(mr, e)
<1>1. mr' = mr /\ Handles' = Handles
  BY DEF Handles
<1> QED
  BY ZenonT(60), <1>1 DEF Truthful, Greeting

\* An Active region is listed: an entry leaves the table as Revoking.
LEMMA ActiveIsListed == ASSUME IInv, NEW h \in Handles, mr[h].state = "Active" PROVE mr[h].listed
<1>1. Decided(h)
  BY ZenonT(60) DEF IInv, Decisions
<1>2. Winners(h) = {}
  BY ZenonT(60), <1>1 DEF Decided, OneAtMost
<1> QED
  BY ZenonT(60), <1>1, <1>2 DEF Decided, OneAtMost

\* A message queued on the connection c.
LEMMA SentOn ==
    ASSUME PeerTypes, NEW c \in Conns, NEW e \in Event, Sent(c, e)
    PROVE  /\ wire' \in [Conns -> Seq(Event)]
           /\ \A k \in Conns : \A i \in DOMAIN wire'[k] :
                wire'[k][i] = e \/ (i \in DOMAIN wire[k] /\ wire'[k][i] = wire[k][i])
           /\ \A k \in Conns : \A m : (\E i \in DOMAIN wire[k] : wire[k][i] = m) =>
                                     (\E i \in DOMAIN wire'[k] : wire'[k][i] = m)
           /\ c \notin closed => \E i \in DOMAIN wire'[c] : wire'[c][i] = e
<1>1. wire \in [Conns -> Seq(Event)]
  BY DEF PeerTypes
<1>2. CASE c \in closed
  BY <1>1, <1>2 DEF Sent
<1>3. CASE c \notin closed
  <2>1. wire' = [wire EXCEPT ![c] = Append(wire[c], e)]
    BY <1>3 DEF Sent
  <2>2. /\ wire[c] \in Seq(Event) /\ Append(wire[c], e) \in Seq(Event)
        /\ DOMAIN Append(wire[c], e) = DOMAIN wire[c] \union {Len(wire[c]) + 1}
        /\ Append(wire[c], e)[Len(wire[c]) + 1] = e
        /\ \A i \in DOMAIN wire[c] : Append(wire[c], e)[i] = wire[c][i]
    BY <1>1
  <2>3. /\ wire'[c] = Append(wire[c], e)
        /\ \A k \in Conns : k # c => wire'[k] = wire[k]
    BY ZenonT(60), <1>1, <2>1
  <2>4. wire' \in [Conns -> Seq(Event)]
    BY <1>1, <2>1, <2>2
  <2> QED
    BY ZenonT(60), <2>2, <2>3, <2>4
<1> QED
  BY Zenon, <1>2, <1>3

\* What is in a queue is its head or in its tail.
LEMMA Tails ==
    ASSUME NEW S, NEW q \in Seq(S), q # <<>>
    PROVE  /\ Head(q) \in S /\ Tail(q) \in Seq(S)
           /\ \E j \in DOMAIN q : Head(q) = q[j]
           /\ \A i \in DOMAIN Tail(q) : \E j \in DOMAIN q : Tail(q)[i] = q[j]
           /\ \A i \in DOMAIN q : q[i] = Head(q) \/ \E j \in DOMAIN Tail(q) : Tail(q)[j] = q[i]
<1>1. /\ Head(q) \in S /\ Head(q) = q[1] /\ 1 \in DOMAIN q
      /\ Tail(q) \in Seq(S) /\ Len(Tail(q)) = Len(q) - 1 /\ Len(q) \in Nat
      /\ DOMAIN q = 1..Len(q) /\ DOMAIN Tail(q) = 1..Len(Tail(q))
      /\ \A i \in 1..Len(Tail(q)) : Tail(q)[i] = q[i + 1]
  OBVIOUS
<1>2. \A i \in DOMAIN Tail(q) : i + 1 \in DOMAIN q /\ Tail(q)[i] = q[i + 1]
  BY <1>1
<1>3. ASSUME NEW i \in DOMAIN q, i # 1
      PROVE  \E j \in DOMAIN Tail(q) : Tail(q)[j] = q[i]
  <2>1. i - 1 \in DOMAIN Tail(q) /\ Tail(q)[i - 1] = q[i]
    BY <1>1, <1>3
  <2> QED
    BY <2>1
<1> QED
  BY ZenonT(60), <1>1, <1>2, <1>3

\* The broadcast task takes an event: the sender it reads is the peer's, if
\* the peer is alive.
LEMMA TakeKeepsPeer == ASSUME IInv, PeerInv, broadcast_take PROVE PeerInv'
<1>1. /\ mr' = mr /\ unpublished' = unpublished /\ tx' = tx /\ up' = up /\ closed' = closed
      /\ hellos' = hellos /\ greet' = greet /\ wire' = wire /\ cache' = cache
      /\ events # <<>> /\ drain = <<>> /\ events' = Tail(events)
      /\ drain' = IF up /\ tx # NoConn THEN <<[event |-> Head(events), to |-> tx]>> ELSE <<>>
  BY DEF broadcast_take
<1>2. /\ Handles' = Handles /\ Greeting' = Greeting
      /\ \A e : Truthful(mr', e) <=> Truthful(mr, e)
  BY <1>1, SameTable
<1>3. /\ Head(events) \in Event
      /\ \E j \in DOMAIN events : Head(events) = events[j]
      /\ \A i \in DOMAIN Tail(events) : \E j \in DOMAIN events : Tail(events)[i] = events[j]
      /\ \A i \in DOMAIN events :
           events[i] = Head(events) \/ \E j \in DOMAIN Tail(events) : Tail(events)[j] = events[i]
  BY <1>1, Typed, Tails
<1>4. PeerTypes'
  <2>1. drain' = <<>> \/ \E b \in Broadcast : drain' = <<b>>
    <3>1. ASSUME up, tx # NoConn PROVE [event |-> Head(events), to |-> tx] \in Broadcast
      BY <1>3, <3>1 DEF PeerInv, PeerTypes, Broadcast
    <3> QED
      BY SMTT(30), <1>1, <3>1
  <2>2. Broadcast' = Broadcast
    BY DEF Broadcast, Event
  <2> QED
    BY ZenonT(60), <1>1, <1>2, <2>1, <2>2 DEF PeerInv, PeerTypes
<1>5. AllTruthful'
  <2>1. \A i \in DOMAIN events' : Truthful(mr', events'[i])
    BY ZenonT(60), <1>1, <1>2, <1>3 DEF PeerInv, AllTruthful
  <2>2. \A i \in DOMAIN drain' : drain'[i].event = Head(events)
    BY <1>1
  <2>3. Truthful(mr', Head(events))
    BY ZenonT(60), <1>2, <1>3 DEF PeerInv, AllTruthful
  <2>4. \A i \in DOMAIN drain' : Truthful(mr', drain'[i].event)
    BY ZenonT(60), <2>2, <2>3
  <2> QED
    BY ZenonT(60), <1>1, <1>2, <2>1, <2>4 DEF PeerInv, AllTruthful
<1>6. ASSUME up, tx \in Conns \ closed, NEW h \in Handles, mr[h].state = "Active"
      PROVE  OnItsWay(h, tx)'
  <2>1. OnItsWay(h, tx) /\ tx \in Conns
    BY ZenonT(60), <1>6 DEF PeerInv, NoneMissed
  <2>2. drain' = <<[event |-> Head(events), to |-> tx]>>
    BY <1>1, <1>6, <2>1, PublicationAssumption
  <2>3. CASE \E i \in DOMAIN events : events[i] = PublishOf(h)
    BY ZenonT(60), <1>1, <1>3, <2>2, <2>3 DEF OnItsWay
  <2>4. drain # <<[event |-> PublishOf(h), to |-> tx]>>
    BY <1>1
  <2> QED
    BY ZenonT(60), <1>1, <2>1, <2>3, <2>4 DEF OnItsWay
<1>7. NoneMissed'
  BY ZenonT(60), <1>1, <1>2, <1>6 DEF PeerInv, NoneMissed
<1> QED
  BY <1>4, <1>5, <1>7 DEF PeerInv

\* The broadcast task sends: on the peer's connection, or on one that the
\* peer no longer has.
LEMMA SendKeepsPeer == ASSUME IInv, PeerInv, broadcast_send PROVE PeerInv'
<1>1. /\ mr' = mr /\ unpublished' = unpublished /\ tx' = tx /\ up' = up /\ closed' = closed
      /\ hellos' = hellos /\ greet' = greet /\ cache' = cache /\ events' = events
      /\ drain' = <<>> /\ drain # <<>> /\ Sent(drain[1].to, drain[1].event)
  BY DEF broadcast_send, tableVars
<1>2. /\ Handles' = Handles /\ Greeting' = Greeting
      /\ \A e : Truthful(mr', e) <=> Truthful(mr, e)
  BY <1>1, SameTable
<1>3. PICK b \in Broadcast : drain = <<b>>
  BY <1>1 DEF PeerInv, PeerTypes
<1>4. b.to \in Conns /\ b.event \in Event /\ Sent(b.to, b.event) /\ Truthful(mr, b.event)
  BY <1>1, <1>3 DEF Broadcast, PeerInv, AllTruthful
<1>5. /\ wire' \in [Conns -> Seq(Event)]
      /\ \A k \in Conns : \A i \in DOMAIN wire'[k] :
           wire'[k][i] = b.event \/ (i \in DOMAIN wire[k] /\ wire'[k][i] = wire[k][i])
      /\ \A k \in Conns : \A m : (\E i \in DOMAIN wire[k] : wire[k][i] = m) =>
                                (\E i \in DOMAIN wire'[k] : wire'[k][i] = m)
      /\ b.to \notin closed => \E i \in DOMAIN wire'[b.to] : wire'[b.to][i] = b.event
  BY ZenonT(60), <1>4, SentOn DEF PeerInv
<1>6. PeerTypes'
  BY ZenonT(60), <1>1, <1>2, <1>5 DEF PeerInv, PeerTypes
<1>7. AllTruthful'
  <2>1. \A k \in Conns : \A i \in DOMAIN wire'[k] : Truthful(mr', wire'[k][i])
    BY ZenonT(157), <1>2, <1>4, <1>5 DEF PeerInv, AllTruthful
  <2>2. DOMAIN drain' = {}
    BY <1>1
  <2> QED
    BY ZenonT(60), <1>1, <1>2, <2>1, <2>2 DEF PeerInv, AllTruthful
<1>8. ASSUME up, tx \in Conns \ closed, NEW h \in Handles, mr[h].state = "Active"
      PROVE  OnItsWay(h, tx)'
  <2>1. OnItsWay(h, tx) /\ tx \in Conns
    BY ZenonT(60), <1>8 DEF PeerInv, NoneMissed
  <2>2. CASE drain = <<[event |-> PublishOf(h), to |-> tx]>>
    <3>1. b.to = tx /\ b.event = PublishOf(h)
      BY <1>3, <2>2
    <3> QED
      BY ZenonT(60), <1>1, <1>5, <1>8, <3>1 DEF OnItsWay
  <2> QED
    BY ZenonT(60), <1>1, <1>5, <2>1, <2>2 DEF OnItsWay
<1>9. NoneMissed'
  BY ZenonT(60), <1>1, <1>2, <1>8 DEF PeerInv, NoneMissed
<1> QED
  BY <1>6, <1>7, <1>9 DEF PeerInv

\* A HELLO: the greeting is going to list the regions.
LEMMA HelloKeepsPeer == ASSUME IInv, PeerInv, NEW c \in Conns, hello(c) PROVE PeerInv'
<1>1. /\ mr' = mr /\ unpublished' = unpublished /\ closed' = closed /\ cache' = cache
      /\ drain' = drain /\ wire' = wire /\ events' = events
      /\ tx' = c /\ up' = TRUE /\ hellos < MaxHellos /\ hellos' = hellos + 1
      /\ greet' = [greet EXCEPT ![c].pc = "upserted"] /\ greet[c].pc = "idle"
  BY DEF hello, tableVars
<1>2. /\ Handles' = Handles /\ Greeting' = Greeting
      /\ \A e : Truthful(mr', e) <=> Truthful(mr, e)
  BY <1>1, SameTable
<1>3. /\ greet' \in [Conns -> Greeting] /\ greet'[c].pc = "upserted" /\ greet'[c].left = greet[c].left
      /\ \A k \in Conns : k # c => greet'[k] = greet[k]
  <2>1. greet \in [Conns -> Greeting] /\ greet[c] \in Greeting
    BY DEF PeerInv, PeerTypes
  <2>2. /\ [greet[c] EXCEPT !.pc = "upserted"] \in Greeting
        /\ [greet[c] EXCEPT !.pc = "upserted"].pc = "upserted"
        /\ [greet[c] EXCEPT !.pc = "upserted"].left = greet[c].left
    BY <2>1 DEF Greeting
  <2>3. greet' = [greet EXCEPT ![c] = [greet[c] EXCEPT !.pc = "upserted"]]
    BY <1>1
  <2> QED
    BY ZenonT(60), <2>1, <2>2, <2>3
<1>4. hellos' \in 0..MaxHellos
  BY <1>1, PublicationAssumption DEF PeerInv, PeerTypes
<1>5. PeerTypes'
  BY ZenonT(60), <1>1, <1>2, <1>3, <1>4 DEF PeerInv, PeerTypes
<1>6. AllTruthful'
  BY ZenonT(60), <1>1, <1>2 DEF PeerInv, AllTruthful
<1>7. NoneMissed'
  <2>1. \A k \in Conns : greet'[k].pc # "sending" => greet'[k].left = {}
    BY ZenonT(60), <1>1, <1>3 DEF PeerInv, NoneMissed
  <2>2. \A h : OnItsWay(h, tx)'
    BY ZenonT(60), <1>1, <1>3 DEF OnItsWay
  <2> QED
    BY ZenonT(60), <1>1, <2>1, <2>2 DEF NoneMissed
<1> QED
  BY <1>5, <1>6, <1>7 DEF PeerInv

\* What is left to send of a greeting.
LEMMA LeftOn ==
    ASSUME PeerTypes, NEW c \in Conns, NEW hs \in SUBSET Handles, Left(c, hs)
    PROVE  /\ greet' \in [Conns -> Greeting]
           /\ greet'[c].left = hs /\ greet'[c].pc # "upserted" /\ (greet'[c].pc # "sending" => hs = {})
           /\ \A k \in Conns : k # c => greet'[k] = greet[k]
<1> DEFINE g == [pc |-> IF hs = {} THEN "idle" ELSE "sending", left |-> hs]
<1>1. g \in Greeting /\ g.left = hs /\ g.pc # "upserted" /\ (g.pc # "sending" => hs = {})
  BY DEF Greeting
<1>2. greet \in [Conns -> Greeting] /\ greet' = [greet EXCEPT ![c] = g]
  BY DEF PeerTypes, Left
<1> HIDE DEF g
<1> QED
  BY ZenonT(60), <1>1, <1>2

\* The greeting lists the table: an Active region is in it.
LEMMA ListKeepsPeer == ASSUME IInv, PeerInv, NEW c \in Conns, send_existing_list(c) PROVE PeerInv'
<1>1. /\ mr' = mr /\ unpublished' = unpublished /\ closed' = closed /\ cache' = cache
      /\ drain' = drain /\ wire' = wire /\ events' = events /\ tx' = tx /\ up' = up
      /\ hellos' = hellos /\ Left(c, {h \in Handles : mr[h].listed})
  BY DEF send_existing_list, tableVars
<1>2. /\ Handles' = Handles /\ Greeting' = Greeting
      /\ \A e : Truthful(mr', e) <=> Truthful(mr, e)
  BY <1>1, SameTable
<1>3. /\ greet' \in [Conns -> Greeting]
      /\ greet'[c].left = {h \in Handles : mr[h].listed}
      /\ greet'[c].pc # "sending" => greet'[c].left = {}
      /\ \A k \in Conns : k # c => greet'[k] = greet[k]
  <2>1. PICK hs \in SUBSET Handles : hs = {h \in Handles : mr[h].listed}
    BY Zenon
  <2>2. Left(c, hs)
    BY <1>1, <2>1
  <2> QED
    BY <2>1, <2>2, LeftOn DEF PeerInv
<1>4. PeerTypes'
  BY ZenonT(60), <1>1, <1>2, <1>3 DEF PeerInv, PeerTypes
<1>5. AllTruthful'
  BY ZenonT(60), <1>1, <1>2 DEF PeerInv, AllTruthful
<1>6. ASSUME up, tx \in Conns \ closed, NEW h \in Handles, mr[h].state = "Active"
      PROVE  OnItsWay(h, tx)'
  <2>1. OnItsWay(h, tx) /\ tx \in Conns
    BY ZenonT(60), <1>6 DEF PeerInv, NoneMissed
  <2>2. CASE tx = c
    <3>1. mr[h].listed
      BY ZenonT(60), <1>6, ActiveIsListed
    <3> QED
      BY ZenonT(60), <1>1, <1>3, <2>2, <3>1 DEF OnItsWay
  <2>3. CASE tx # c
    BY ZenonT(60), <1>1, <1>3, <2>1, <2>3 DEF OnItsWay
  <2> QED
    BY <2>2, <2>3
<1>7. \A k \in Conns : greet'[k].pc # "sending" => greet'[k].left = {}
  BY ZenonT(60), <1>3 DEF PeerInv, NoneMissed
<1>8. NoneMissed'
  BY ZenonT(60), <1>1, <1>2, <1>6, <1>7 DEF PeerInv, NoneMissed
<1> QED
  BY <1>4, <1>5, <1>8 DEF PeerInv

\* The greeting sends one MR_PUBLISH: what leaves `left` is on the wire.
LEMMA OneKeepsPeer == ASSUME IInv, PeerInv, NEW c \in Conns, send_existing_one(c) PROVE PeerInv'
<1>1. /\ mr' = mr /\ unpublished' = unpublished /\ closed' = closed /\ cache' = cache
      /\ drain' = drain /\ events' = events /\ tx' = tx /\ up' = up /\ hellos' = hellos
  BY DEF send_existing_one, tableVars
<1>2. PICK k \in greet[c].left : Sent(c, PublishOf(k)) /\ Left(c, greet[c].left \ {k})
  BY Zenon DEF send_existing_one, PublishOf
<1>3. /\ Handles' = Handles /\ Greeting' = Greeting
      /\ \A e : Truthful(mr', e) <=> Truthful(mr, e)
  BY <1>1, SameTable
<1>4. greet[c].left \in SUBSET Handles /\ k \in Handles /\ k \in Nat
  <2>1. greet[c].left \in SUBSET Handles
    BY DEF PeerInv, PeerTypes, Greeting
  <2> QED
    BY <2>1, <1>2, Typed
<1>5. /\ PublishOf(k) \in Event /\ PublishOf(k).h = k /\ PublishOf(k).type = "Publish"
      /\ Truthful(mr, PublishOf(k))
  BY <1>4 DEF PublishOf, Event, Truthful, Handles
<1>6. /\ wire' \in [Conns -> Seq(Event)]
      /\ \A d \in Conns : \A i \in DOMAIN wire'[d] :
           wire'[d][i] = PublishOf(k) \/ (i \in DOMAIN wire[d] /\ wire'[d][i] = wire[d][i])
      /\ \A d \in Conns : \A m : (\E i \in DOMAIN wire[d] : wire[d][i] = m) =>
                                (\E i \in DOMAIN wire'[d] : wire'[d][i] = m)
      /\ c \notin closed => \E i \in DOMAIN wire'[c] : wire'[c][i] = PublishOf(k)
  BY Zenon, <1>2, <1>5, SentOn DEF PeerInv
<1>7. PICK hs \in SUBSET Handles : hs = greet[c].left \ {k}
  BY Zenon, <1>4
<1>8. /\ greet' \in [Conns -> Greeting] /\ greet'[c].left = greet[c].left \ {k}
      /\ greet'[c].pc # "sending" => greet'[c].left = {}
      /\ \A d \in Conns : d # c => greet'[d] = greet[d]
  <2>1. Left(c, hs)
    BY <1>2, <1>7
  <2> QED
    BY <1>7, <2>1, LeftOn DEF PeerInv
<1>9. PeerTypes'
  BY ZenonT(60), <1>1, <1>3, <1>6, <1>8 DEF PeerInv, PeerTypes
<1>10. AllTruthful'
  <2>1. \A d \in Conns : \A i \in DOMAIN wire'[d] : Truthful(mr', wire'[d][i])
    BY ZenonT(60), <1>3, <1>5, <1>6 DEF PeerInv, AllTruthful
  <2> QED
    BY ZenonT(60), <1>1, <1>3, <2>1 DEF PeerInv, AllTruthful
<1>11. greet[c].pc = "sending"
  BY <1>2 DEF PeerInv, NoneMissed
<1>12. ASSUME up, tx \in Conns \ closed, NEW h \in Handles, mr[h].state = "Active"
       PROVE  OnItsWay(h, tx)'
  <2>1. OnItsWay(h, tx) /\ tx \in Conns
    BY ZenonT(60), <1>12 DEF PeerInv, NoneMissed
  <2>2. (\E i \in DOMAIN wire[tx] : wire[tx][i] = PublishOf(h)) =>
           (\E i \in DOMAIN wire'[tx] : wire'[tx][i] = PublishOf(h))
    BY ZenonT(60), <1>6, <2>1
  <2>3. CASE tx # c
    <3>1. greet'[tx] = greet[tx]
      BY <1>8, <2>1, <2>3
    <3> QED
      BY ZenonT(60), <1>1, <2>1, <2>2, <3>1 DEF OnItsWay
  <2>4. CASE tx = c /\ h = k
    <3>1. \E i \in DOMAIN wire'[tx] : wire'[tx][i] = PublishOf(h)
      BY ZenonT(60), <1>6, <1>12, <2>4
    <3> QED
      BY ZenonT(60), <1>1, <3>1 DEF OnItsWay
  <2>5. CASE tx = c /\ h # k
    <3>1. (h \in greet[tx].left => h \in greet'[tx].left) /\ greet[tx].pc # "upserted"
      BY <1>8, <1>11, <2>5
    <3> QED
      BY ZenonT(60), <1>1, <2>1, <2>2, <3>1 DEF OnItsWay
  <2> QED
    BY <2>3, <2>4, <2>5
<1>13. \A d \in Conns : greet'[d].pc # "sending" => greet'[d].left = {}
  BY ZenonT(60), <1>8 DEF PeerInv, NoneMissed
<1>14. NoneMissed'
  BY ZenonT(60), <1>1, <1>3, <1>12, <1>13 DEF PeerInv, NoneMissed
<1> QED
  BY <1>9, <1>10, <1>14 DEF PeerInv

\* The peer processes a message: a Revoke takes no Active region from it.
LEMMA MessageKeepsPeer == ASSUME IInv, PeerInv, NEW c \in Conns, mr_message(c) PROVE PeerInv'
<1>1. /\ mr' = mr /\ unpublished' = unpublished /\ closed' = closed /\ greet' = greet
      /\ drain' = drain /\ events' = events /\ tx' = tx /\ up' = up /\ hellos' = hellos
      /\ wire[c] # <<>> /\ wire' = [wire EXCEPT ![c] = Tail(wire[c])]
  BY DEF mr_message, tableVars
<1>2. PICK m : m = Head(wire[c])
  OBVIOUS
<1>3. cache' = IF m.type = "Publish" THEN cache \union {m.h} ELSE cache \ {m.h}
  BY <1>2 DEF mr_message
<1>4. /\ Handles' = Handles /\ Greeting' = Greeting
      /\ \A e : Truthful(mr', e) <=> Truthful(mr, e)
  BY <1>1, SameTable
<1>5. wire \in [Conns -> Seq(Event)] /\ wire[c] \in Seq(Event)
  BY DEF PeerInv, PeerTypes
<1>6. /\ m \in Event /\ Tail(wire[c]) \in Seq(Event)
      /\ \E j \in DOMAIN wire[c] : m = wire[c][j]
      /\ \A i \in DOMAIN Tail(wire[c]) : \E j \in DOMAIN wire[c] : Tail(wire[c])[i] = wire[c][j]
      /\ \A i \in DOMAIN wire[c] :
           wire[c][i] = m \/ \E j \in DOMAIN Tail(wire[c]) : Tail(wire[c])[j] = wire[c][i]
  BY <1>1, <1>2, <1>5, Tails
<1>7. /\ wire' \in [Conns -> Seq(Event)] /\ wire'[c] = Tail(wire[c])
      /\ \A d \in Conns : d # c => wire'[d] = wire[d]
  BY <1>1, <1>5, <1>6
<1>8. Truthful(mr, m)
  BY ZenonT(60), <1>6 DEF PeerInv, AllTruthful
<1>9. PeerTypes'
  <2>1. cache' \subseteq Handles
    BY <1>3, <1>8 DEF PeerInv, PeerTypes, Truthful, Handles
  <2> QED
    BY ZenonT(60), <1>1, <1>4, <1>7, <2>1 DEF PeerInv, PeerTypes
<1>10. AllTruthful'
  <2>1. ASSUME NEW i \in DOMAIN wire'[c] PROVE Truthful(mr', wire'[c][i])
    <3>1. PICK j \in DOMAIN wire[c] : wire'[c][i] = wire[c][j]
      BY <1>6, <1>7, <2>1
    <3>2. Truthful(mr, wire[c][j])
      BY DEF PeerInv, AllTruthful
    <3> QED
      BY ZenonT(60), <1>4, <3>1, <3>2
  <2>2. \A d \in Conns : \A i \in DOMAIN wire'[d] : Truthful(mr', wire'[d][i])
    BY ZenonT(60), <1>4, <1>7, <2>1 DEF PeerInv, AllTruthful
  <2> QED
    BY ZenonT(60), <1>1, <1>4, <2>2 DEF PeerInv, AllTruthful
<1>11. ASSUME up, tx \in Conns \ closed, NEW h \in Handles, mr[h].state = "Active"
       PROVE  OnItsWay(h, tx)'
  <2>1. OnItsWay(h, tx) /\ tx \in Conns
    BY ZenonT(60), <1>11 DEF PeerInv, NoneMissed
  <2>2. h \in cache => h \in cache'
    <3>1. CASE m.type = "Publish"
      BY <1>3, <3>1
    <3>2. CASE m.type # "Publish"
      <4>1. m.type = "Revoke"
        BY <1>6, <3>2 DEF Event
      <4>2. h # m.h
        BY <1>8, <1>11, <4>1 DEF Truthful
      <4> QED
        BY <1>3, <4>2
    <3> QED
      BY <3>1, <3>2
  <2>3. ASSUME NEW i \in DOMAIN wire[tx], wire[tx][i] = PublishOf(h)
        PROVE  h \in cache' \/ \E j \in DOMAIN wire'[tx] : wire'[tx][j] = PublishOf(h)
    <3>1. CASE tx # c
      BY ZenonT(60), <1>7, <2>1, <2>3, <3>1
    <3>2. CASE tx = c /\ wire[c][i] # m
      BY ZenonT(60), <1>6, <1>7, <2>3, <3>2
    <3>3. CASE tx = c /\ wire[c][i] = m
      <4>1. m = PublishOf(h)
        BY <2>3, <3>3
      <4>2. m.type = "Publish" /\ m.h = h
        BY <4>1 DEF PublishOf
      <4> QED
        BY <1>3, <4>2
    <3> QED
      BY <3>1, <3>2, <3>3
  <2> QED
    BY ZenonT(60), <1>1, <2>1, <2>2, <2>3 DEF OnItsWay
<1>12. NoneMissed'
  BY ZenonT(60), <1>1, <1>4, <1>11 DEF PeerInv, NoneMissed
<1> QED
  BY <1>9, <1>10, <1>12 DEF PeerInv

\* The peer is taken for Down.
LEMMA DownKeepsPeer == ASSUME IInv, PeerInv, mark_down PROVE PeerInv'
<1>1. /\ mr' = mr /\ unpublished' = unpublished /\ closed' = closed /\ greet' = greet
      /\ drain' = drain /\ events' = events /\ tx' = tx /\ up' = FALSE /\ hellos' = hellos
      /\ wire' = wire /\ cache' = cache
  BY DEF mark_down, tableVars
<1>2. /\ Handles' = Handles /\ Greeting' = Greeting
      /\ \A e : Truthful(mr', e) <=> Truthful(mr, e)
  BY <1>1, SameTable
<1>3. PeerTypes'
  BY ZenonT(60), <1>1, <1>2 DEF PeerInv, PeerTypes
<1>4. AllTruthful'
  BY ZenonT(60), <1>1, <1>2 DEF PeerInv, AllTruthful
<1>5. NoneMissed'
  BY ZenonT(60), <1>1 DEF PeerInv, NoneMissed
<1> QED
  BY <1>3, <1>4, <1>5 DEF PeerInv

\* A snapshot lists the peer: without a sender nothing is promised.
LEMMA SnapshotKeepsPeer ==
    ASSUME IInv, PeerInv, NEW alive \in BOOLEAN, member_snapshot(alive) PROVE PeerInv'
<1>1. /\ mr' = mr /\ unpublished' = unpublished /\ closed' = closed /\ greet' = greet
      /\ drain' = drain /\ events' = events /\ tx' = NoConn /\ up' = alive /\ hellos' = hellos
      /\ wire' = wire /\ cache' = cache
  BY DEF member_snapshot, tableVars
<1>2. /\ Handles' = Handles /\ Greeting' = Greeting
      /\ \A e : Truthful(mr', e) <=> Truthful(mr, e)
  BY <1>1, SameTable
<1>3. PeerTypes'
  BY ZenonT(60), <1>1, <1>2 DEF PeerInv, PeerTypes
<1>4. AllTruthful'
  BY ZenonT(60), <1>1, <1>2 DEF PeerInv, AllTruthful
<1>5. NoneMissed'
  BY ZenonT(60), <1>1, PublicationAssumption DEF PeerInv, NoneMissed
<1> QED
  BY <1>3, <1>4, <1>5 DEF PeerInv

\* A connection ends: nothing is promised on it any more.
LEMMA EndKeepsPeer == ASSUME IInv, PeerInv, NEW c \in Conns, connection_end(c) PROVE PeerInv'
<1>1. /\ mr' = mr /\ unpublished' = unpublished /\ closed' = closed \union {c} /\ greet' = greet
      /\ drain' = drain /\ events' = events /\ tx' = tx /\ up' = up /\ hellos' = hellos
      /\ wire' = [wire EXCEPT ![c] = <<>>] /\ cache' = cache
  BY DEF connection_end, tableVars
<1>2. /\ Handles' = Handles /\ Greeting' = Greeting
      /\ \A e : Truthful(mr', e) <=> Truthful(mr, e)
  BY <1>1, SameTable
<1>3. /\ wire' \in [Conns -> Seq(Event)] /\ DOMAIN wire'[c] = {}
      /\ \A d \in Conns : d # c => wire'[d] = wire[d]
  <2>1. wire \in [Conns -> Seq(Event)] /\ <<>> \in Seq(Event) /\ DOMAIN <<>> = {}
    BY DEF PeerInv, PeerTypes
  <2> QED
    BY <1>1, <2>1
<1>4. PeerTypes'
  <2>1. closed' \subseteq Conns
    BY <1>1 DEF PeerInv, PeerTypes
  <2> QED
    BY ZenonT(60), <1>1, <1>2, <1>3, <2>1 DEF PeerInv, PeerTypes
<1>5. AllTruthful'
  <2>1. \A d \in Conns : \A i \in DOMAIN wire'[d] : Truthful(mr', wire'[d][i])
    BY ZenonT(60), <1>2, <1>3 DEF PeerInv, AllTruthful
  <2> QED
    BY ZenonT(60), <1>1, <1>2, <2>1 DEF PeerInv, AllTruthful
<1>6. NoneMissed'
  <2>1. ASSUME up, tx \in Conns \ closed', NEW h \in Handles, mr[h].state = "Active"
        PROVE  OnItsWay(h, tx)'
    <3>1. tx # c /\ tx \notin closed /\ tx \in Conns
      BY <1>1, <2>1 DEF PeerInv, NoneMissed
    <3>2. OnItsWay(h, tx)
      BY ZenonT(60), <2>1, <3>1 DEF PeerInv, NoneMissed
    <3>3. wire'[tx] = wire[tx]
      BY <1>3, <3>1
    <3> QED
      BY ZenonT(60), <1>1, <3>2, <3>3 DEF OnItsWay
  <2> QED
    BY ZenonT(60), <1>1, <1>2, <2>1 DEF PeerInv, NoneMissed
<1> QED
  BY <1>4, <1>5, <1>6 DEF PeerInv

LEMMA InitPeer == ASSUME Init PROVE PeerInv
<1>1. /\ events = <<>> /\ drain = <<>> /\ DOMAIN events = {} /\ DOMAIN drain = {}
      /\ up = FALSE /\ closed = {} /\ cache = {} /\ hellos = 0 /\ tx = NoConn
      /\ greet = [c \in Conns |-> [pc |-> "idle", left |-> {}]]
      /\ wire = [c \in Conns |-> <<>>] /\ \A c \in Conns : DOMAIN wire[c] = {}
  BY DEF Init, TableInit
<1>2. wire \in [Conns -> Seq(Event)] /\ greet \in [Conns -> Greeting]
  BY <1>1 DEF Greeting
<1>3. PeerTypes
  <2>1. hellos \in 0..MaxHellos
    BY <1>1, PublicationAssumption
  <2> QED
    BY ZenonT(60), <1>1, <1>2, <2>1 DEF PeerTypes
<1>4. AllTruthful
  BY <1>1 DEF AllTruthful
<1>5. NoneMissed
  BY <1>1 DEF NoneMissed
<1> QED
  BY <1>3, <1>4, <1>5 DEF PeerInv

\* Every message on its way is truthful, and no Active region is missed, for
\* any number of connections, greetings, regions and deregistrations.
THEOREM PeerInvariant == Spec => []PeerInv
<1>1. ASSUME IInv, PeerInv, [Next]_vars PROVE PeerInv'
  <2>1. CASE TableNext /\ UNCHANGED peerVars
    <3>1. TableEffect
      BY <1>1, <2>1, EffectOfRegister, EffectOfPublish, EffectOfAccess, EffectOfCall DEF TableNext
    <3> QED
      BY <1>1, <2>1, <3>1, TableKeepsPeer
  <2>2. CASE PeerNext
    BY SMTT(30), <1>1, <2>2, TakeKeepsPeer, SendKeepsPeer, HelloKeepsPeer, ListKeepsPeer, OneKeepsPeer,
       MessageKeepsPeer, EndKeepsPeer, DownKeepsPeer, SnapshotKeepsPeer DEF PeerNext
  <2>3. CASE UNCHANGED vars
    <3>1. UNCHANGED <<mr, unpublished, events>> /\ UNCHANGED peerVars
      BY <2>3 DEF vars, tableVars
    <3> QED
      BY <1>1, <3>1, EffectOfNothing, TableKeepsPeer
  <2> QED
    BY <1>1, <2>1, <2>2, <2>3 DEF Next
<1>2. IInv /\ PeerInv /\ [Next]_vars => PeerInv'
  BY <1>1
<1> QED
  BY <1>2, InitPeer, TableInvariant, PTL DEF Spec

\* Every variable of the table, of the control plane and of the peer keeps its
\* type.
THEOREM TypeCorrectness == Spec => []TypeOK
<1>1. ASSUME IInv, PeerInv PROVE TypeOK
  <2>1. drain \in Seq(Broadcast) /\ Len(drain) <= 1
    <3>1. CASE drain = <<>>
      BY <3>1
    <3>2. ASSUME NEW b \in Broadcast, drain = <<b>> PROVE drain \in Seq(Broadcast) /\ Len(drain) <= 1
      BY <3>2
    <3> QED
      BY <1>1, <3>1, <3>2 DEF PeerInv, PeerTypes
  <2> QED
    BY <1>1, <2>1 DEF IInv, PeerInv, PeerTypes, Greeting, Broadcast, TypeOK
<1>2. IInv /\ PeerInv => TypeOK
  BY <1>1
<1> QED
  BY <1>2, TableInvariant, PeerInvariant, PTL

\* Once everything sent has been processed, a peer that is taken for alive and
\* has a sender on a live connection knows every Active region, however the
\* registrations and deregistrations interleave with its connections and with
\* the snapshots that take its sender away.
THEOREM PeersMissNothing == Spec => []NoRegionMissed
<1>1. ASSUME PeerInv, Settled, Reachable, NEW h \in Handles, mr[h].state = "Active"
      PROVE  h \in cache
  <2>1. OnItsWay(h, tx) /\ tx \in Conns
    BY <1>1 DEF PeerInv, PeerTypes, NoneMissed, Reachable
  <2>2. /\ unpublished = {} /\ drain = <<>> /\ greet[tx].pc = "idle"
        /\ DOMAIN events = {} /\ DOMAIN wire[tx] = {}
    BY <1>1, <2>1 DEF Settled
  <2>3. greet[tx].left = {}
    BY <1>1, <2>1, <2>2 DEF PeerInv, NoneMissed
  <2> QED
    BY <2>1, <2>2, <2>3 DEF OnItsWay
<1>2. PeerInv => NoRegionMissed
  BY <1>1 DEF NoRegionMissed
<1> QED
  BY <1>2, PeerInvariant, PTL

-----------------------------------------------------------------------------
(* The wait for references.  A caller is woken by the task that gave the   *)
(* last reference back; where one task serves all verbs, as in the daemon, *)
(* that task is then in no access.                                         *)

\* Of the accesses a, none to h that took its reference while h was Active is
\* under way.
Drained(a, h) == \A t \in Tasks : a[t].pc \in Using /\ a[t].h = h => ~a[t].early

DrainInv ==
    /\ \A d \in Callers : dereg[d].woken => dereg[d].pc \notin {"idle", "found"}
    /\ \A d \in Callers : dereg[d].pc = "release" \/ dereg[d].woken => Drained(acc, dereg[d].h)
    /\ \A h \in Handles : mr[h].outcome = "ok" => Drained(acc, h)

\* A step that starts no access and ends no wait.
LEMMA DrainQuiet ==
    ASSUME DrainInv, UNCHANGED dereg, \A h : Drained(acc, h) => Drained(acc', h),
           \A h \in Handles' : mr'[h].outcome = "ok" => h \in Handles /\ mr[h].outcome = "ok"
    PROVE  DrainInv'
<1>1. dereg' = dereg
  OBVIOUS
<1> QED
  BY ZenonT(60), <1>1 DEF DrainInv

\* Registrations and the steps of the control plane and the peer.
LEMMA RegisterDrain ==
    ASSUME IInv, DrainInv, UNCHANGED <<acc, dereg>>, mr' = mr \/ register
    PROVE  DrainInv'
<1>1. acc' = acc /\ dereg' = dereg
  OBVIOUS
<1>2. \A h \in Handles' : mr'[h].outcome = "ok" => h \in Handles /\ mr[h].outcome = "ok"
  <2>1. CASE mr' = mr
    BY <2>1 DEF Handles
  <2>2. CASE register
    <3>1. PICK n \in Nat : n = Len(mr) + 1
      BY Typed
    <3>2. PICK r \in Region : r.outcome = "none" /\ mr' = Append(mr, r)
      BY Zenon, <2>2 DEF register, Region
    <3>3. mr \in Seq(Region) /\ Handles = 1..Len(mr)
      BY Typed
    <3>4. /\ DOMAIN mr' = 1..(Len(mr) + 1) /\ mr'[Len(mr) + 1] = r
          /\ \A h \in 1..Len(mr) : mr'[h] = mr[h]
      BY <3>2, <3>3
    <3>5. \A h \in 1..(Len(mr) + 1) : h \in 1..Len(mr) \/ h = Len(mr) + 1
      BY <3>3
    <3>6. \A h \in DOMAIN mr' : (h \in Handles /\ mr'[h] = mr[h]) \/ mr'[h] = r
      BY ZenonT(60), <3>3, <3>4, <3>5
    <3> QED
      BY <3>2, <3>6 DEF Handles
  <2> QED
    BY <2>1, <2>2
<1> QED
  BY ZenonT(60), <1>1, <1>2 DEF DrainInv

\* An access other than the fetch_add and the notification.
LEMMA AccessDrain ==
    ASSUME IInv, DrainInv, NEW t \in Tasks,
           (\E h \in Handles : lookup(t, h)) \/ try_inflight_inc_load(t) \/ handler_step(t) \/ inflight_dec(t)
    PROVE  DrainInv'
<1>1. /\ \A u \in Tasks : u # t => acc'[u] = acc[u]
      /\ \/ acc'[t].pc \notin Using
         \/ acc[t].pc \in Using /\ acc'[t].h = acc[t].h /\ acc'[t].early = acc[t].early
  <2>1. CASE \E h \in Handles : lookup(t, h)
    <3>1. PICK h \in Handles : acc' = [acc EXCEPT ![t] = [pc |-> "found", h |-> h, early |-> FALSE]]
      BY Zenon, <2>1 DEF lookup
    <3>2. acc'[t].pc = "found" /\ \A u \in Tasks : u # t => acc'[u] = acc[u]
      BY <3>1, Typed
    <3> QED
      BY Zenon, <3>2, UsingPcs
  <2>2. \A pc \in {"checked", "notify"} : [acc[t] EXCEPT !.pc = pc].pc = pc
    BY Typed DEF AccessState
  <2>3. NoAccess.pc = "idle"
    BY DEF NoAccess
  <2>4. CASE try_inflight_inc_load(t)
    <3>1. acc' = [acc EXCEPT ![t] = [acc[t] EXCEPT !.pc = "checked"]] \/ acc' = [acc EXCEPT ![t] = NoAccess]
      BY <2>4 DEF try_inflight_inc_load, Step
    <3> HIDE DEF NoAccess
    <3> QED
      BY Zenon, <2>2, <2>3, <3>1, Typed, UsingPcs
  <2>5. CASE inflight_dec(t)
    <3>1. acc' = [acc EXCEPT ![t] = [acc[t] EXCEPT !.pc = "notify"]] \/ acc' = [acc EXCEPT ![t] = NoAccess]
      BY <2>5 DEF inflight_dec, Step
    <3> HIDE DEF NoAccess
    <3> QED
      BY Zenon, <2>2, <2>3, <3>1, Typed, UsingPcs
  <2>6. CASE handler_step(t)
    <3>1. PICK pc \in Using : acc' = [acc EXCEPT ![t] = [acc[t] EXCEPT !.pc = pc]] /\ acc[t].pc \in Using
      BY <2>6, HandlerUses
    <3>2. [acc[t] EXCEPT !.pc = pc].h = acc[t].h /\ [acc[t] EXCEPT !.pc = pc].early = acc[t].early
      BY Zenon, Typed DEF AccessState
    <3> QED
      BY Zenon, <3>1, <3>2, Typed
  <2> QED
    BY SMTT(30), <2>1, <2>4, <2>5, <2>6
<1>2. dereg' = dereg
  BY DEF lookup, try_inflight_inc_load, handler_step, inflight_dec
<1>3. Handles' = Handles /\ \A h \in Handles : mr'[h].outcome = mr[h].outcome
  <2>1. CASE mr' = mr
    BY <2>1 DEF Handles
  <2>2. CASE inflight_dec(t)
    <3>1. PICK h \in Handles : h = acc[t].h /\ mr[h] \in Region
      BY <2>2, Typed DEF IInv, inflight_dec
    <3>2. mr \in Seq(Region) /\ DOMAIN mr = Handles /\ DOMAIN mr[h] = {"state", "refs", "listed", "outcome"}
      BY <3>1, Typed DEF Handles, Region
    <3>3. mr' = [mr EXCEPT ![h] = [mr[h] EXCEPT !.refs = mr[h].refs - 1]]
      BY ZenonT(60), <2>2, <3>1 DEF inflight_dec
    <3>4. [mr[h] EXCEPT !.refs = mr[h].refs - 1].outcome = mr[h].outcome
      BY ZenonT(60), <3>2
    <3>5. DOMAIN mr' = DOMAIN mr
      BY <3>2, <3>3
    <3>6. \A i \in Handles : mr'[i] = IF i = h THEN [mr[h] EXCEPT !.refs = mr[h].refs - 1] ELSE mr[i]
      BY ZenonT(60), <3>2, <3>3
    <3> QED
      BY ZenonT(60), <3>2, <3>4, <3>5, <3>6 DEF Handles
  <2> QED
    BY <2>1, <2>2 DEF lookup, try_inflight_inc_load, handler_step
<1>4. \A h : Drained(acc, h) => Drained(acc', h)
  BY ZenonT(60), <1>1 DEF Drained
<1> QED
  BY ZenonT(60), <1>2, <1>3, <1>4, DrainQuiet

\* fetch_add: an early reference is one to an Active region, which nobody
\* deregisters yet.
LEMMA AddDrain ==
    ASSUME IInv, DrainInv, NEW t \in Tasks, try_inflight_inc_add(t)
    PROVE  DrainInv'
<1>1. PICK h \in Handles : h = acc[t].h /\ mr[h] \in Region
  BY Typed DEF IInv, try_inflight_inc_add
<1>2. PICK b \in BOOLEAN : b = (mr[h].state = "Active")
  BY Zenon
<1>3. /\ \A u \in Tasks : u # t => acc'[u] = acc[u]
      /\ acc'[t].h = h /\ acc'[t].early = b
  <2>1. DOMAIN acc[t] = {"pc", "h", "early"} /\ DOMAIN acc = Tasks
    BY Typed DEF AccessState
  <2>2. acc' = [acc EXCEPT ![t] = [acc[t] EXCEPT !.pc = "perms", !.early = b]]
    BY ZenonT(60), <1>1, <1>2 DEF try_inflight_inc_add
  <2> QED
    BY ZenonT(60), <1>1, <2>1, <2>2
<1>4. Handles' = Handles /\ \A i \in Handles : mr'[i].outcome = mr[i].outcome
  <2>1. mr \in Seq(Region) /\ DOMAIN mr = Handles /\ DOMAIN mr[h] = {"state", "refs", "listed", "outcome"}
    BY <1>1, Typed DEF Handles, Region
  <2>2. mr' = [mr EXCEPT ![h] = [mr[h] EXCEPT !.refs = mr[h].refs + 1]]
    BY ZenonT(60), <1>1 DEF try_inflight_inc_add
  <2>3. [mr[h] EXCEPT !.refs = mr[h].refs + 1].outcome = mr[h].outcome
    BY ZenonT(60), <2>1
  <2>4. DOMAIN mr' = DOMAIN mr
    BY <2>1, <2>2
  <2>5. \A i \in Handles : mr'[i] = IF i = h THEN [mr[h] EXCEPT !.refs = mr[h].refs + 1] ELSE mr[i]
    BY ZenonT(60), <2>1, <2>2
  <2> QED
    BY ZenonT(60), <2>1, <2>3, <2>4, <2>5 DEF Handles
<1>5. dereg' = dereg
  BY DEF try_inflight_inc_add
<1>6. \A i : i # h \/ ~b => (Drained(acc, i) => Drained(acc', i))
  BY ZenonT(60), <1>3 DEF Drained
<1>7. CASE ~b
  BY ZenonT(60), <1>4, <1>5, <1>6, <1>7, DrainQuiet
<1>8. CASE b
  <2>1. Winners(h) = {} /\ mr[h].outcome = "none"
    <3>1. OneAtMost(Winners(h), mr[h]) /\ mr[h].state = "Active"
      BY ZenonT(60), <1>2, <1>8 DEF IInv, Decisions, Decided
    <3>2. \A d \in Winners(h) : mr[h].state = "Revoking"
      BY <3>1 DEF OneAtMost
    <3>3. Winners(h) = {}
      BY <3>1, <3>2
    <3> QED
      BY <3>1, <3>3 DEF OneAtMost
  <2>2. \A d \in Callers : dereg[d].pc = "release" \/ dereg[d].woken => dereg[d].h # h
    <3>1. \A d \in Callers : dereg[d].pc = "release" \/ dereg[d].woken => dereg[d].pc \notin {"idle", "found"}
      BY DEF DrainInv
    <3>2. \A d \in Callers : dereg[d].pc \notin {"idle", "found"} => dereg[d].h # h
      BY <2>1 DEF Winners
    <3> QED
      BY ZenonT(60), <3>1, <3>2
  <2>3. \A i \in Handles : mr[i].outcome = "ok" => i # h
    BY <2>1
  <2> QED
    BY ZenonT(60), <1>4, <1>5, <1>6, <2>2, <2>3 DEF DrainInv
<1> QED
  BY <1>7, <1>8

\* The notification: the only serving task holds nothing at that moment.
LEMMA NotifyDrain ==
    ASSUME IInv, DrainInv, NEW t \in Tasks, \A u \in Tasks : u = t, inflight_notify(t)
    PROVE  DrainInv'
<1>1. acc'[t].pc = "idle"
  BY Typed DEF inflight_notify, NoAccess
<1>2. \A h : Drained(acc', h)
  BY <1>1, UsingPcs DEF Drained
<1>3. mr' = mr
  BY DEF inflight_notify
<1>4. \A d \in Callers : dereg'[d].pc = dereg[d].pc /\ (dereg'[d].woken => dereg[d].woken \/ dereg[d].pc = "waiting")
  BY Zenon, Notified
<1>5. \A d \in Callers : dereg'[d].woken => dereg'[d].pc \notin {"idle", "found"}
  BY <1>4 DEF DrainInv
<1> QED
  BY ZenonT(60), <1>2, <1>5 DEF DrainInv

\* A call moves on.
LEMMA CallDrain ==
    ASSUME IInv, DrainInv, NEW d \in Callers, NEW r \in CallState, dereg' = [dereg EXCEPT ![d] = r],
           acc' = acc, Handles' = Handles,
           r.woken => r.pc \notin {"idle", "found"},
           r.pc = "release" \/ r.woken => Drained(acc, r.h),
           \A h \in Handles : mr'[h].outcome = "ok" => mr[h].outcome = "ok" \/ Drained(acc, h)
    PROVE  DrainInv'
<1>1. dereg'[d] = r /\ \A e \in Callers : e # d => dereg'[e] = dereg[e]
  BY Zenon, OneCall
<1>2. \A e \in Callers : dereg'[e].woken => dereg'[e].pc \notin {"idle", "found"}
  BY ZenonT(60), <1>1 DEF DrainInv
<1>3. \A e \in Callers : dereg'[e].pc = "release" \/ dereg'[e].woken => Drained(acc, dereg'[e].h)
  BY ZenonT(60), <1>1 DEF DrainInv
<1>4. \A h \in Handles : mr'[h].outcome = "ok" => Drained(acc, h)
  BY ZenonT(60) DEF DrainInv
<1> QED
  BY ZenonT(60), <1>2, <1>3, <1>4 DEF DrainInv

\* The calls that leave the table alone.
LEMMA WaitDrain ==
    ASSUME IInv, DrainInv, NEW d \in Callers,
           \/ \E h \in Handles : deregister_lookup(d, h)
           \/ drain_load(d) \/ wait_inflight_zero_load(d) \/ wait_inflight_zero_arm(d) \/ deregister_woken(d)
    PROVE  DrainInv'
<1>1. acc' = acc /\ mr' = mr /\ Handles' = Handles
  BY SMTT(30) DEF deregister_lookup, drain_load, wait_inflight_zero_load, wait_inflight_zero_arm, deregister_woken, Handles
<1>0. \A h \in Handles : mr'[h].outcome = "ok" => mr[h].outcome = "ok" \/ Drained(acc, h)
  BY <1>1
<1>2. CASE \E h \in Handles : deregister_lookup(d, h)
  <2>1. PICK h \in Handles : deregister_lookup(d, h)
    BY SMTT(30), <1>2
  <2> DEFINE r == [pc |-> "found", h |-> h, woken |-> FALSE, missed |-> FALSE]
  <2>2. r \in CallState /\ dereg' = [dereg EXCEPT ![d] = r]
    BY <2>1, Typed DEF deregister_lookup, CallState
  <2>3. ~(r.pc = "release" \/ r.woken)
    OBVIOUS
  <2> HIDE DEF r
  <2> QED
    BY ZenonT(60), <1>0, <1>1, <2>2, <2>3, CallDrain
<1>3. ASSUME NEW pc \in {"loading", "release", "arming", "waiting"},
             dereg' = [dereg EXCEPT ![d] = [dereg[d] EXCEPT !.pc = pc]],
             pc = "release" => Drained(acc, dereg[d].h)
      PROVE  DrainInv'
  <2> DEFINE r == [dereg[d] EXCEPT !.pc = pc]
  <2>1. r \in CallState /\ r.pc = pc /\ r.h = dereg[d].h /\ r.woken = dereg[d].woken
    BY Zenon, Typed DEF CallState
  <2>5. dereg' = [dereg EXCEPT ![d] = r]
    BY <1>3
  <2> HIDE DEF r
  <2>2. r.woken => Drained(acc, r.h)
    BY ZenonT(60), <2>1 DEF DrainInv
  <2>3. r.woken => r.pc \notin {"idle", "found"}
    BY <2>1
  <2>4. r.pc = "release" \/ r.woken => Drained(acc, r.h)
    BY ZenonT(60), <1>3, <2>1, <2>2
  <2> QED
    BY ZenonT(60), <1>0, <1>1, <2>1, <2>3, <2>4, <2>5, CallDrain
<1>4. dereg[d].pc # "idle" => dereg[d].h \in Handles
  BY DEF IInv
<1>5. dereg[d].h \in Handles /\ mr[dereg[d].h].refs = 0 => Drained(acc, dereg[d].h)
  <2>1. SUFFICES ASSUME dereg[d].h \in Handles, mr[dereg[d].h].refs = 0 PROVE Drained(acc, dereg[d].h)
    BY SMTT(30)
  <2>2. Cardinality(Holders(dereg[d].h)) = 0
    BY <2>1 DEF IInv, RefsCountAccesses
  <2>3. Holders(dereg[d].h) = {}
    BY SMTT(30), <2>2, HoldersFinite, FS_EmptySet
  <2> QED
    BY <2>3 DEF Holders, Drained
<1>6. dereg[d].h \in Handles => mr[dereg[d].h].refs \in Nat
  BY Typed DEF Region
<1>7. CASE drain_load(d)
  <2>0. PICK n \in Nat : n = mr[dereg[d].h].refs /\ (n = 0 => Drained(acc, dereg[d].h))
    BY <1>4, <1>5, <1>6, <1>7 DEF drain_load
  <2>1. dereg' = [dereg EXCEPT ![d] = [dereg[d] EXCEPT !.pc = IF n > 0 THEN "loading" ELSE "release"]]
    BY ZenonT(60), <1>7, <2>0 DEF drain_load, Goto
  <2>2. CASE n = 0
    BY <1>3, <2>0, <2>1, <2>2
  <2>3. CASE n > 0
    BY <1>3, <2>1, <2>3
  <2> QED
    BY SMTT(30), <2>2, <2>3
<1>8. CASE wait_inflight_zero_load(d)
  <2>0. PICK n \in Nat : n = mr[dereg[d].h].refs /\ (n = 0 => Drained(acc, dereg[d].h))
    BY Zenon, <1>4, <1>5, <1>6, <1>8 DEF wait_inflight_zero_load
  <2>1. dereg' = [dereg EXCEPT ![d] = [dereg[d] EXCEPT !.pc = IF n = 0 THEN "release" ELSE "arming"]]
    BY ZenonT(60), <1>8, <2>0 DEF wait_inflight_zero_load, Goto
  <2>2. CASE n = 0
    BY <1>3, <2>0, <2>1, <2>2
  <2>3. CASE n # 0
    BY <1>3, <2>1, <2>3
  <2> QED
    BY SMTT(30), <2>2, <2>3
<1>9. CASE wait_inflight_zero_arm(d)
  <2>1. dereg' = [dereg EXCEPT ![d] = [dereg[d] EXCEPT !.pc = "waiting"]]
    BY <1>9 DEF wait_inflight_zero_arm, Goto
  <2> QED
    BY <1>3, <2>1
<1>10. CASE deregister_woken(d)
  <2>1. dereg' = [dereg EXCEPT ![d] = [dereg[d] EXCEPT !.pc = "release"]] /\ dereg[d].woken
    BY <1>10 DEF deregister_woken, Goto
  <2>2. Drained(acc, dereg[d].h)
    BY <2>1 DEF DrainInv
  <2> QED
    BY <1>3, <2>1, <2>2
<1> QED
  BY <1>2, <1>7, <1>8, <1>9, <1>10

\* The compare-exchange, and the three ways to end.
LEMMA DecisionDrain ==
    ASSUME IInv, DrainInv, NEW d \in Callers,
           deregister_cas(d) \/ deregister_remove(d) \/ deregister_timeout(d) \/ deregister_release(d)
    PROVE  DrainInv'
<1>1. PICK h \in Handles : h = dereg[d].h /\ mr[h] \in Region /\ dereg[d] \in CallState
  BY Typed DEF IInv, deregister_cas, deregister_remove, deregister_timeout, deregister_release
<1>2. acc' = acc
  BY DEF deregister_cas, deregister_remove, deregister_timeout, deregister_release, ReleaseWith
<1>3. Idle \in CallState /\ Idle.pc = "idle" /\ ~Idle.woken
  BY DEF Idle, CallState
<1> HIDE DEF Idle
<1>4. CASE deregister_cas(d) /\ mr[h].state = "Active"
  <2>1. PICK pc \in {"draining", "removing"} : dereg' = [dereg EXCEPT ![d] = [dereg[d] EXCEPT !.pc = pc]]
    BY <1>1, <1>4 DEF deregister_cas, Goto
  <2>2. dereg[d].pc = "found" /\ ~dereg[d].woken
    BY <1>4 DEF deregister_cas, DrainInv
  <2> DEFINE r == [dereg[d] EXCEPT !.pc = pc]
  <2>3. r \in CallState /\ ~r.woken /\ r.pc # "release"
    BY <1>1, <2>2 DEF CallState
  <2>7. dereg' = [dereg EXCEPT ![d] = r] /\ ~(r.pc = "release" \/ r.woken)
    BY <2>1, <2>3
  <2> HIDE DEF r
  <2>4. PICK e \in Region : e.outcome = mr[h].outcome /\ mr' = [mr EXCEPT ![h] = e]
    BY Zenon, <1>1, <1>4 DEF deregister_cas, Region
  <2>5. Handles' = Handles /\ mr'[h] = e /\ \A i \in Handles : i # h => mr'[i] = mr[i]
    BY Zenon, <2>4, Entry
  <2>6. \A i \in Handles : mr'[i].outcome = "ok" => mr[i].outcome = "ok" \/ Drained(acc, i)
    BY ZenonT(60), <2>4, <2>5
  <2> QED
    BY ZenonT(60), <1>2, <2>3, <2>5, <2>6, <2>7, CallDrain
<1>5. CASE deregister_cas(d) /\ mr[h].state # "Active"
  <2>1. dereg' = [dereg EXCEPT ![d] = Idle] /\ mr' = mr /\ Handles' = Handles
    BY <1>1, <1>5 DEF deregister_cas, Return, Handles
  <2>2. \A i \in Handles : mr'[i].outcome = "ok" => mr[i].outcome = "ok" \/ Drained(acc, i)
    BY <2>1
  <2>3. ~(Idle.pc = "release" \/ Idle.woken)
    BY <1>3
  <2> QED
    BY ZenonT(60), <1>2, <1>3, <2>1, <2>2, <2>3, CallDrain
<1>6. CASE deregister_remove(d) \/ deregister_timeout(d) \/ deregister_release(d)
  <2>1. dereg' = [dereg EXCEPT ![d] = Idle]
    BY SMTT(30), <1>6 DEF deregister_remove, deregister_timeout, deregister_release, ReleaseWith, Return
  <2>2. PICK e \in Region : /\ mr' = [mr EXCEPT ![h] = e]
                            /\ e.outcome = "ok" => dereg[d].pc = "release"
    <3>1. CASE deregister_remove(d)
      <4>1. [mr[h] EXCEPT !.listed = FALSE, !.outcome = "removed"] \in Region
        BY Zenon, <1>1 DEF Region
      <4>2. [mr[h] EXCEPT !.listed = FALSE, !.outcome = "removed"].outcome = "removed"
        BY <1>1 DEF Region
      <4>3. mr' = [mr EXCEPT ![h] = [mr[h] EXCEPT !.listed = FALSE, !.outcome = "removed"]]
        BY ZenonT(60), <1>1, <3>1 DEF deregister_remove
      <4> QED
        BY Zenon, <4>1, <4>2, <4>3
    <3>2. ASSUME NEW o \in {"ok", "timeout"}, ReleaseWith(d, o), o = "ok" => dereg[d].pc = "release"
          PROVE  \E e \in Region : mr' = [mr EXCEPT ![h] = e] /\ (e.outcome = "ok" => dereg[d].pc = "release")
      <4> DEFINE e == [mr[h] EXCEPT !.state = "Released", !.listed = FALSE, !.outcome = o]
      <4>1. e \in Region /\ e.outcome = o
        BY Zenon, <1>1 DEF Region
      <4>2. mr' = [mr EXCEPT ![h] = e]
        BY ZenonT(60), <1>1, <3>2 DEF ReleaseWith
      <4> HIDE DEF e
      <4> QED
        BY Zenon, <3>2, <4>1, <4>2
    <3> QED
      BY <1>6, <3>1, <3>2 DEF deregister_timeout, deregister_release
  <2>3. Handles' = Handles /\ mr'[h] = e /\ \A i \in Handles : i # h => mr'[i] = mr[i]
    <3>1. mr' = [mr EXCEPT ![h] = e]
      BY <2>2
    <3> QED
      BY Zenon, <3>1, Entry
  <2>4. e.outcome = "ok" => Drained(acc, h)
    <3>1. dereg[d].pc = "release" => Drained(acc, h)
      BY ZenonT(60), <1>1 DEF DrainInv
    <3> QED
      BY <2>2, <3>1
  <2>5. \A i \in Handles : mr'[i].outcome = "ok" => mr[i].outcome = "ok" \/ Drained(acc, i)
    BY ZenonT(60), <2>3, <2>4
  <2>6. ~(Idle.pc = "release" \/ Idle.woken)
    BY <1>3
  <2> QED
    BY ZenonT(60), <1>2, <1>3, <2>1, <2>3, <2>5, <2>6, CallDrain
<1> QED
  BY <1>4, <1>5, <1>6

\* deregister_async with one serving task, as the daemon runs one: when it
\* returns Ok, no access that took its reference while the region was Active
\* is under way.  (With two tasks the late notification of an earlier access
\* ends the wait too soon.)
THEOREM EarlyAccessesEnd ==
    ASSUME \A t, u \in Tasks : t = u
    PROVE  Spec => []EarlyAccessesDone
<1>1. ASSUME IInv, DrainInv, TableNext PROVE DrainInv'
  <2>1. CASE register \/ \E h \in unpublished : register_publish(h)
    BY Zenon, <1>1, <2>1, RegisterDrain DEF register, register_publish
  <2>2. CASE \E t \in Tasks : Access(t)
    BY <1>1, <2>2, AccessDrain, AddDrain, NotifyDrain DEF Access
  <2>3. CASE \E d \in Callers : Deregister(d) \/ \E h \in Handles : deregister_lookup(d, h)
    BY <1>1, <2>3, WaitDrain, DecisionDrain DEF Deregister
  <2> QED
    BY <1>1, <2>1, <2>2, <2>3 DEF TableNext
<1>2. ASSUME IInv, DrainInv, mr' = mr, UNCHANGED <<acc, dereg>> PROVE DrainInv'
  BY <1>2, RegisterDrain
<1>3. Init => DrainInv
  <2>1. SUFFICES ASSUME Init PROVE DrainInv
    OBVIOUS
  <2>2. /\ Handles = {}
        /\ \A d \in Callers : dereg[d].pc = "idle" /\ ~dereg[d].woken
    <3>1. mr = <<>> /\ dereg = [d \in Callers |-> Idle] /\ Idle.pc = "idle" /\ ~Idle.woken
      BY <2>1 DEF Init, TableInit, Idle
    <3>2. Handles = {}
      BY <3>1 DEF Handles
    <3> QED
      BY ZenonT(60), <3>1, <3>2
  <2> QED
    BY ZenonT(60), <2>2 DEF DrainInv
<1>4. DrainInv => EarlyAccessesDone
  BY ZenonT(60) DEF DrainInv, Drained, EarlyAccessesDone, Holders
<1>5. IInv /\ DrainInv /\ [Next]_vars => DrainInv'
  <2>1. PeerNext \/ UNCHANGED vars => mr' = mr /\ UNCHANGED <<acc, dereg>>
    BY Zenon DEF PeerNext, broadcast_take, broadcast_send, hello, send_existing_list, send_existing_one,
           mr_message, connection_end, mark_down, member_snapshot, tableVars, vars
  <2> QED
    BY <1>1, <1>2, <2>1 DEF Next
<1> QED
  BY <1>3, <1>4, <1>5, TableInvariant, PTL DEF Spec

-----------------------------------------------------------------------------
(* The wait is never for nothing.  The invariant extends WaitsForAccess to *)
(* the caller that has loaded the references and does not wait yet.        *)

WaitInv ==
    \A d \in Callers :
      dereg[d].pc \in {"arming", "waiting"} /\ ~dereg[d].woken /\ ~dereg[d].missed => Attended(dereg[d].h)

\* A step of an access other than the notification: who was attended still
\* is, also when the access gives back a reference that is not the last.
LEMMA AccessAttends ==
    ASSUME IInv, NEW t \in Tasks, Access(t), ~inflight_notify(t), NEW h, Attended(h)
    PROVE  Attended(h)'
<1> DEFINE Attends(pc) == pc \in Using \union {"notify"}
<1>1. PICK u \in Tasks : acc[u].h = h /\ Attends(acc[u].pc)
  BY DEF Attended
<1>2. SUFFICES \E v \in Tasks : acc'[v].h = h /\ Attends(acc'[v].pc)
  BY DEF Attended
<1>3. ASSUME NEW r, acc' = [acc EXCEPT ![t] = r], u = t => r.h = acc[t].h /\ Attends(r.pc)
      PROVE  \E v \in Tasks : acc'[v].h = h /\ Attends(acc'[v].pc)
  <2>1. acc'[t] = r /\ \A v \in Tasks : v # t => acc'[v] = acc[v]
    BY <1>3, Typed
  <2> QED
    BY ZenonT(60), <1>1, <1>3, <2>1
<1>4. ~Attends("idle") /\ ~Attends("found") /\ ~Attends("checked") /\ Attends("perms") /\ Attends("notify")
  BY UsingPcs
<1>5. ASSUME NEW pc PROVE [acc[t] EXCEPT !.pc = pc].h = acc[t].h /\ [acc[t] EXCEPT !.pc = pc].pc = pc
  BY Typed DEF AccessState
<1>6. CASE \E i \in Handles : lookup(t, i)
  <2>1. PICK i \in Handles : acc' = [acc EXCEPT ![t] = [pc |-> "found", h |-> i, early |-> FALSE]]
    BY Zenon, <1>6 DEF lookup
  <2>2. acc[t].pc = "idle"
    BY SMTT(30), <1>6 DEF lookup
  <2> QED
    BY ZenonT(60), <1>1, <1>3, <1>4, <2>1, <2>2
<1>7. CASE try_inflight_inc_load(t)
  <2>1. /\ acc[t].pc = "found"
        /\ \/ acc' = [acc EXCEPT ![t] = [acc[t] EXCEPT !.pc = "checked"]]
           \/ acc' = [acc EXCEPT ![t] = NoAccess]
    BY <1>7 DEF try_inflight_inc_load, Step
  <2>2. u # t
    BY Zenon, <1>1, <1>4, <2>1
  <2> QED
    BY ZenonT(60), <1>3, <2>1, <2>2
<1>8. CASE try_inflight_inc_add(t)
  <2>1. acc[t].pc = "checked" /\ \E r : acc' = [acc EXCEPT ![t] = r]
    BY Zenon, <1>8 DEF try_inflight_inc_add
  <2>2. u # t
    BY Zenon, <1>1, <1>4, <2>1
  <2> QED
    BY ZenonT(60), <1>3, <2>1, <2>2
<1>9. CASE handler_step(t)
  <2>1. PICK pc \in Using : acc' = [acc EXCEPT ![t] = [acc[t] EXCEPT !.pc = pc]]
    BY <1>9, HandlerUses
  <2>2. Attends(pc)
    OBVIOUS
  <2> QED
    BY ZenonT(60), <1>3, <1>5, <2>1, <2>2
<1>10. CASE inflight_dec(t) /\ mr[acc[t].h].refs = 1
  <2>1. acc' = [acc EXCEPT ![t] = [acc[t] EXCEPT !.pc = "notify"]]
    BY Zenon, <1>10 DEF inflight_dec, Step
  <2> QED
    BY ZenonT(60), <1>3, <1>4, <1>5, <2>1
<1>11. CASE inflight_dec(t) /\ mr[acc[t].h].refs # 1
  <2>1. acc' = [acc EXCEPT ![t] = NoAccess] /\ acc[t].pc = "done"
    BY Zenon, <1>11 DEF inflight_dec
  <2>2. CASE u # t
    BY ZenonT(60), <1>3, <2>1, <2>2
  <2>3. CASE u = t
    <3>1. h \in Handles /\ t \in Holders(h) /\ Cardinality(Holders(h)) # 1
      BY Zenon, <1>1, <1>11, <2>1, <2>3, UsingPcs DEF IInv, RefsCountAccesses, Holders
    <3>2. Holders(h) # {t}
      BY Zenon, <3>1, FS_Singleton
    <3>3. PICK v \in Holders(h) : v # t
      BY <3>1, <3>2
    <3>4. v \in Tasks /\ acc[v].h = h /\ Attends(acc[v].pc)
      BY <3>3 DEF Holders
    <3>5. acc'[v] = acc[v]
      BY <2>1, <3>3, <3>4, Typed
    <3> QED
      BY Zenon, <3>4, <3>5
  <2> QED
    BY <2>2, <2>3
<1> QED
  BY Zenon, <1>6, <1>7, <1>8, <1>9, <1>10, <1>11 DEF Access

\* The notification: the callers it leaves behind are woken or have missed it.
LEMMA NotifyWait == ASSUME IInv, WaitInv, NEW t \in Tasks, inflight_notify(t) PROVE WaitInv'
<1>1. SUFFICES ASSUME NEW d \in Callers, dereg'[d].pc \in {"arming", "waiting"}, ~dereg'[d].woken, ~dereg'[d].missed
               PROVE  Attended(dereg[d].h)'
  BY Zenon, Notified DEF WaitInv
<1>2. /\ dereg[d].pc \in {"arming", "waiting"} /\ ~dereg[d].woken /\ ~dereg[d].missed
      /\ dereg[d].h # acc[t].h
  BY Zenon, <1>1, Notified
<1>3. PICK u \in Tasks : acc[u].h = dereg[d].h /\ acc[u].pc \in Using \union {"notify"}
  BY Zenon, <1>2 DEF WaitInv, Attended
<1>4. acc'[u] = acc[u]
  BY <1>2, <1>3, Typed DEF inflight_notify
<1> QED
  BY ZenonT(60), <1>3, <1>4, Notified DEF Attended

\* A call moves on: a caller that goes to wait has just seen a reference.
LEMMA CallWait ==
    ASSUME IInv, WaitInv, NEW d \in Callers, Deregister(d) \/ \E h \in Handles : deregister_lookup(d, h)
    PROVE  WaitInv'
<1>1. acc' = acc
  BY SMTT(30) DEF Deregister, deregister_lookup, deregister_cas, deregister_remove, drain_load, wait_inflight_zero_load,
     wait_inflight_zero_arm, deregister_woken, deregister_timeout, deregister_release, ReleaseWith
<1>2. \A h : Attended(h)' <=> Attended(h)
  BY Zenon, <1>1 DEF Attended
<1>3. ASSUME NEW r, dereg' = [dereg EXCEPT ![d] = r],
             r.pc \in {"arming", "waiting"} /\ ~r.woken /\ ~r.missed => Attended(r.h)
      PROVE  WaitInv'
  <2>1. dereg'[d] = r /\ \A e \in Callers : e # d => dereg'[e] = dereg[e]
    BY <1>3, Typed
  <2> QED
    BY ZenonT(60), <1>2, <1>3, <2>1 DEF WaitInv
<1>4. ASSUME NEW pc, pc \notin {"arming", "waiting"}, dereg' = [dereg EXCEPT ![d] = [dereg[d] EXCEPT !.pc = pc]]
      PROVE  WaitInv'
  <2>1. [dereg[d] EXCEPT !.pc = pc].pc = pc
    BY Typed DEF CallState
  <2> QED
    BY ZenonT(60), <1>3, <1>4, <2>1
<1>5. CASE dereg' = [dereg EXCEPT ![d] = Idle]
  <2>1. Idle.pc = "idle"
    BY DEF Idle
  <2> HIDE DEF Idle
  <2> QED
    BY ZenonT(60), <1>3, <1>5, <2>1
<1>6. CASE \E h \in Handles : deregister_lookup(d, h)
  <2>1. PICK h \in Handles : dereg' = [dereg EXCEPT ![d] = [pc |-> "found", h |-> h, woken |-> FALSE, missed |-> FALSE]]
    BY Zenon, <1>6 DEF deregister_lookup
  <2>2. [pc |-> "found", h |-> h, woken |-> FALSE, missed |-> FALSE].pc = "found"
    OBVIOUS
  <2> QED
    BY ZenonT(60), <1>3, <2>1, <2>2
<1>7. CASE deregister_cas(d)
  <2>1. \/ \E pc \in {"draining", "removing"} : dereg' = [dereg EXCEPT ![d] = [dereg[d] EXCEPT !.pc = pc]]
        \/ dereg' = [dereg EXCEPT ![d] = Idle]
    BY Zenon, <1>7 DEF deregister_cas, Goto, Return
  <2> QED
    BY ZenonT(60), <1>4, <1>5, <2>1
<1>8. CASE deregister_remove(d) \/ deregister_timeout(d) \/ deregister_release(d)
  BY Zenon, <1>5, <1>8 DEF deregister_remove, deregister_timeout, deregister_release, ReleaseWith, Return
<1>9. CASE drain_load(d) \/ deregister_woken(d)
  <2>1. \E pc \in {"loading", "release"} : dereg' = [dereg EXCEPT ![d] = [dereg[d] EXCEPT !.pc = pc]]
    BY <1>9 DEF drain_load, deregister_woken, Goto
  <2> QED
    BY ZenonT(60), <1>4, <2>1
<1>10. CASE wait_inflight_zero_load(d)
  <2>1. CASE mr[dereg[d].h].refs = 0
    <3>1. dereg' = [dereg EXCEPT ![d] = [dereg[d] EXCEPT !.pc = "release"]]
      BY Zenon, <1>10, <2>1 DEF wait_inflight_zero_load, Goto
    <3>2. "release" \notin {"arming", "waiting"}
      OBVIOUS
    <3> QED
      BY ZenonT(60), <1>4, <3>1, <3>2
  <2>2. CASE mr[dereg[d].h].refs # 0
    <3>1. dereg' = [dereg EXCEPT ![d] = [dereg[d] EXCEPT !.pc = "arming"]]
      BY Zenon, <1>10, <2>2 DEF wait_inflight_zero_load, Goto
    <3>2. Cardinality(Holders(dereg[d].h)) # 0
      BY Zenon, <1>10, <2>2 DEF wait_inflight_zero_load, IInv, RefsCountAccesses
    <3>3. Holders(dereg[d].h) # {}
      BY Zenon, <3>2, FS_EmptySet
    <3>4. Attended(dereg[d].h)
      BY <3>3 DEF Holders, Attended
    <3>5. [dereg[d] EXCEPT !.pc = "arming"].h = dereg[d].h
      BY Typed DEF CallState
    <3> QED
      BY ZenonT(60), <1>3, <3>1, <3>4, <3>5
  <2> QED
    BY <2>1, <2>2
<1>11. CASE wait_inflight_zero_arm(d)
  <2> DEFINE r == [dereg[d] EXCEPT !.pc = "waiting"]
  <2>1. dereg' = [dereg EXCEPT ![d] = r] /\ dereg[d].pc = "arming"
    BY Zenon, <1>11 DEF wait_inflight_zero_arm, Goto
  <2>2. r.h = dereg[d].h /\ r.woken = dereg[d].woken /\ r.missed = dereg[d].missed
    BY Zenon, Typed DEF CallState
  <2>3. ~r.woken /\ ~r.missed => Attended(r.h)
    BY ZenonT(60), <2>1, <2>2 DEF WaitInv
  <2> HIDE DEF r
  <2> QED
    BY ZenonT(60), <1>3, <2>1, <2>3
<1> QED
  BY Zenon, <1>6, <1>7, <1>8, <1>9, <1>10, <1>11 DEF Deregister

\* Whichever way the handlers leave and however many tasks serve verbs, a
\* caller of deregister_async that waits and is not woken has an access to
\* wait for, unless it missed the notification.
THEOREM NobodyWaitsForNothing == Spec => []WaitsForAccess
<1>1. ASSUME IInv, WaitInv, [Next]_vars PROVE WaitInv'
  <2>1. CASE UNCHANGED <<acc, dereg>>
    BY Zenon, <1>1, <2>1 DEF WaitInv, Attended
  <2>2. CASE \E t \in Tasks : Access(t)
    <3>1. PICK t \in Tasks : Access(t)
      BY <2>2
    <3>2. CASE inflight_notify(t)
      BY <1>1, <3>2, NotifyWait
    <3>3. CASE ~inflight_notify(t)
      <4>1. dereg' = dereg
        BY Zenon, <3>1, <3>3 DEF Access, lookup, try_inflight_inc_load, try_inflight_inc_add, handler_step, inflight_dec
      <4>2. \A h : Attended(h) => Attended(h)'
        BY Zenon, <1>1, <3>1, <3>3, AccessAttends
      <4> QED
        BY Zenon, <1>1, <4>1, <4>2 DEF WaitInv
    <3> QED
      BY <3>2, <3>3
  <2>3. CASE \E d \in Callers : Deregister(d) \/ \E h \in Handles : deregister_lookup(d, h)
    BY Zenon, <1>1, <2>3, CallWait
  <2>4. PeerNext \/ UNCHANGED vars => UNCHANGED <<acc, dereg>>
    BY Zenon DEF PeerNext, broadcast_take, broadcast_send, hello, send_existing_list, send_existing_one,
           mr_message, connection_end, mark_down, member_snapshot, tableVars, vars
  <2>5. register \/ (\E h \in unpublished : register_publish(h)) => UNCHANGED <<acc, dereg>>
    BY Zenon DEF register, register_publish
  <2> QED
    BY Zenon, <1>1, <2>1, <2>2, <2>3, <2>4, <2>5 DEF Next, TableNext
<1>2. Init => WaitInv
  <2>1. Init => \A d \in Callers : dereg[d].pc = "idle"
    BY DEF Init, TableInit, Idle
  <2> QED
    BY <2>1 DEF WaitInv
<1>3. IInv /\ WaitInv /\ [Next]_vars => WaitInv'
  BY <1>1
<1>4. WaitInv => WaitsForAccess
  BY DEF WaitInv, WaitsForAccess
<1> QED
  BY <1>2, <1>3, <1>4, TableInvariant, PTL DEF Spec
=============================================================================
