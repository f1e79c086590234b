----------------------------- MODULE Coherence -----------------------------
(***************************************************************************)
(* The writer's lock of one managed region on its home node                *)
(* (ub-managed/src/coherence.rs): acquire_writer, release_writer, the      *)
(* lease timer of the daemon, the set of readers, and WriterGuard, the     *)
(* owner of one grant.                                                     *)
(*                                                                         *)
(* Calls run concurrently: each holds the map of regions for reading, and  *)
(* takes the region's writer lock several times.  acquire_writer looks at  *)
(* the writer and sets it under two separate locks; release_writer and the *)
(* timer clear it and bump the epoch in two steps.  Time is the step at    *)
(* which a lease passes its deadline.                                      *)
(***************************************************************************)
EXTENDS Naturals, Sequences, FiniteSets

CONSTANTS
    Guards,    \* owners of a grant: WriterGuards, or clients of the daemon
    NodeOf,    \* guard -> its writer_node_id
    NoNode,    \* no writer
    MaxTerms,  \* bound on the grants
    MaxQueue   \* bound on the wait queue, which nothing ever empties

ASSUME CoherenceAssumption ==
    /\ IsFiniteSet(Guards) /\ NoNode \notin {NodeOf[g] : g \in Guards}
    /\ MaxTerms \in Nat /\ MaxQueue \in Nat

Nodes == {NodeOf[g] : g \in Guards}

VARIABLES
    writer,  \* RegionHomeState.writer: node and whether its lease is running
    epoch,   \* RegionHomeState.epoch
    readers, \* RegionHomeState.readers
    queue,   \* wait_queues of the region
    guard,   \* guard -> [pc, at]: at is the number of grants when it looked
    timer,   \* the lease timer: "idle" or about to "bump"
    terms,   \* grants so far; the writer's term is the latest
    ended    \* terms that a release or the timer ended

vars == <<writer, epoch, readers, queue, guard, timer, terms, ended>>

NoWriter == [node |-> NoNode, live |-> FALSE]

\* register_region.
Init ==
    /\ writer = NoWriter /\ epoch = 0 /\ readers = {} /\ queue = <<>>
    /\ guard = [g \in Guards |-> [pc |-> "idle", at |-> 0]]
    /\ timer = "idle" /\ terms = 0 /\ ended = 0

Goto(g, pc) == guard' = [guard EXCEPT ![g].pc = pc]

-----------------------------------------------------------------------------
\* A mistake to compare with: the look never denies.
acquire_check_blind(g) ==
    /\ guard[g].pc = "idle"
    /\ guard' = [guard EXCEPT ![g] = [pc |-> "checked", at |-> terms]]
    /\ UNCHANGED <<writer, epoch, readers, queue, timer, terms, ended>>

\* acquire_writer, the look at the writer: a running lease of another node
\* queues the caller for ever and denies the lock.
acquire_check(g) ==
    /\ guard[g].pc = "idle"
    /\ IF writer.live /\ writer.node # NodeOf[g]
         THEN /\ Len(queue) < MaxQueue
              /\ queue' = Append(queue, NodeOf[g])
              /\ UNCHANGED guard
         ELSE /\ guard' = [guard EXCEPT ![g] = [pc |-> "checked", at |-> terms]]
              /\ UNCHANGED queue
    /\ UNCHANGED <<writer, epoch, readers, timer, terms, ended>>

\* acquire_writer, the grant: readers make no difference.
acquire_grant(g) ==
    /\ guard[g].pc = "checked"
    /\ terms < MaxTerms
    /\ writer' = [node |-> NodeOf[g], live |-> TRUE]
    /\ terms' = terms + 1
    /\ guard' = [guard EXCEPT ![g] = [pc |-> "held", at |-> 0]]
    /\ UNCHANGED <<epoch, readers, queue, timer, ended>>

\* A mistake to compare with: a writer whose lease has run out is left to the
\* timer, though its term is counted as ended.
release_writer_live(g, bump, then) ==
    IF writer.node = NodeOf[g]
      THEN /\ writer' = IF writer.live THEN NoWriter ELSE writer
           /\ ended' = ended + 1
           /\ Goto(g, bump)
      ELSE /\ Goto(g, then)
           /\ UNCHANGED <<writer, ended>>

\* release_writer under the writer lock: only the writer's own node clears it.
\* The caller goes on to bump the epoch, or to "then" when it was refused.
release_writer(g, bump, then) ==
    IF writer.node = NodeOf[g]
      THEN /\ writer' = NoWriter
           /\ ended' = ended + 1
           /\ Goto(g, bump)
      ELSE /\ Goto(g, then)
           /\ UNCHANGED <<writer, ended>>

\* WriterGuard.release, and the release request of a client.
guard_release(g) ==
    /\ guard[g].pc = "held"
    /\ release_writer(g, "bump_released", "released")
    /\ UNCHANGED <<epoch, readers, queue, timer, terms>>

\* A mistake to compare with: drop releases a guard that was released.
guard_drop_again(g) ==
    /\ guard[g].pc \in {"held", "released"}
    /\ release_writer(g, "bump_idle", "idle")
    /\ UNCHANGED <<epoch, readers, queue, timer, terms>>

\* WriterGuard's drop: a released guard releases nothing.
guard_drop(g) ==
    /\ guard[g].pc \in {"held", "released"}
    /\ IF guard[g].pc = "released"
         THEN /\ Goto(g, "idle")
              /\ UNCHANGED <<writer, ended>>
         ELSE release_writer(g, "bump_idle", "idle")
    /\ UNCHANGED <<epoch, readers, queue, timer, terms>>

\* A release request of a client that holds no grant.
stray_release(g) ==
    /\ guard[g].pc = "idle"
    /\ release_writer(g, "bump_idle", "idle")
    /\ UNCHANGED <<epoch, readers, queue, timer, terms>>

\* release_writer after the writer lock: bump_epoch.
release_bump(g) ==
    /\ guard[g].pc \in {"bump_released", "bump_idle"}
    /\ epoch' = epoch + 1
    /\ Goto(g, IF guard[g].pc = "bump_released" THEN "released" ELSE "idle")
    /\ UNCHANGED <<writer, readers, queue, timer, terms, ended>>

-----------------------------------------------------------------------------
\* Time: the writer's lease_deadline passes.
lease_runs_out ==
    /\ writer.live
    /\ writer' = [writer EXCEPT !.live = FALSE]
    /\ UNCHANGED <<epoch, readers, queue, guard, timer, terms, ended>>

\* A mistake to compare with: only a lease somebody waits for expires.
check_lease_expiry_waited ==
    /\ timer = "idle"
    /\ writer.node # NoNode /\ ~writer.live /\ queue # <<>>
    /\ writer' = NoWriter
    /\ ended' = ended + 1
    /\ timer' = "bump"
    /\ UNCHANGED <<epoch, readers, queue, guard, terms>>

\* check_lease_expiry, every 500 ms: clears an expired writer, then bumps.
check_lease_expiry ==
    /\ timer = "idle"
    /\ writer.node # NoNode /\ ~writer.live
    /\ writer' = NoWriter
    /\ ended' = ended + 1
    /\ timer' = "bump"
    /\ UNCHANGED <<epoch, readers, queue, guard, terms>>

\* A mistake to compare with: an expired term leaves the epoch alone.
expiry_no_bump ==
    /\ timer = "bump"
    /\ timer' = "idle"
    /\ UNCHANGED <<writer, epoch, readers, queue, guard, terms, ended>>

expiry_bump ==
    /\ timer = "bump"
    /\ epoch' = epoch + 1
    /\ timer' = "idle"
    /\ UNCHANGED <<writer, readers, queue, guard, terms, ended>>

add_reader(n) ==
    /\ readers' = readers \union {n}
    /\ UNCHANGED <<writer, epoch, queue, guard, timer, terms, ended>>

\* handle_invalidate_ack and remove_reader.
remove_reader(n) ==
    /\ readers' = readers \ {n}
    /\ UNCHANGED <<writer, epoch, queue, guard, timer, terms, ended>>

-----------------------------------------------------------------------------
Next ==
    \/ \E g \in Guards :
         \/ acquire_check(g) \/ acquire_grant(g) \/ guard_release(g) \/ guard_drop(g)
         \/ stray_release(g) \/ release_bump(g)
    \/ lease_runs_out \/ check_lease_expiry \/ expiry_bump
    \/ \E n \in Nodes : add_reader(n) \/ remove_reader(n)

\* Deadlines pass, and the daemon's timer task keeps ticking.
Spec ==
    /\ Init /\ [][Next]_vars
    /\ WF_vars(lease_runs_out) /\ WF_vars(check_lease_expiry) /\ WF_vars(expiry_bump)

-----------------------------------------------------------------------------
\* The shape of every variable.
TypeOK ==
    /\ writer \in [node : Nodes \union {NoNode}, live : BOOLEAN]
    /\ writer.node = NoNode => ~writer.live
    /\ epoch \in 0..MaxTerms /\ terms \in 0..MaxTerms /\ ended \in 0..MaxTerms
    /\ readers \subseteq Nodes /\ queue \in Seq(Nodes) /\ Len(queue) <= MaxQueue
    /\ guard \in [Guards -> [pc : {"idle", "checked", "held", "released", "bump_released",
                                   "bump_idle"}, at : 0..MaxTerms]]
    /\ timer \in {"idle", "bump"}

\* Every term that a release or the timer ends raises the epoch by one, once
\* the calls that ended it are done, whoever races whom to end it
\* (release_writer, check_lease_expiry).
EpochCountsEnds ==
    epoch + (IF timer = "bump" THEN 1 ELSE 0)
          + Cardinality({g \in Guards : guard[g].pc \in {"bump_released", "bump_idle"}}) = ended

\* A term ends at most once: a release, a dropped guard, a stray request and
\* the timer that race for it never end it twice, and the term that runs has
\* not ended (release_writer and check_lease_expiry under the writer lock).
EndsWithinTerms == ended + (IF writer.node = NoNode THEN 0 ELSE 1) <= terms

\* A node whose lease is running loses the lock to another node only to a
\* caller that looked before the lease was granted: the gap between the look
\* and the grant in acquire_writer is the only way to two writers.
DisplacedOnlyByRace ==
    [][writer.live /\ writer'.node \notin {writer.node, NoNode}
         => \E g \in Guards : /\ NodeOf[g] = writer'.node
                              /\ guard[g].pc = "checked" /\ guard[g].at < terms]_vars

\* A running lease is ended early only by its own node: not by the timer, a
\* stale guard of another node whose own lease ran out, a guard dropped after
\* its release, or a stray request (release_writer, WriterGuard).
EndedByOwner ==
    [][writer.live /\ writer' = NoWriter
         => \E g \in Guards : /\ NodeOf[g] = writer.node
                              /\ guard[g].pc \in {"idle", "held"} /\ guard'[g] # guard[g]]_vars

\* A writer that never releases does not hold the lock for ever
\* (check_lease_expiry under the daemon's timer).
TermEnds ==
    \A k \in 1..MaxTerms :
      writer.node # NoNode /\ terms = k ~> writer.node = NoNode \/ terms > k

\* "Manage writer locks (only one writer at a time)".
OneWriter ==
    \A g, h \in Guards :
      guard[g].pc = "held" /\ guard[h].pc = "held" /\ NodeOf[g] # NodeOf[h] => ~writer.live
=============================================================================
