---------------------------- MODULE Membership -----------------------------
(***************************************************************************)
(* A node's view of its peers: the member table (ub-control/src/member.rs),*)
(* the tasks of the control plane that feed it (control.rs: one reader per *)
(* connection, the heartbeat task), the watch channel of peer changes, and *)
(* the daemon's task that connects the data plane (unibusd/src/main.rs).   *)
(*                                                                         *)
(* Time is counted in heartbeat intervals; the heartbeat task may be late, *)
(* and its timer then fires at once for each interval it owes (the default *)
(* of tokio's interval).  Each incarnation of a peer has                   *)
(* a connection of its own, and its epoch names both; the readers of two   *)
(* connections run concurrently.  The watch channel keeps only the last    *)
(* event.  Addresses, senders, credits and regions are left out: Transport *)
(* has what a session does with an epoch, MrPublication the regions.       *)
(***************************************************************************)
EXTENDS Naturals, Sequences

CONSTANTS
    Peers,        \* the other nodes
    fail_after,   \* HeartbeatConfig.fail_after
    MaxEpoch,     \* bound on the incarnations of a peer
    MaxTold,      \* bound on the nodes that snapshots list
    MaxDue        \* bound on the intervals the heartbeat task is behind

ASSUME MembershipAssumption ==
    /\ {fail_after, MaxDue} \subseteq Nat \ {0}
    /\ {MaxEpoch, MaxTold} \subseteq Nat

\* Older than this, an age stays silent however late the list is read.
MaxAge == fail_after + 1 + MaxDue
Epochs == 1..MaxEpoch

VARIABLES
    peer,     \* peer -> [alive, epoch]: what is really there
    wire,     \* peer -> epoch -> messages under way on that connection
    member,   \* MemberTable: peer -> [state, age, quiet]: age of last_seen, and
              \* (history, until it is taken for Down) lists since its last heartbeat
    missed,   \* the heartbeat task's missed_count: peer -> count (0: no key)
    due,      \* intervals that passed and whose tick has not begun
    hb,       \* the tick under way: [sending, late, left, snap]: intervals since
              \* its `now`, and the list it works through
    change,   \* peer_change_tx: the last event, until it is read
    dp,       \* the peers the data plane is connected to
    seen      \* what was ever said of a peer: [down, suspect, told]

vars == <<peer, wire, member, missed, due, hb, change, dp, seen>>

Event(type, p) == [type |-> type, peer |-> p]
NoEvent == [type |-> "None"]
Absent == [state |-> "Absent", age |-> 0, quiet |-> 0]
Unlisted == [state |-> "Absent", silent |-> FALSE, quiet |-> 0]

Init ==
    /\ peer = [p \in Peers |-> [alive |-> FALSE, epoch |-> 0]]
    /\ wire = [p \in Peers |-> [e \in Epochs |-> <<>>]]
    /\ member = [p \in Peers |-> Absent]
    /\ missed = [p \in Peers |-> 0]
    /\ due = 0
    /\ hb = [sending |-> FALSE, late |-> 0, left |-> {}, snap |-> [p \in Peers |-> Unlisted]]
    /\ change = NoEvent
    /\ dp = {}
    /\ seen = [down |-> {}, suspect |-> {}, told |-> 0]

-----------------------------------------------------------------------------
(* The peers.  A peer says HELLO when it connects (and again in HELLO_ACK  *)
(* or JOIN, with the same effect), sends heartbeats and answers ours, and  *)
(* says MEMBER_DOWN when it shuts down.                                    *)

Post(p, m) == wire' = [wire EXCEPT ![p][peer[p].epoch] = Append(@, m)]

start(p) ==
    LET e == peer[p].epoch + 1 IN
    /\ ~peer[p].alive /\ e <= MaxEpoch
    /\ peer' = [peer EXCEPT ![p] = [alive |-> TRUE, epoch |-> e]]
    /\ wire' = [wire EXCEPT ![p][e] = <<"Hello">>]
    /\ UNCHANGED <<member, missed, due, hb, change, dp, seen>>

send_heartbeat(p) ==
    /\ peer[p].alive
    /\ wire[p][peer[p].epoch] = <<>>
    /\ Post(p, "Heartbeat")
    /\ UNCHANGED <<peer, member, missed, due, hb, change, dp, seen>>

shutdown(p) ==
    /\ peer[p].alive
    /\ peer' = [peer EXCEPT ![p].alive = FALSE]
    /\ Post(p, "MemberDown")
    /\ UNCHANGED <<member, missed, due, hb, change, dp, seen>>

crash(p) ==
    /\ peer[p].alive
    /\ peer' = [peer EXCEPT ![p].alive = FALSE]
    /\ UNCHANGED <<wire, member, missed, due, hb, change, dp, seen>>

\* The connection of an incarnation that is gone loses what is under way.
reset(p, e) ==
    /\ wire[p][e] # <<>>
    /\ peer[p].epoch > e \/ ~peer[p].alive
    /\ wire' = [wire EXCEPT ![p][e] = <<>>]
    /\ UNCHANGED <<peer, member, missed, due, hb, change, dp, seen>>

-----------------------------------------------------------------------------
(* The reader of a connection: process_control_message.                    *)

send_event(ev) == change' = ev
Known(p) == member[p].state # "Absent"

\* MemberTable::upsert: an entry that exists keeps its last_seen.
upsert(p, s) == member' = [member EXCEPT ![p].state = s]

\* mark_down, mark_active.
mark(p, s) == member' = [member EXCEPT ![p].state = IF Known(p) THEN s ELSE @]

Consume(p, e) == wire' = [wire EXCEPT ![p][e] = Tail(@)]
Incoming(p, e, type) == wire[p][e] # <<>> /\ Head(wire[p][e]) = type

\* Hello, HelloAck and Join: the entry, then the answer and the regions
\* (which may wait for room in the connection's channel), then the event.
on_hello(p, e) ==
    /\ Incoming(p, e, "Hello")
    /\ upsert(p, "Active")
    /\ wire' = [wire EXCEPT ![p][e][1] = "Announce"]
    /\ UNCHANGED <<peer, missed, due, hb, change, dp, seen>>

on_hello_announce(p, e) ==
    /\ Incoming(p, e, "Announce")
    /\ send_event(Event("Joined", p))
    /\ Consume(p, e)
    /\ UNCHANGED <<peer, member, missed, due, hb, dp, seen>>

on_heartbeat(p, e) ==
    /\ Incoming(p, e, "Heartbeat")
    /\ member' = [member EXCEPT ![p].age = 0, ![p].quiet = 0]
    /\ Consume(p, e)
    /\ UNCHANGED <<peer, missed, due, hb, change, dp, seen>>

on_member_down(p, e) ==
    /\ Incoming(p, e, "MemberDown")
    /\ mark(p, "Down")
    /\ send_event(Event("Down", p))
    /\ Consume(p, e)
    /\ seen' = [seen EXCEPT !.down = @ \union {p}]
    /\ UNCHANGED <<peer, missed, due, hb, dp>>

\* One node of a MEMBER_SNAPSHOT that a seed sends: its own view of the peer,
\* which may be behind.  No sender goes with it, and a Joined does, whatever
\* the state.
on_member_snapshot(p) ==
    /\ seen.told < MaxTold
    /\ peer[p].epoch > 0
    /\ \E s \in {"Active", "Suspect", "Down"} :
         /\ upsert(p, s)
         /\ seen' = [told |-> seen.told + 1,
                     down |-> seen.down \union {q \in {p} : s = "Down"},
                     suspect |-> seen.suspect \union {q \in {p} : s = "Suspect"}]
    /\ send_event(Event("Joined", p))
    /\ UNCHANGED <<peer, wire, missed, due, hb, dp>>

-----------------------------------------------------------------------------
(* The heartbeat task.  A tick reads the time, sends a heartbeat to every  *)
(* peer (which may wait for room in a connection's channel), takes the     *)
(* list of nodes once and then works through it, while the readers go on   *)
(* changing the table.                                                     *)

elapse ==
    /\ due < MaxDue
    /\ due' = due + 1
    /\ member' = [p \in Peers |-> [member[p] EXCEPT
                    !.age = IF Known(p) /\ @ < MaxAge THEN @ + 1 ELSE @]]
    /\ hb' = [hb EXCEPT !.late = IF hb.sending THEN @ + 1 ELSE 0]
    /\ UNCHANGED <<peer, wire, missed, change, dp, seen>>

tick ==
    /\ due > 0 /\ ~hb.sending /\ hb.left = {}
    /\ due' = due - 1
    /\ hb' = [hb EXCEPT !.sending = TRUE]
    /\ UNCHANGED <<peer, wire, member, missed, change, dp, seen>>

\* The sends are done.  Ages count from the tick's `now`: the list is compared
\* with the time before the sends.
tick_list ==
    /\ hb.sending
    /\ member' = [p \in Peers |-> [member[p] EXCEPT
                    !.quiet = IF p \in seen.down THEN 0
                              ELSE IF Known(p) /\ @ < 3 * fail_after THEN @ + 1 ELSE @]]
    /\ LET Listed == {p \in Peers : member[p].state \notin {"Absent", "Down"}}
           Look(p) == [state |-> member[p].state,
                       silent |-> member[p].age > fail_after + hb.late,
                       quiet |-> member'[p].quiet]
       IN  hb' = [sending |-> FALSE, late |-> 0, left |-> Listed,
                  snap |-> [p \in Peers |-> IF p \in Listed THEN Look(p) ELSE Unlisted]]
    /\ UNCHANGED <<peer, wire, missed, due, change, dp, seen>>

Checked(p) == hb' = [hb EXCEPT !.left = @ \ {p}, !.snap[p] = Unlisted]
Silent(p) == hb.snap[p].silent
Count(p) == missed[p] + 1

\* mark_suspect leaves alone what is no longer Active.
check_missed(p) ==
    /\ p \in hb.left /\ Silent(p)
    /\ Count(p) < 2 * fail_after
    /\ missed' = [missed EXCEPT ![p] = Count(p)]
    /\ IF Count(p) >= fail_after /\ hb.snap[p].state = "Active"
         THEN /\ IF member[p].state = "Active" THEN mark(p, "Suspect") ELSE UNCHANGED member
              /\ send_event(Event("Suspect", p))
         ELSE UNCHANGED <<member, change>>
    /\ Checked(p)
    /\ UNCHANGED <<peer, wire, due, dp, seen>>

\* A mistake to compare with: only what the list has as Suspect goes Down.
check_down_suspect(p) ==
    /\ p \in hb.left /\ Silent(p)
    /\ Count(p) >= 2 * fail_after
    /\ missed' = [missed EXCEPT ![p] = 2 * fail_after]
    /\ IF hb.snap[p].state = "Suspect"
         THEN /\ mark(p, "Down") /\ send_event(Event("Down", p))
              /\ seen' = [seen EXCEPT !.down = @ \union {p}]
         ELSE UNCHANGED <<member, change, seen>>
    /\ Checked(p)
    /\ UNCHANGED <<peer, wire, due, dp>>

\* The Suspect event a first check may send here is overwritten at once.
check_down(p) ==
    /\ p \in hb.left /\ Silent(p)
    /\ Count(p) >= 2 * fail_after
    /\ missed' = [missed EXCEPT ![p] = 2 * fail_after]
    /\ mark(p, "Down")
    /\ send_event(Event("Down", p))
    /\ Checked(p)
    /\ seen' = [seen EXCEPT !.down = @ \union {p}]
    /\ UNCHANGED <<peer, wire, due, dp>>


check_recovered_forgets(p) ==
    /\ p \in hb.left /\ ~Silent(p)
    /\ missed' = [missed EXCEPT ![p] = 0]
    /\ Checked(p)
    /\ UNCHANGED <<peer, wire, member, due, change, dp, seen>>

\* Heard of within fail_after: the count is dropped, and if there was one a
\* Suspect becomes Active.
check_recovered(p) ==
    /\ p \in hb.left /\ ~Silent(p)
    /\ missed' = [missed EXCEPT ![p] = 0]
    /\ IF missed[p] > 0 /\ hb.snap[p].state = "Suspect"
         THEN mark(p, "Active") /\ send_event(Event("Recovered", p))
         ELSE UNCHANGED <<member, change>>
    /\ Checked(p)
    /\ UNCHANGED <<peer, wire, due, dp, seen>>

-----------------------------------------------------------------------------
(* The daemon's task: rx.changed(), rx.borrow(), then the event's work.    *)
(* The work waits for the data plane's lock; what arrives meanwhile only   *)
(* replaces the channel's value, so that event and work are one step.      *)

task_connect ==
    /\ change.type \in {"Joined", "Recovered"}
    /\ dp' = IF Known(change.peer) THEN dp \union {change.peer} ELSE dp
    /\ change' = NoEvent
    /\ UNCHANGED <<peer, wire, member, missed, due, hb, seen>>

task_suspect ==
    /\ change.type = "Suspect"
    /\ change' = NoEvent
    /\ UNCHANGED <<peer, wire, member, missed, due, hb, dp, seen>>

task_disconnect ==
    /\ change.type = "Down"
    /\ dp' = dp \ {change.peer}
    /\ change' = NoEvent
    /\ UNCHANGED <<peer, wire, member, missed, due, hb, seen>>

-----------------------------------------------------------------------------
reader(p, e) ==
    \/ on_hello(p, e) \/ on_hello_announce(p, e) \/ on_heartbeat(p, e)
    \/ on_member_down(p, e)

heartbeat_task ==
    tick \/ tick_list \/ \E p \in Peers : check_missed(p) \/ check_down(p) \/ check_recovered(p)
peer_change_task == task_connect \/ task_suspect \/ task_disconnect

Next ==
    \/ \E p \in Peers :
         \/ start(p) \/ send_heartbeat(p) \/ shutdown(p) \/ crash(p)
         \/ on_member_snapshot(p)
         \/ \E e \in Epochs : reset(p, e) \/ reader(p, e)
    \/ elapse
    \/ heartbeat_task
    \/ peer_change_task

\* Time passes, and the runtime polls every task that can run: a reader with
\* input, the heartbeat task, whose timer fires, and the data plane's task.
\* That the heartbeat task goes on from its sends assumes that a connection
\* whose channel is full takes more at last, or ends.
Fairness ==
    /\ WF_vars(elapse)
    /\ \A p \in Peers, e \in Epochs : WF_vars(reader(p, e))
    /\ WF_vars(heartbeat_task)
    /\ WF_vars(peer_change_task)

Spec == Init /\ [][Next]_vars /\ Fairness

-----------------------------------------------------------------------------


\* A peer that is gone for good ends as Down (or was never known), whatever
\* stale list a tick is working through and whatever a snapshot says of it.
GoneIsDown ==
    \A p \in Peers :
       <>[](~peer[p].alive) => <>[](member[p].state \in {"Absent", "Down"})

\* A peer the heartbeat task suspects is cleared or given up: it does not
\* stay Suspect, even if its heartbeats come and go.  A peer that a snapshot
\* called Suspect has no count to drop and is not covered.
SuspicionEnds ==
    \A p \in Peers :
       (member[p].state = "Suspect" /\ p \notin seen.suspect)
         ~> (member[p].state # "Suspect" \/ p \in seen.suspect)

-----------------------------------------------------------------------------
(* What the documents say and the code does not do.                        *)

\* A Suspect peer that keeps sending heartbeats becomes Active (or Down).
HeartbeatClears ==
    \A p \in Peers :
       (member[p].state = "Suspect") ~> (member[p].state # "Suspect" \/ ~peer[p].alive)

\* A new node connects its data plane to every member it is told of.
JoinedConnects ==
    \A p \in Peers : <>[](member[p].state = "Active" /\ peer[p].alive) => <>(p \in dp)

\* docs/DETAIL_DESIGN.md, 7.4: only a Suspect peer goes Down for its silence: one
\* that has greeted anew is Active and is suspected first.
DownWasSuspect ==
    [][\A p \in Peers :
         (p \in hb.left /\ p \notin hb'.left /\ member'[p].state = "Down")
         => hb.snap[p].state = "Suspect"]_vars
=============================================================================
