---------------------------- MODULE WorkPromise ----------------------------
(***************************************************************************)
(* What a Jetty promises for a receive buffer or a work request handed to  *)
(* it: it is given to one consumer at most, it is completed at most once,  *)
(* and the application reaps each completion at most once.                 *)
(***************************************************************************)
CONSTANT Work   \* receive buffers and work requests

VARIABLE fate   \* work -> what became of it

\* "new"      not handed over yet
\* "posted"   waiting in the JFR or the JFS
\* "taken"    popped by the verb handler or the send worker
\* "done"     its completion waits in the JFC
\* "reaped"   the application polled its completion
\* "dropped"  its completion found the JFC full
Fates == {"new", "posted", "taken", "done", "reaped", "dropped"}

Init == fate = [w \in Work |-> "new"]

Step(w, from, to) ==
    /\ fate[w] \in from
    /\ fate' = [fate EXCEPT ![w] = to]

Post(w) == Step(w, {"new"}, "posted")
Take(w) == Step(w, {"posted"}, "taken")
Complete(w) == Step(w, {"taken"}, "done")
Drop(w) == Step(w, {"taken"}, "dropped")
Reap(w) == Step(w, {"done"}, "reaped")

\* Closing completes everything that is posted to a Jetty, at once.
Flush ==
    /\ fate' \in [Work -> Fates]
    /\ \A w \in Work : fate'[w] # fate[w] => fate[w] = "posted" /\ fate'[w] = "done"

Next ==
    \/ \E w \in Work : Post(w) \/ Take(w) \/ Complete(w) \/ Drop(w) \/ Reap(w)
    \/ Flush

Spec == Init /\ [][Next]_fate
=============================================================================
