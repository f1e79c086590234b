---------------------------- MODULE RegionCache ----------------------------
(***************************************************************************)
(* A node that reads regions homed on another node: its region table, the  *)
(* pool of cached copies, the fetch agent (ub-managed/src/region.rs,       *)
(* cache_pool.rs, fetch_agent.rs) and the handlers that use them           *)
(* (unibusd/src/main.rs, verb_read_va and region_invalidate).              *)
(*                                                                         *)
(* The table and the pool have a lock each, held for one call; a read and  *)
(* an invalidation visit them several times, and a read awaits the home    *)
(* node in between.  Each visit is a step.  The content of a region is the *)
(* number of writes its home has applied; every region has length 1.       *)
(*                                                                         *)
(* Copies lie in the memory of the node's pool MR, and so do the regions   *)
(* this node is the home of: the cache's allocator and the placer's both   *)
(* start at its offset 0 (unibusd/src/main.rs).                            *)
(***************************************************************************)
EXTENDS Integers, Sequences, FiniteSets, SequencesExt

CONSTANTS
    Regions,      \* regions of the home node, registered here as remote
    Readers,      \* concurrent read requests (verb_read_va)
    Invalidators, \* concurrent invalidation requests (region_invalidate)
    max_bytes,    \* CachePool.max_bytes
    pool_len,     \* total_len of the pool's SubAllocator (the daemon: max_bytes)
    MaxWrites,    \* bound on the writes at the home
    MaxTerms,     \* bound on the writer's terms at the home
    MaxOwn        \* bound on the regions homed on this node

ASSUME CacheAssumption ==
    max_bytes \in Nat /\ pool_len \in Nat /\ MaxWrites \in Nat /\ MaxTerms \in Nat
    /\ MaxOwn \in Nat

VARIABLES
    content,      \* home: region -> number of writes applied
    home_epoch,   \* home: region -> epoch, bumped when a writer's term ends
    invalidates,  \* what INVALIDATE requests may name: [r, epoch, content]
    table,        \* region table: region -> [state, shared, epoch]
    entries,      \* pool entries: region -> [offset, epoch], offset -1: none
    order,        \* regions of the pool, least recently used first
    used_bytes,   \* CachePool.used_bytes
    allocated,    \* SubAllocator.allocated
    own,          \* regions homed here: the placer gave them offsets 0 .. own - 1
    pool,         \* content of the pool MR by offset: a region's, Unwritten or OwnData
    read,         \* reader -> [pc, r, shared, epoch, offset, content, floor]
    inval,        \* invalidator -> [pc, r, epoch, content]
    floor         \* region -> content named by the INVALIDATEs processed; -1 once
                  \* one of them overlapped a fetch of the region

homeVars == <<content, home_epoch, invalidates>>
poolVars == <<entries, order, used_bytes, allocated>>
vars == <<homeVars, table, poolVars, own, pool, read, inval, floor>>

Unwritten == -1
OwnData == -2

NotCached == [offset |-> -1, epoch |-> 0]
IdleRead == [pc |-> "idle", r |-> CHOOSE r \in Regions : TRUE, shared |-> 0, epoch |-> 0,
             offset |-> -1, content |-> -1, floor |-> 0]
IdleInval == [pc |-> "idle", r |-> CHOOSE r \in Regions : TRUE, epoch |-> 0, content |-> 0]

Init ==
    /\ content = [r \in Regions |-> 0]
    /\ home_epoch = [r \in Regions |-> 0]
    /\ invalidates = {[r |-> r, epoch |-> 0, content |-> 0] : r \in Regions}
    /\ table = [r \in Regions |-> [state |-> "Invalid", shared |-> 0, epoch |-> 0]]
    /\ entries = [r \in Regions |-> NotCached]
    /\ order = <<>>
    /\ used_bytes = 0
    /\ allocated = 0
    /\ own = 0
    /\ pool = [o \in 0..pool_len - 1 |-> Unwritten]
    /\ read = [t \in Readers |-> IdleRead]
    /\ inval = [i \in Invalidators |-> IdleInval]
    /\ floor = [r \in Regions |-> 0]

-----------------------------------------------------------------------------
(* The home node, as far as this node sees it.  A client writes there and  *)
(* takes and ends writer's terms; the answers to acquire_writer and to     *)
(* release_writer name the epoch that it may pass on to this node at any   *)
(* later time, any number of times and in any order.                       *)

home_write(r) ==
    /\ content' = [content EXCEPT ![r] = @ + 1]
    /\ invalidates' = invalidates \union
                        {[r |-> r, epoch |-> home_epoch[r], content |-> content[r] + 1]}
    /\ UNCHANGED <<home_epoch, table, poolVars, own, pool, read, inval, floor>>

home_end_term(r) ==
    /\ home_epoch' = [home_epoch EXCEPT ![r] = @ + 1]
    /\ invalidates' = invalidates \union
                        {[r |-> r, epoch |-> home_epoch[r] + 1, content |-> content[r]]}
    /\ UNCHANGED <<content, table, poolVars, own, pool, read, inval, floor>>

-----------------------------------------------------------------------------
(* The pool (cache_pool.rs).                                               *)

Cached(r) == entries[r] # NotCached
Held(r) == pool[entries[r].offset]
Others(r) == SelectSeq(order, LAMBDA q : q # r)

\* lookup: the entry becomes the most recently used one.
pool_touch(r) ==
    /\ order' = IF Cached(r) THEN Append(Others(r), r) ELSE order
    /\ UNCHANGED <<entries, used_bytes, allocated>>

\* A mistake to compare with: remove counts an entry it did not find.
pool_remove_uncached(r) ==
    /\ entries' = [entries EXCEPT ![r] = NotCached]
    /\ order' = Others(r)
    /\ used_bytes' = used_bytes - 1
    /\ UNCHANGED allocated

\* remove: nothing when the region is not cached.
pool_remove(r) ==
    IF Cached(r)
      THEN /\ entries' = [entries EXCEPT ![r] = NotCached]
           /\ order' = Others(r)
           /\ used_bytes' = used_bytes - 1
           /\ UNCHANGED allocated
      ELSE UNCHANGED poolVars

-----------------------------------------------------------------------------
(* verb_read_va.                                                           *)

\* A fetch is under way from the look at the region table to complete_fetch.
Fetching(t, r) == read[t].r = r /\ read[t].pc \notin {"idle", "hit", "fill"}
Invalidating(i, r) == inval[i].r = r /\ inval[i].pc # "idle"

Goto(t, pc) == read' = [read EXCEPT ![t].pc = pc]

Answer(t) == read' = [read EXCEPT ![t] = IdleRead]

\* FetchAgent.read_va, the look at the region table.
read_va(t, r) ==
    /\ read[t].pc = "idle"
    /\ read' = [read EXCEPT ![t] =
                  IF table[r].state = "Shared"
                    THEN [IdleRead EXCEPT !.pc = "probe", !.r = r, !.epoch = table[r].epoch,
                                          !.shared = table[r].shared, !.floor = floor[r]]
                    ELSE [IdleRead EXCEPT !.pc = "fetch", !.r = r, !.epoch = table[r].epoch]]
    /\ floor' = [floor EXCEPT ![r] = IF \E i \in Invalidators : Invalidating(i, r)
                                       THEN -1 ELSE @]
    /\ UNCHANGED <<homeVars, table, poolVars, own, pool, inval>>

\* FetchAgent.read_va of a Shared region: the look at the pool.
read_va_probe(t) ==
    LET r == read[t].r IN
    /\ read[t].pc = "probe"
    /\ pool_touch(r)
    /\ read' = [read EXCEPT ![t] =
         IF ~Cached(r) THEN [@ EXCEPT !.pc = "fetch", !.shared = 0, !.floor = 0]
         ELSE IF entries[r].epoch < @.shared
           THEN [IdleRead EXCEPT !.pc = "remove", !.r = r]
           ELSE [IdleRead EXCEPT !.pc = "hit", !.r = r, !.floor = read[t].floor]]
    /\ UNCHANGED <<homeVars, table, own, pool, inval, floor>>

\* invalidate_local in two steps, then the second look at the region table.
read_va_remove(t) ==
    /\ read[t].pc = "remove"
    /\ pool_remove(read[t].r)
    /\ Goto(t, "invalid")
    /\ UNCHANGED <<homeVars, table, own, pool, inval, floor>>

read_va_set_state(t) ==
    /\ read[t].pc = "invalid"
    /\ table' = [table EXCEPT ![read[t].r].state = "Invalid"]
    /\ Goto(t, "lookup")
    /\ UNCHANGED <<homeVars, poolVars, own, pool, inval, floor>>

read_va_lookup(t) ==
    /\ read[t].pc = "lookup"
    /\ read' = [read EXCEPT ![t].pc = "fetch", ![t].epoch = table[read[t].r].epoch]
    /\ UNCHANGED <<homeVars, table, poolVars, own, pool, inval, floor>>

\* CacheHit: a second lookup, unwrapped (the handler panics when the entry is
\* gone), and the answer read from the pool's memory.
cache_hit(t) ==
    /\ read[t].pc = "hit"
    /\ pool_touch(read[t].r)
    /\ Answer(t)
    /\ UNCHANGED <<homeVars, table, own, pool, inval, floor>>

\* CacheMiss: ub_read_remote answers with what the home holds, or fails.
cache_miss(t) ==
    /\ read[t].pc = "fetch"
    /\ \/ read' = [read EXCEPT ![t].pc = "room", ![t].content = content[read[t].r]]
       \/ Answer(t)
    /\ UNCHANGED <<homeVars, table, poolVars, own, pool, inval, floor>>

\* CachePool.insert, one turn of its loop: evict_lru, which marks the region
\* Invalid under the pool's lock, or no entry to evict and no insertion.
insert_evict(t) ==
    /\ read[t].pc = "room"
    /\ used_bytes + 1 > max_bytes
    /\ IF order = <<>>
         THEN /\ Answer(t)
              /\ UNCHANGED <<poolVars, table>>
         ELSE /\ entries' = [entries EXCEPT ![Head(order)] = NotCached]
              /\ order' = Tail(order)
              /\ used_bytes' = used_bytes - 1
              /\ table' = [table EXCEPT ![Head(order)].state = "Invalid"]
              /\ UNCHANGED <<allocated, read>>
    /\ UNCHANGED <<homeVars, own, pool, inval, floor>>

\* CachePool.insert, after its loop.
insert_room(t) ==
    /\ read[t].pc = "room"
    /\ used_bytes + 1 <= max_bytes
    /\ Goto(t, "alloc")
    /\ UNCHANGED <<homeVars, table, poolVars, own, pool, inval, floor>>

\* SubAllocator.alloc and the count of used bytes; an exhausted pool ends the
\* insertion, and the read answers what it fetched.
insert_alloc(t) ==
    /\ read[t].pc = "alloc"
    /\ IF allocated < pool_len
         THEN /\ read' = [read EXCEPT ![t].pc = "insert", ![t].offset = allocated]
              /\ allocated' = allocated + 1
              /\ used_bytes' = used_bytes + 1
         ELSE /\ Answer(t)
              /\ UNCHANGED <<allocated, used_bytes>>
    /\ UNCHANGED <<homeVars, table, entries, order, own, pool, inval, floor>>

\* The entry replaces the one the region may have.
insert_entry(t) ==
    LET r == read[t].r IN
    /\ read[t].pc = "insert"
    /\ entries' = [entries EXCEPT ![r] = [offset |-> read[t].offset, epoch |-> read[t].epoch]]
    /\ order' = Append(Others(r), r)
    /\ Goto(t, "shared")
    /\ UNCHANGED <<homeVars, table, used_bytes, allocated, own, pool, inval, floor>>

\* FetchAgent.complete_fetch, after the insertion: set_state, then set_epoch.
complete_fetch_state(t) ==
    /\ read[t].pc = "shared"
    /\ table' = [table EXCEPT ![read[t].r].state = "Shared",
                              ![read[t].r].shared = read[t].epoch]
    /\ Goto(t, "epoch")
    /\ UNCHANGED <<homeVars, poolVars, own, pool, inval, floor>>

complete_fetch_epoch(t) ==
    /\ read[t].pc = "epoch"
    /\ table' = [table EXCEPT ![read[t].r].epoch = read[t].epoch]
    /\ read' = [read EXCEPT ![t].pc = "fill", ![t].epoch = 0]
    /\ UNCHANGED <<homeVars, poolVars, own, pool, inval, floor>>

\* The handler copies what it fetched to the pool, and answers with it.
cache_fill(t) ==
    /\ read[t].pc = "fill"
    /\ pool' = [pool EXCEPT ![read[t].offset] = read[t].content]
    /\ Answer(t)
    /\ UNCHANGED <<homeVars, table, poolVars, own, inval, floor>>

-----------------------------------------------------------------------------
(* region_invalidate: FetchAgent.receive_invalidate.                       *)

\* What an INVALIDATE processed from here on promises.
Promise(m) == IF floor[m.r] = -1 \/ \E t \in Readers : Fetching(t, m.r)
                THEN -1 ELSE Max({floor[m.r], m.content})

\* A mistake to compare with: an INVALIDATE of the copy's own epoch is ignored.
receive_invalidate_newer(i, m) ==
    LET e == table[m.r] IN
    /\ inval[i].pc = "idle"
    /\ IF m.epoch <= (IF e.state = "Shared" THEN e.shared ELSE e.epoch)
         THEN /\ floor' = [floor EXCEPT ![m.r] = Promise(m)]
              /\ UNCHANGED inval
         ELSE /\ inval' = [inval EXCEPT ![i] =
                            [pc |-> IF e.state = "Shared" THEN "remove" ELSE "epoch",
                             r |-> m.r, epoch |-> m.epoch, content |-> m.content]]
              /\ floor' = [floor EXCEPT ![m.r] = IF Promise(m) = -1 THEN -1 ELSE @]
    /\ UNCHANGED <<homeVars, table, poolVars, own, pool, read>>

\* The look at the region table: an older epoch than a Shared copy's is
\* ignored; an Invalid region only learns a newer epoch.
receive_invalidate(i, m) ==
    LET e == table[m.r] IN
    /\ inval[i].pc = "idle"
    /\ IF \/ e.state = "Shared" /\ m.epoch < e.shared
          \/ e.state = "Invalid" /\ m.epoch <= e.epoch
         THEN /\ floor' = [floor EXCEPT ![m.r] = Promise(m)]
              /\ UNCHANGED inval
         ELSE /\ inval' = [inval EXCEPT ![i] =
                            [pc |-> IF e.state = "Shared" THEN "remove" ELSE "epoch",
                             r |-> m.r, epoch |-> m.epoch, content |-> m.content]]
              /\ floor' = [floor EXCEPT ![m.r] = IF Promise(m) = -1 THEN -1 ELSE @]
    /\ UNCHANGED <<homeVars, table, poolVars, own, pool, read>>

invalidate_remove(i) ==
    /\ inval[i].pc = "remove"
    /\ pool_remove(inval[i].r)
    /\ inval' = [inval EXCEPT ![i].pc = "state"]
    /\ UNCHANGED <<homeVars, table, own, pool, read, floor>>

invalidate_set_state(i) ==
    /\ inval[i].pc = "state"
    /\ table' = [table EXCEPT ![inval[i].r].state = "Invalid"]
    /\ inval' = [inval EXCEPT ![i].pc = "epoch"]
    /\ UNCHANGED <<homeVars, poolVars, own, pool, read, floor>>

invalidate_set_epoch(i) ==
    /\ inval[i].pc = "epoch"
    /\ table' = [table EXCEPT ![inval[i].r].epoch = inval[i].epoch]
    /\ inval' = [inval EXCEPT ![i] = IdleInval]
    /\ floor' = [floor EXCEPT ![inval[i].r] = Promise(inval[i])]
    /\ UNCHANGED <<homeVars, poolVars, own, pool, read>>

-----------------------------------------------------------------------------
(* The regions homed here: region_alloc takes the next offset of the       *)
(* placer's allocator, verb_write_va of a Home region writes there.        *)

region_alloc ==
    /\ own < MaxOwn
    /\ own' = own + 1
    /\ UNCHANGED <<homeVars, table, poolVars, pool, read, inval, floor>>

verb_write_va(o) ==
    /\ pool' = [pool EXCEPT ![o] = OwnData]
    /\ UNCHANGED <<homeVars, table, poolVars, own, read, inval, floor>>

-----------------------------------------------------------------------------
Home ==
    \E r \in Regions :
      \/ SumFunction(content) < MaxWrites /\ home_write(r)
      \/ SumFunction(home_epoch) < MaxTerms /\ home_end_term(r)

Read(t) ==
    \/ \E r \in Regions : read_va(t, r)
    \/ read_va_probe(t) \/ read_va_remove(t) \/ read_va_set_state(t) \/ read_va_lookup(t)
    \/ cache_hit(t) \/ cache_miss(t)
    \/ insert_evict(t) \/ insert_room(t) \/ insert_alloc(t) \/ insert_entry(t)
    \/ complete_fetch_state(t) \/ complete_fetch_epoch(t) \/ cache_fill(t)

Invalidate(i) ==
    \/ \E m \in invalidates : receive_invalidate(i, m)
    \/ invalidate_remove(i) \/ invalidate_set_state(i) \/ invalidate_set_epoch(i)

Next ==
    \/ Home
    \/ region_alloc \/ \E o \in 0 .. own - 1 : verb_write_va(o)
    \/ \E t \in Readers : Read(t)
    \/ \E i \in Invalidators : Invalidate(i)

Spec == Init /\ [][Next]_vars

-----------------------------------------------------------------------------
\* A read that began after an INVALIDATE was processed and that hits the
\* cache finds data no older than what the home held when that INVALIDATE was
\* issued, whatever other reads, evictions and repeated or late INVALIDATEs do
\* meanwhile (receive_invalidate, read_va's epoch check, complete_fetch).  Three
\* cases the code leaves open are excepted: an INVALIDATE that overlaps a fetch
\* of the same region, an entry whose memory is not written yet, and a copy in
\* memory that is also a region homed here, whose writes replace it.
FreshAfterInvalidate ==
    \A t \in Readers :
      LET r == read[t].r IN
      (/\ read[t].pc = "hit" /\ Cached(r) /\ floor[r] # -1
       /\ Held(r) # Unwritten /\ entries[r].offset >= own)
        => Held(r) >= read[t].floor

\* The pool counts at least the bytes of its entries and of the insertions
\* under way (insert counts before it inserts, remove after it removed), so the
\* unsigned used_bytes never wraps, however removals by reads, evictions and
\* INVALIDATEs of the same region race (CachePool.insert, remove, evict_lru).
\* It may count more: the bytes of an entry that insert replaces stay counted.
UsedCoversEntries ==
    used_bytes >= Cardinality({r \in Regions : Cached(r)})
                    + Cardinality({t \in Readers : read[t].pc = "insert"})

\* The copies lie in a cache pool that the managed layer reserves for them
\* (docs/DESIGN.md:730): what a fetch brings is not written over a region
\* homed here.
OwnRegionsKept == [][\A o \in DOMAIN pool : pool[o] = OwnData => pool'[o] = OwnData]_vars

\* "Cache hit - data is in the cache pool at the given offset": the memory of
\* a cached region that a read may hit holds fetched data.
HitIsFilled == \A t \in Readers : read[t].pc = "hit" /\ Cached(read[t].r) => Held(read[t].r) >= 0

\* The lookup that follows a CacheHit finds the entry (unwrap in verb_read_va).
HitStillCached == \A t \in Readers : read[t].pc = "hit" => Cached(read[t].r)
=============================================================================
