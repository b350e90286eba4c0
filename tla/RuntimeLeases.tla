---------------------------- MODULE RuntimeLeases ----------------------------
(***************************************************************************)
(* The cache of loaded models and the leases on them: ModelService         *)
(* .acquire_runtime (core/models/service.py), RuntimeHandle and            *)
(* ModelRuntimeCache (core/models/cache.py).                               *)
(*                                                                         *)
(* A caller takes, in this order, an admission slot (G), the load lock of  *)
(* the model (L), a lease on the cache entry, and the execution lock of    *)
(* the entry (E).  Every section of the code under the metadata lock (M)   *)
(* is one step here; loading, cleaning up and executing happen outside M.  *)
(*                                                                         *)
(* Entries are objects: a model may have a current entry while threads     *)
(* still refer to an older one.  An entry nobody refers to is reused.      *)
(***************************************************************************)
EXTENDS Naturals, FiniteSets

CONSTANTS
    Threads,        \* threads that call the model service
    Resolvers,      \* ... those that also use the older resolve_runtime
    Unloaders,      \* ... those that also unload models
    Models,         \* canonical ids
    Buckets,        \* media types with a budget of their own, and the default
    BucketOf,       \* the bucket of a model
    Budget,         \* media_limits and max_entries
    Capacity,       \* admission slots
    Entries,        \* RuntimeEntry objects (numbers, taken lowest first)
    MayTimeOut,     \* whether callers wait with a deadline
    NoEntry, NoThread, NoModel

ASSUME PartiesAssumption ==
    /\ Resolvers \subseteq Threads /\ Unloaders \subseteq Threads
    /\ NoThread \notin Threads
    /\ NoModel \notin Models
    /\ Entries \subseteq Nat /\ NoEntry \notin Entries
    /\ IsFiniteSet(Threads) /\ IsFiniteSet(Models)

ASSUME BudgetsAssumption ==
    /\ BucketOf \in [Models -> Buckets]
    /\ Budget \in [Buckets -> Nat \ {0}]
    /\ Capacity \in Nat \ {0}
    /\ MayTimeOut \in BOOLEAN

VARIABLES
    \* --- ModelRuntimeCache
    slot,       \* _entries: the current entry of each model
    lru,        \* its order: <<m, k>> if m was used less recently than k
    state,      \* RuntimeEntry.state
    leases,     \* RuntimeEntry.lease_count
    runtime,    \* RuntimeEntry.runtime: none yet, loaded, cleaned up
    handed,     \* ready entries a RuntimeHandle was given out for
    executor,   \* RuntimeEntry.execution_lock (E)
    loader,     \* the load lock of each model (L)
    \* --- RuntimeAdmissionController
    slots,      \* free admission slots (G)
    \* --- each thread
    pc,
    want,       \* the model it asked for
    holds,      \* the entry it reserved or leased
    drain,      \* _StaleDrainOperation.entry
    retrying,   \* inside _acquire_entry_after_revalidation_failure
    victims,    \* entries it has yet to clean up
    after       \* where it goes on when they are

cache   == <<slot, lru, state, leases, runtime, handed>>
locks   == <<executor, loader, slots>>
calling == <<want, drain, retrying>>
vars    == <<cache, locks, calling, pc, holds, victims, after>>

RuntimeStates == {"LOADING", "READY", "INVALID", "RETIRING"}

BUSY_FOR_UNLOAD_STATES == {"LOADING", "RETIRING"}

EVICTABLE_STATES == {"READY", "INVALID"}

\* Pcs at which a thread holds L, a lease on holds[t], E of holds[t], G.
LoadPcs    == {"reserve", "recheck", "load", "publish", "get", "put",
               "returned"}
UsePcs     == {"using", "spoiled"}
ExecPcs    == {"validate", "unlock"} \cup UsePcs
LeasePcs   == {"execute", "unlease"} \cup ExecPcs
CleanPcs   == {"clean", "unslot"}
DrainPcs   == {"drain", "asleep"}
ClosingPcs == {"dismiss", "pause"}

Pcs == {"idle", "admission", "loadlock", "resolve"}
          \cup LoadPcs \cup LeasePcs \cup CleanPcs \cup DrainPcs \cup ClosingPcs

CacheType ==
    /\ slot \in [Models -> Entries \cup {NoEntry}]
    /\ lru \in SUBSET (Models \X Models)
    /\ state \in [Entries -> RuntimeStates]
    /\ leases \in [Entries -> Nat]
    /\ runtime \in [Entries -> {"none", "loaded", "cleaned"}]
    /\ handed \subseteq Entries

LockType ==
    /\ executor \in [Entries -> Threads \cup {NoThread}]
    /\ loader \in [Models -> Threads \cup {NoThread}]
    /\ slots \in 0..Capacity

CallType ==
    /\ pc \in [Threads -> Pcs]
    /\ want \in [Threads -> Models \cup {NoModel}]
    /\ holds \in [Threads -> Entries \cup {NoEntry}]
    /\ drain \in [Threads -> Entries \cup {NoEntry}]
    /\ retrying \in [Threads -> BOOLEAN]
    /\ victims \in [Threads -> SUBSET Entries]
    /\ after \in [Threads -> {"idle", "recheck", "loadlock", "dismiss", "pause", "returned"}]

\* The types of the cache, the locks and the calls.
TypeOK == CacheType /\ LockType /\ CallType

Init ==
    /\ slot = [m \in Models |-> NoEntry]
    /\ lru = {}
    /\ state = [e \in Entries |-> "RETIRING"]
    /\ leases = [e \in Entries |-> 0]
    /\ runtime = [e \in Entries |-> "cleaned"]
    /\ handed = {}
    /\ executor = [e \in Entries |-> NoThread]
    /\ loader = [m \in Models |-> NoThread]
    /\ slots = Capacity
    /\ pc = [t \in Threads |-> "idle"]
    /\ want = [t \in Threads |-> NoModel]
    /\ holds = [t \in Threads |-> NoEntry]
    /\ drain = [t \in Threads |-> NoEntry]
    /\ retrying = [t \in Threads |-> FALSE]
    /\ victims = [t \in Threads |-> {}]
    /\ after = [t \in Threads |-> "idle"]

-----------------------------------------------------------------------------
(* The cache *)

Cached(m) == slot[m] # NoEntry

InBucket(b) == {m \in Models : Cached(m) /\ BucketOf[m] = b}

Retiring(ms) == {m \in ms : state[slot[m]] = "RETIRING"}

\* Unpinned entries that may be retired, given the lease counts.
Evictable(ms, counts) ==
    {m \in ms : counts[slot[m]] = 0 /\ state[slot[m]] \in EVICTABLE_STATES}

\* m was used before k.
Older(m, k) == <<m, k>> \in lru

\* The order when the models ms are no longer in the cache.
Without(ms) == {p \in lru : p[1] \notin ms /\ p[2] \notin ms}

\* OrderedDict.move_to_end, and insertion of a new key.
Touch(m) == lru' = Without({m}) \cup ({k \in Models \ {m} : Cached(k)} \X {m})

\* _select_capacity_victim_locked returns no victim: there is room.
HasRoom(b) == Cardinality(InBucket(b)) < Budget[b]

\* ... or the least recently used evictable entry, if retiring one is needed
\* and is enough; in every other case it raises RuntimeBusyError.
CapacityVictim(b, m) ==
    LET ms == InBucket(b)
        staying == Cardinality(ms) - Cardinality(Retiring(ms))
        candidates == Evictable(ms, leases)
    IN /\ ~HasRoom(b)
       /\ staying = Budget[b]
       /\ m \in candidates
       /\ \A k \in candidates : ~Older(k, m)

\* _evict_bucket_overflow_locked: the least recently used evictable entries,
\* as many as the bucket is over its budget.
OverflowVictims(b, ms, counts, exclude) ==
    LET candidates == Evictable(ms \ exclude, counts)
        staying == Cardinality(ms) - Cardinality(Retiring(ms \ exclude))
        excess == IF staying > Budget[b] THEN staying - Budget[b] ELSE 0
    IN {m \in candidates : Cardinality({k \in candidates : Older(k, m)}) < excess}

\* An entry that nothing refers to any more, the lowest one.
Unreferenced(e) ==
    /\ \A m \in Models : slot[m] # e
    /\ \A t \in Threads : holds[t] # e /\ drain[t] # e /\ e \notin victims[t]

Fresh(e) == Unreferenced(e) /\ \A f \in Entries : Unreferenced(f) => e <= f

-----------------------------------------------------------------------------
(* Threads *)

Goto(t, p) == pc' = [pc EXCEPT ![t] = p]

\* Mutant: the notification is forgotten.
NotifyNobody(t, p) == Goto(t, p)

\* Condition.notify_all, by a thread that goes to p: every sleeper checks again.
NotifyAll(t, p) ==
    pc' = [u \in Threads |->
              IF u = t THEN p ELSE IF pc[u] = "asleep" THEN "drain" ELSE pc[u]]

\* The thread has vs to clean up before it goes to p.
Retire(t, vs, p) ==
    /\ victims' = [victims EXCEPT ![t] = vs]
    /\ after' = [after EXCEPT ![t] = p]

\* The entries vs become RETIRING; a handle of them has nothing left to spoil.
RetireFrom(vs) ==
    /\ state' = [e \in Entries |-> IF e \in vs THEN "RETIRING" ELSE state[e]]
    /\ handed' = handed \ vs

\* mark_invalid of an entry that is current and ready.
MarkInvalid(e) ==
    /\ state' = [state EXCEPT ![e] = "INVALID"]
    /\ handed' = handed \ {e}

\* Mutant: the count is not raised.
PinUncounted(e) == UNCHANGED leases

Pin(e) == leases' = [leases EXCEPT ![e] = @ + 1]

\* Mutant: the reservation of a failed load stays in the cache.
AbortNothing(m, e) == UNCHANGED <<slot, lru>>

\* abort_reservation, of a reservation that is still the current entry.
AbortReservation(m, e) ==
    IF slot[m] = e
    THEN slot' = [slot EXCEPT ![m] = NoEntry] /\ lru' = Without({m})
    ELSE UNCHANGED <<slot, lru>>

\* Mutant: put forgets what it replaced.
NothingReplaced(m) == {}

\* The entry that put replaces.
Replaced(m) == IF Cached(m) THEN {slot[m]} ELSE {}

ReleaseLoadLock(m) == loader' = [loader EXCEPT ![m] = NoThread]

EndCall(t) ==
    /\ want' = [want EXCEPT ![t] = NoModel]
    /\ drain' = [drain EXCEPT ![t] = NoEntry]
    /\ retrying' = [retrying EXCEPT ![t] = FALSE]
    /\ after' = [after EXCEPT ![t] = "idle"]

-----------------------------------------------------------------------------
(* acquire_runtime: admission, load lock, reservation *)

\* A call begins, with no stale entry of its own.
AcquireRuntime(t, m) ==
    /\ pc[t] = "idle"
    /\ Goto(t, "admission")
    /\ want' = [want EXCEPT ![t] = m]
    /\ UNCHANGED <<cache, locks, drain, retrying, holds, victims, after>>

\* RuntimeAdmissionController.acquire
Admit(t) ==
    /\ pc[t] = "admission"
    /\ slots > 0
    /\ slots' = slots - 1
    /\ Goto(t, "loadlock")
    /\ UNCHANGED <<cache, executor, loader, calling, holds, victims, after>>

TakeLoadLock(t) ==
    /\ pc[t] \in {"loadlock", "resolve"}
    /\ loader[want[t]] = NoThread
    /\ loader' = [loader EXCEPT ![want[t]] = t]
    /\ Goto(t, IF pc[t] = "loadlock" THEN "reserve" ELSE "get")
    /\ UNCHANGED <<cache, executor, slots, calling, holds, victims, after>>

\* acquire_or_reserve finds a ready entry and pins it.
PinReady(t) ==
    LET m == want[t]
        e == slot[m]
    IN /\ pc[t] = "reserve"
       /\ Cached(m) /\ state[e] = "READY"
       /\ Pin(e)
       /\ holds' = [holds EXCEPT ![t] = e]
       /\ Touch(m)
       /\ ReleaseLoadLock(m)
       /\ Goto(t, "execute")
       /\ UNCHANGED <<slot, state, runtime, handed, executor, slots, calling, victims, after>>

\* An entry that is invalid and still pinned: only the call that failed its
\* own revalidation on this very entry waits for it, any other one gives up.
MeetDraining(t) ==
    LET m == want[t]
        mine == drain[t] = slot[m]
    IN /\ pc[t] = "reserve"
       /\ Cached(m) /\ state[slot[m]] = "INVALID" /\ leases[slot[m]] > 0
       /\ ReleaseLoadLock(m)
       /\ retrying' = [retrying EXCEPT ![t] = mine]
       /\ Goto(t, IF ~mine THEN "dismiss" ELSE IF retrying[t] THEN "drain" ELSE "loadlock")
       /\ UNCHANGED <<cache, executor, slots, want, drain, holds, victims, after>>

\* The invalid entry of the model itself, or the least recently used one of a
\* full bucket, is retired to make room.
RetireVictim(t) ==
    LET m == want[t] IN
    /\ pc[t] = "reserve"
    /\ \E k \in Models :
          /\ \/ k = m /\ Cached(m) /\ state[slot[m]] = "INVALID" /\ leases[slot[m]] = 0
             \/ ~Cached(m) /\ CapacityVictim(BucketOf[m], k)
          /\ RetireFrom({slot[k]})
          /\ Retire(t, {slot[k]}, "recheck")
    /\ Goto(t, "clean")
    /\ UNCHANGED <<slot, lru, leases, runtime, locks, calling, holds>>

\* There is room, at once or after the victim is gone: a LOADING entry.
ReserveLoading(t) ==
    LET m == want[t] IN
    /\ pc[t] \in {"reserve", "recheck"}
    /\ ~Cached(m) /\ HasRoom(BucketOf[m])
    /\ \E e \in Entries :
          /\ Fresh(e)
          /\ slot' = [slot EXCEPT ![m] = e]
          /\ state' = [state EXCEPT ![e] = "LOADING"]
          /\ leases' = [leases EXCEPT ![e] = 0]
          /\ runtime' = [runtime EXCEPT ![e] = "none"]
          /\ executor' = [executor EXCEPT ![e] = NoThread]
          /\ holds' = [holds EXCEPT ![t] = e]
    /\ Touch(m)
    /\ Goto(t, "load")
    /\ UNCHANGED <<handed, loader, slots, calling, victims, after>>

\* RuntimeBusyError: the entry is in transition, there is no capacity, or what
\* the victim freed was taken meanwhile.
RefuseBusy(t) ==
    LET m == want[t]
        b == BucketOf[m]
    IN /\ \/ pc[t] = "reserve" /\ Cached(m) /\ state[slot[m]] \in BUSY_FOR_UNLOAD_STATES
          \/ pc[t] = "reserve" /\ ~Cached(m) /\ ~HasRoom(b)
                /\ \A k \in Models : ~CapacityVictim(b, k)
          \/ pc[t] = "recheck" /\ (Cached(m) \/ ~HasRoom(b))
       /\ ReleaseLoadLock(m)
       /\ Goto(t, "dismiss")
       /\ UNCHANGED <<cache, executor, slots, calling, holds, victims, after>>

\* The loader returns, or raises and the reservation is dropped (its entry is
\* as good as one never used).
Load(t) ==
    LET m == want[t]
        e == holds[t]
    IN /\ pc[t] = "load"
       /\ \/ /\ Goto(t, "publish")
             /\ UNCHANGED <<slot, lru, state, runtime, loader, holds>>
          \/ /\ AbortReservation(m, e)
             /\ state' = [state EXCEPT ![e] = "RETIRING"]
             /\ runtime' = [runtime EXCEPT ![e] = "cleaned"]
             /\ holds' = [holds EXCEPT ![t] = NoEntry]
             /\ ReleaseLoadLock(m)
             /\ Goto(t, "dismiss")
       /\ UNCHANGED <<leases, handed, executor, slots, calling, victims, after>>

\* publish_ready_and_pin; a runtime whose reservation was lost is disposed of.
PublishReadyAndPin(t) ==
    LET m == want[t]
        e == holds[t]
    IN /\ pc[t] = "publish"
       /\ IF slot[m] = e
          THEN /\ state' = [state EXCEPT ![e] = "READY"]
               /\ leases' = [leases EXCEPT ![e] = 1]
               /\ runtime' = [runtime EXCEPT ![e] = "loaded"]
               /\ Touch(m)
               /\ Goto(t, "execute")
               /\ UNCHANGED holds
          ELSE /\ holds' = [holds EXCEPT ![t] = NoEntry]
               /\ Goto(t, "dismiss")
               /\ UNCHANGED <<state, leases, runtime, lru>>
       /\ ReleaseLoadLock(m)
       /\ UNCHANGED <<slot, handed, executor, slots, calling, victims, after>>

-----------------------------------------------------------------------------
(* The execution lock, use and release *)

TakeExecutionLock(t) ==
    /\ pc[t] = "execute"
    /\ executor[holds[t]] = NoThread
    /\ executor' = [executor EXCEPT ![holds[t]] = t]
    /\ Goto(t, "validate")
    /\ UNCHANGED <<cache, loader, slots, calling, holds, victims, after>>

\* Mutant: the entry is taken as it was before the wait.
RevalidateNothing(t) ==
    /\ pc[t] = "validate"
    /\ Goto(t, "using")
    /\ UNCHANGED <<cache, locks, calling, holds, victims, after>>

\* The entry may have been invalidated while the thread waited for E.  The
\* first time, the call tries again and may wait for this entry to drain.  A
\* valid one is handed out, to be used in a with block.
Revalidate(t) ==
    LET e == holds[t]
        first == drain[t] = NoEntry
    IN /\ pc[t] = "validate"
       /\ IF slot[want[t]] = e /\ state[e] = "READY"
          THEN /\ Goto(t, "using")
               /\ handed' = handed \cup {e}
               /\ UNCHANGED <<executor, drain, retrying, after>>
          ELSE /\ executor' = [executor EXCEPT ![e] = NoThread]
               /\ drain' = [drain EXCEPT ![t] = IF first THEN e ELSE @]
               /\ retrying' = [retrying EXCEPT ![t] = TRUE]
               /\ after' = [after EXCEPT ![t] = IF first THEN "loadlock" ELSE "dismiss"]
               /\ Goto(t, "unlease")
               /\ UNCHANGED handed
       /\ UNCHANGED <<slot, lru, state, leases, runtime, loader, slots, want, holds, victims>>

\* RuntimeHandle.release(had_exception=True), by any thread that was passed a
\* handle, while its with block runs, after it, and again: mark_invalid comes
\* before any look at the handle, so that the current entry becomes invalid for
\* whoever uses it by then.  The rest of the release waits for __exit__, or has
\* been done.
ReleaseHandle(m) ==
    LET e == slot[m] IN
    /\ Cached(m) /\ e \in handed /\ state[e] = "READY"
    /\ MarkInvalid(e)
    /\ pc' = [u \in Threads |->
                 IF pc[u] = "using" /\ holds[u] = e THEN "spoiled" ELSE pc[u]]
    /\ UNCHANGED <<slot, lru, leases, runtime, locks, calling, holds, victims, after>>

\* The with block ends; an exception makes the entry invalid first.
ExitHandle(t) ==
    LET e == holds[t] IN
    /\ pc[t] \in UsePcs
    /\ Goto(t, "unlock")
    /\ \/ UNCHANGED <<state, handed>>
       \/ slot[want[t]] = e /\ state[e] = "READY" /\ MarkInvalid(e)
    /\ UNCHANGED <<slot, lru, leases, runtime, locks, calling, holds, victims, after>>

\* RuntimeHandle._teardown: E, then the lease, then G.
ReleaseExecutionLock(t) ==
    /\ pc[t] = "unlock"
    /\ executor' = [executor EXCEPT ![holds[t]] = NoThread]
    /\ after' = [after EXCEPT ![t] = "dismiss"]
    /\ Goto(t, "unlease")
    /\ UNCHANGED <<cache, loader, slots, calling, holds, victims>>

\* release_lease: the last lease of a bucket that is over its budget retires
\* what is too much.
ReleaseLease(t) ==
    LET m == want[t]
        e == holds[t]
        counts == [leases EXCEPT ![e] = IF @ = 0 THEN 0 ELSE @ - 1]
        overflow == IF counts[e] # 0 THEN {}
                    ELSE OverflowVictims(BucketOf[m], InBucket(BucketOf[m]), counts, {})
        vs == {slot[k] : k \in overflow}
    IN /\ pc[t] = "unlease"
       /\ holds' = [holds EXCEPT ![t] = NoEntry]
       /\ IF slot[m] = e
          THEN /\ leases' = counts
               /\ RetireFrom(vs)
               /\ victims' = [victims EXCEPT ![t] = vs]
               /\ NotifyAll(t, IF vs = {} THEN after[t] ELSE "clean")
          ELSE Goto(t, after[t]) /\ UNCHANGED <<leases, state, handed, victims>>
       /\ UNCHANGED <<slot, lru, runtime, locks, calling, after>>

\* Mutant: the slot is not returned.
DismissKeepsSlot(t) ==
    /\ pc[t] = "dismiss"
    /\ Goto(t, "idle")
    /\ EndCall(t)
    /\ UNCHANGED <<cache, locks, holds, victims>>

\* RuntimeAdmissionController.release at the end of the call.
Dismiss(t) ==
    /\ pc[t] = "dismiss"
    /\ slots' = slots + 1
    /\ Goto(t, "idle")
    /\ EndCall(t)
    /\ UNCHANGED <<cache, executor, loader, holds, victims>>

\* The same after a wait that timed out: the call ends, or its checkpoint
\* returns and another slice begins with the same stale entry.
Pause(t) ==
    /\ pc[t] = "pause"
    /\ slots' = slots + 1
    /\ \/ Goto(t, "idle") /\ EndCall(t)
       \/ /\ Goto(t, "admission")
          /\ retrying' = [retrying EXCEPT ![t] = FALSE]
          /\ UNCHANGED <<want, drain, after>>
    /\ UNCHANGED <<cache, executor, loader, holds, victims>>

-----------------------------------------------------------------------------
(* Waiting for a stale entry, and deadlines *)

StillBlocks(t) ==
    LET e == drain[t] IN
    slot[want[t]] = e /\ (leases[e] > 0 \/ state[e] = "RETIRING")

\* wait_for_stale_entry_drain
WaitForDrain(t) ==
    /\ pc[t] = "drain"
    /\ Goto(t, IF StillBlocks(t) THEN "asleep" ELSE "loadlock")
    /\ UNCHANGED <<cache, locks, calling, holds, victims, after>>

\* A deadline passes while the thread waits for G, L, E or the drain.
TimeOut(t) ==
    /\ MayTimeOut
    /\ \/ /\ pc[t] = "admission" /\ slots = 0
          /\ Goto(t, "idle") /\ EndCall(t)
       \/ /\ \/ pc[t] = "loadlock" /\ loader[want[t]] # NoThread
             \/ pc[t] \in DrainPcs /\ StillBlocks(t)
          /\ Goto(t, "pause")
          /\ UNCHANGED <<calling, after>>
       \/ /\ pc[t] = "execute" /\ executor[holds[t]] # NoThread
          /\ Goto(t, "unlease")
          /\ after' = [after EXCEPT ![t] = "pause"]
          /\ UNCHANGED calling
    /\ UNCHANGED <<cache, locks, holds, victims>>

-----------------------------------------------------------------------------
(* Retirement *)

\* Where a thread goes on when it is left with the victims vs.
Onward(t, vs) == IF vs = {} THEN after[t] ELSE "clean"

\* _run_cleanup of one victim, outside M.  An entry that was replaced, not
\* retired, is no longer in the cache and needs no more.
CleanUp(t) ==
    /\ pc[t] = "clean"
    /\ \E e \in victims[t] :
          /\ runtime' = [runtime EXCEPT ![e] = "cleaned"]
          /\ IF state[e] = "RETIRING"
             THEN Goto(t, "unslot") /\ UNCHANGED victims
             ELSE /\ victims' = [victims EXCEPT ![t] = @ \ {e}]
                  /\ Goto(t, Onward(t, victims[t] \ {e}))
    /\ UNCHANGED <<slot, lru, state, leases, handed, locks, calling, holds, after>>

\* _finish_retirement removes it and wakes whoever waits for it to drain.
FinishRetirement(t) ==
    /\ pc[t] = "unslot"
    /\ \E e \in victims[t] :
          /\ runtime[e] = "cleaned"
          /\ slot' = [m \in Models |-> IF slot[m] = e THEN NoEntry ELSE slot[m]]
          /\ lru' = Without({m \in Models : slot[m] = e})
          /\ victims' = [victims EXCEPT ![t] = @ \ {e}]
          /\ NotifyAll(t, Onward(t, victims[t] \ {e}))
    /\ UNCHANGED <<state, leases, runtime, handed, locks, calling, holds, after>>

Unpinned(m) == leases[slot[m]] = 0 /\ state[slot[m]] \notin BUSY_FOR_UNLOAD_STATES

\* unload, of an entry that is neither pinned nor in transition.
Unload(t, m) ==
    /\ t \in Unloaders
    /\ pc[t] = "idle"
    /\ Cached(m) /\ Unpinned(m)
    /\ RetireFrom({slot[m]})
    /\ Retire(t, {slot[m]}, "idle")
    /\ Goto(t, "clean")
    /\ UNCHANGED <<slot, lru, leases, runtime, locks, calling, holds>>

\* unload_all, all or nothing.
UnloadAll(t) ==
    LET ms == {m \in Models : Cached(m)}
        vs == {slot[m] : m \in ms}
    IN /\ t \in Unloaders
       /\ pc[t] = "idle"
       /\ ms # {} /\ \A m \in ms : Unpinned(m)
       /\ RetireFrom(vs)
       /\ Retire(t, vs, "idle")
       /\ Goto(t, "clean")
       /\ UNCHANGED <<slot, lru, leases, runtime, locks, calling, holds>>

-----------------------------------------------------------------------------
(* resolve_runtime: the older interface, without leases *)

ResolveRuntime(t, m) ==
    /\ t \in Resolvers
    /\ pc[t] = "idle"
    /\ IF Cached(m) /\ state[slot[m]] = "READY"
       THEN Touch(m) /\ UNCHANGED <<pc, want>>
       ELSE Goto(t, "resolve") /\ want' = [want EXCEPT ![t] = m] /\ UNCHANGED lru
    /\ UNCHANGED <<slot, state, leases, runtime, handed, locks, drain, retrying, holds, victims, after>>

\* It looks again under L, then loads.
ResolveGet(t) ==
    LET m == want[t]
        ready == Cached(m) /\ state[slot[m]] = "READY"
    IN /\ pc[t] = "get"
       /\ \/ /\ ready
             /\ Touch(m)
             /\ Goto(t, "returned")
          \/ /\ ~ready
             /\ Goto(t, "put") \/ Goto(t, "returned")
             /\ UNCHANGED lru
       /\ UNCHANGED <<slot, state, leases, runtime, handed, locks, calling, holds, victims, after>>

\* put, of a runtime that was just loaded: refused while the entry is pinned or
\* in transition (the runtime is disposed of), else an unpinned invalid entry is
\* replaced and the bucket brought back to its budget.
Put(t) ==
    LET m == want[t]
        b == BucketOf[m]
        overflow == OverflowVictims(b, InBucket(b) \cup {m}, leases, {m})
        vs == {slot[k] : k \in overflow}
    IN /\ pc[t] = "put"
       /\ IF Cached(m) /\ ~Unpinned(m)
          THEN Goto(t, "returned")
                  /\ UNCHANGED <<cache, executor, victims, after>>
          ELSE \E e \in Entries :
                  /\ Fresh(e)
                  /\ slot' = [slot EXCEPT ![m] = e]
                  /\ Touch(m)
                  /\ state' = [f \in Entries |-> IF f = e THEN "READY"
                                                 ELSE IF f \in vs THEN "RETIRING" ELSE state[f]]
                  /\ leases' = [leases EXCEPT ![e] = 0]
                  /\ runtime' = [runtime EXCEPT ![e] = "loaded"]
                  /\ executor' = [executor EXCEPT ![e] = NoThread]
                  /\ handed' = handed \ vs
                  /\ Retire(t, vs \cup Replaced(m), "returned")
                  /\ Goto(t, IF vs \cup Replaced(m) = {} THEN "returned" ELSE "clean")
       /\ UNCHANGED <<loader, slots, calling, holds>>

ResolveReturn(t) ==
    /\ pc[t] = "returned"
    /\ ReleaseLoadLock(want[t])
    /\ Goto(t, "idle")
    /\ EndCall(t)
    /\ UNCHANGED <<cache, executor, slots, holds, victims>>

-----------------------------------------------------------------------------

\* What a thread does once it is in a call.
CallStep(t) ==
    \/ Admit(t) \/ TakeLoadLock(t) \/ PinReady(t) \/ MeetDraining(t) \/ RetireVictim(t)
    \/ ReserveLoading(t) \/ RefuseBusy(t) \/ Load(t) \/ PublishReadyAndPin(t)
    \/ TakeExecutionLock(t) \/ Revalidate(t) \/ ExitHandle(t) \/ ReleaseExecutionLock(t)
    \/ ReleaseLease(t) \/ Dismiss(t) \/ Pause(t) \/ WaitForDrain(t)
    \/ CleanUp(t) \/ FinishRetirement(t)
    \/ ResolveGet(t) \/ Put(t) \/ ResolveReturn(t)

Next ==
    \E t \in Threads :
        \/ CallStep(t)
        \/ TimeOut(t)
        \/ UnloadAll(t)
        \/ \E m \in Models : AcquireRuntime(t, m) \/ ResolveRuntime(t, m) \/ Unload(t, m)
                               \/ ReleaseHandle(m)

Spec == Init /\ [][Next]_vars

\* A thread that can go on does: loaders, clean-ups and generators return.
\* Which of the threads that wait for a lock gets it is left open.
Fairness == \A t \in Threads : WF_vars(CallStep(t))

FairSpec == Spec /\ Fairness

-----------------------------------------------------------------------------
(* Properties *)

\* A runtime in use is held by its executor alone, is loaded and is the current
\* one of its model: whatever evicts, unloads or replaces, it never does so to a
\* runtime somebody is working with.  It was ready when the use began; it is
\* invalid only if since then somebody released a handle of it, be it a handle
\* of an earlier use, with an exception.
UseIsExclusive ==
    \A t \in Threads : pc[t] \in UsePcs =>
        LET e == holds[t] IN
        /\ executor[e] = t
        /\ \A u \in Threads \ {t} : ~(pc[u] \in ExecPcs /\ holds[u] = e)
        /\ slot[want[t]] = e
        /\ state[e] = IF pc[t] = "using" THEN "READY" ELSE "INVALID"
        /\ runtime[e] = "loaded"

Leaseholders(e) == {t \in Threads : pc[t] \in LeasePcs /\ holds[t] = e}

\* The lease count of an entry is the number of threads that will release it,
\* so no pin is leaked and none is dropped twice.
LeasesAreCounted ==
    \A e \in Entries :
        (\E m \in Models : slot[m] = e) \/ Leaseholders(e) # {} =>
            leases[e] = Cardinality(Leaseholders(e))

\* An entry answers "busy, try again shortly" only while a thread is at work on
\* it: one thread loads a LOADING entry, one thread retires a RETIRING one.
TransitionsAreOwned ==
    \A m \in Models : Cached(m) =>
        LET e == slot[m] IN
        /\ state[e] = "LOADING" =>
              \E t \in Threads : pc[t] \in {"load", "publish"} /\ holds[t] = e /\ loader[m] = t
        /\ state[e] = "RETIRING" => \E t \in Threads : e \in victims[t]
        /\ \A t, u \in Threads : e \in victims[t] \cap victims[u] => t = u

\* A loaded runtime that left the cache is cleaned up or about to be, so that
\* its memory is returned (on_evict) whichever path removed it.
NoRuntimeLeaks ==
    \A e \in Entries : runtime[e] = "loaded" =>
        \/ \E m \in Models : slot[m] = e
        \/ \E t \in Threads : e \in victims[t]

\* Through the lease interface a bucket never holds more entries than its
\* budget, retiring ones included, and a model never has two live runtimes.
WithinBudget ==
    Resolvers = {} => \A b \in Buckets : Cardinality(InBucket(b)) <= Budget[b]

\* put may exceed the budget when what it would evict is pinned or in
\* transition; once nothing in the bucket is, the bucket is back at its budget.
OverflowIsPinned ==
    \A b \in Buckets :
        LET ms == InBucket(b) IN
        Cardinality(ms \ Retiring(ms)) > Budget[b] =>
            \E m \in ms : leases[slot[m]] > 0 \/ state[slot[m]] = "LOADING"

\* acquire_or_reserve calls a LOADING target unreachable, L being held.
ReservesUnderLoadLock ==
    \A t \in Threads : pc[t] = "reserve" /\ Cached(want[t]) =>
        state[slot[want[t]]] # "LOADING"

\* A thread that holds an admission slot, and will return it.
HoldsSlot(t) ==
    \/ pc[t] \in {"loadlock", "reserve", "recheck", "load", "publish"}
                    \cup LeasePcs \cup DrainPcs \cup ClosingPcs
    \/ pc[t] \in CleanPcs /\ after[t] \notin {"idle", "returned"}

\* Every admission slot that is taken is held by a call that will return it.
SlotsAreAccounted == Capacity - slots = Cardinality({t \in Threads : HoldsSlot(t)})

Blocked(m) ==
    /\ Cached(m)
    /\ \/ state[slot[m]] \in BUSY_FOR_UNLOAD_STATES
       \/ state[slot[m]] = "INVALID" /\ leases[slot[m]] > 0

\* The answer "busy" is transient: an entry in transition, or invalid and still
\* pinned, does not stay so.
BusyIsTransient == \A m \in Models : []<>~Blocked(m)

\* A thread that sleeps until a stale entry drains is woken, and goes on.
DrainEnds == \A t \in Threads : []<>(pc[t] \notin DrainPcs)

-----------------------------------------------------------------------------
(* The inductive invariant *)

Current(e) == \E m \in Models : slot[m] = e

\* A call knows its model, holds an entry exactly between its reservation or
\* pin and its release, and has victims only while it cleans them up.
CallsAreWhole ==
    \A t \in Threads :
        /\ pc[t] = "idle" \/ (pc[t] \in CleanPcs /\ after[t] = "idle") \/ want[t] \in Models
        /\ holds[t] # NoEntry <=> pc[t] \in LeasePcs \cup {"load", "publish"}
        /\ victims[t] # {} => pc[t] \in CleanPcs
        /\ pc[t] = "unlease" => after[t] \in {"loadlock", "dismiss", "pause"}

\* The locks: L while the model is looked up, loaded or put, E while it is used.
LocksAreHeld ==
    \A t \in Threads :
        /\ pc[t] \in LoadPcs \/ (pc[t] \in CleanPcs /\ after[t] \in {"recheck", "returned"})
              => loader[want[t]] = t
        /\ pc[t] \in ExecPcs => executor[holds[t]] = t

\* What a thread reserved or leased stays the current entry of its model.
HeldIsCurrent ==
    \A t \in Threads :
        /\ holds[t] # NoEntry => slot[want[t]] = holds[t]
        /\ pc[t] \in {"load", "publish"} => state[holds[t]] = "LOADING"
        /\ pc[t] \in LeasePcs => state[holds[t]] \in EVICTABLE_STATES
        /\ pc[t] = "using" => state[holds[t]] = "READY"
        /\ pc[t] = "spoiled" => state[holds[t]] = "INVALID"

\* An entry belongs to one model.  In the cache it is being loaded, loaded, or
\* being retired by the thread that has it as a victim; out of it a loaded one
\* is a victim, replaced and not retired.
EntriesAreOwned ==
    /\ \A m, k \in Models : Cached(m) /\ slot[m] = slot[k] => m = k
    /\ \A e \in Entries : Current(e) =>
          /\ state[e] = "LOADING" => \E t \in Threads : pc[t] \in {"load", "publish"} /\ holds[t] = e
          /\ state[e] = "RETIRING" => \E t \in Threads : e \in victims[t]
          /\ state[e] \in EVICTABLE_STATES => runtime[e] = "loaded"
    /\ \A t \in Threads : \A e \in victims[t] :
          /\ \A u \in Threads : e \in victims[u] => u = t
          /\ Current(e) <=> state[e] = "RETIRING"
          /\ state[e] # "LOADING"

\* Only a resolver is inside the older interface.
ResolversResolve ==
    \A t \in Threads :
        pc[t] \in {"resolve", "get", "put", "returned"}
            \/ (pc[t] \in CleanPcs /\ after[t] = "returned") => t \in Resolvers

\* "Used less recently than" is a strict order of what is in the cache.
OrderIsStrict ==
    /\ \A m, k \in Models : Older(m, k) => m # k /\ Cached(m) /\ Cached(k)
    /\ \A m, k, l \in Models : Older(m, k) /\ Older(k, l) => Older(m, l)

\* What counts against the budget of a bucket, and what of it could be evicted.
Staying(b) == InBucket(b) \ Retiring(InBucket(b))
Spare(b)   == Evictable(InBucket(b), leases)

\* A bucket over its budget has at most one entry to spare: the one put there
\* last, which put itself does not evict.
OverflowIsTight ==
    \A b \in Buckets : Cardinality(Staying(b)) > Budget[b] =>
        \A m, k \in Spare(b) : m = k

Control == CallsAreWhole /\ LocksAreHeld /\ HeldIsCurrent /\ EntriesAreOwned

\* What makes the properties inductive.
IndInv ==
    /\ TypeOK /\ Control /\ NoRuntimeLeaks /\ ResolversResolve /\ OrderIsStrict
    /\ LeasesAreCounted /\ SlotsAreAccounted /\ OverflowIsTight /\ WithinBudget

\* The bookkeeping of calls, locks, entries and pins, IndInv; in consequence a
\* bucket is over its budget only while something in it is pinned or loading,
\* and the load lock keeps a reservation from meeting a LOADING target, which
\* acquire_or_reserve calls unreachable (core/models/cache.py).
PinsAreSound == IndInv /\ OverflowIsPinned /\ ReservesUnderLoadLock

\* The two limits: through the lease interface a bucket never holds more
\* entries than its budget, and every admission slot that is taken is held by
\* a call that will return it, however loads fail and waits end.
LimitsAreKept == WithinBudget /\ SlotsAreAccounted

=============================================================================
