------------------------- MODULE RuntimeLeasesProofs -------------------------
(***************************************************************************)
(* Proofs about RuntimeLeases, for any number of threads, models, buckets, *)
(* entries, admission slots and any budgets.                               *)
(*                                                                         *)
(* One lemma per action (<Action>Step) shows that the action keeps the     *)
(* control part of the inductive invariant and the limits of the buckets,  *)
(* and that it changes lease counts and admission slots only together with *)
(* the threads that hold them (LeaseMoves, SlotMoves).  The two counting   *)
(* invariants follow from those predicates alone.                          *)
(***************************************************************************)
EXTENDS RuntimeLeases, FiniteSetTheorems, TLAPS

\* The part of the invariant in which nothing is counted.
Shape == TypeOK /\ Control /\ NoRuntimeLeaks /\ ResolversResolve /\ OrderIsStrict

\* In a step of t the lease count of an entry in the cache changes by t's lease.
LeaseMoves(t) ==
    \A e \in Entries : Current(e)' =>
        \/ Current(e) /\ leases'[e] = leases[e] /\ Leaseholders(e)' = Leaseholders(e)
        \/ leases'[e] = 0 /\ Leaseholders(e)' = {}
        \/ leases'[e] = 1 /\ Leaseholders(e)' = {t}
        \/ /\ Current(e) /\ t \notin Leaseholders(e)
           /\ leases'[e] = leases[e] + 1 /\ Leaseholders(e)' = Leaseholders(e) \cup {t}
        \/ /\ Current(e) /\ t \in Leaseholders(e)
           /\ leases'[e] = leases[e] - 1 /\ Leaseholders(e)' = Leaseholders(e) \ {t}

\* ... and the number of free slots by t's slot.
SlotMoves(t) ==
    /\ \A u \in Threads \ {t} : HoldsSlot(u)' <=> HoldsSlot(u)
    /\ \/ (HoldsSlot(t)' <=> HoldsSlot(t)) /\ slots' = slots
       \/ ~HoldsSlot(t) /\ HoldsSlot(t)' /\ slots' = slots - 1
       \/ HoldsSlot(t) /\ ~HoldsSlot(t)' /\ slots' = slots + 1

\* Buckets only shrink.
BucketMoves ==
    \A b \in Buckets :
        /\ InBucket(b)' \subseteq InBucket(b)
        /\ Staying(b)' \subseteq Staying(b)
        /\ Spare(b)' \subseteq Spare(b)

Preserves(t) ==
    /\ Shape' /\ LeaseMoves(t) /\ SlotMoves(t)
    /\ OverflowIsTight' /\ WithinBudget'

-----------------------------------------------------------------------------
(* Counting *)

\* Finitely many threads hold admission slots,
LEMMA SlotHoldersFinite == IsFiniteSet({t \in Threads : HoldsSlot(t)})
  BY FS_Subset, PartiesAssumption

\* ... finitely many hold a lease on an entry.
LEMMA LeaseholdersFinite ==
    ASSUME NEW e PROVE IsFiniteSet(Leaseholders(e))
  BY FS_Subset, PartiesAssumption DEF Leaseholders

\* A bucket is finite, and so is what of it stays.
LEMMA BucketFinite ==
    ASSUME NEW b
    PROVE  /\ IsFiniteSet(InBucket(b)) /\ IsFiniteSet(Staying(b)) /\ IsFiniteSet(Spare(b))
           /\ Cardinality(InBucket(b)) \in Nat /\ Cardinality(Staying(b)) \in Nat
           /\ Cardinality(Staying(b)) <= Cardinality(InBucket(b))
<1>1. IsFiniteSet(InBucket(b))
  BY FS_Subset, PartiesAssumption DEF InBucket
<1>2. Staying(b) \in SUBSET InBucket(b) /\ Spare(b) \in SUBSET InBucket(b)
  BY DEF Staying, Spare, Evictable
<1> QED
  BY <1>1, <1>2, FS_Subset, FS_CardinalityType

\* ... after a step too.
LEMMA NextBucketFinite ==
    ASSUME NEW b
    PROVE  /\ IsFiniteSet(InBucket(b)') /\ IsFiniteSet(Staying(b)')
           /\ Cardinality(InBucket(b)') \in Nat /\ Cardinality(Staying(b)') \in Nat
           /\ Cardinality(Staying(b)') <= Cardinality(InBucket(b)')
<1>1. IsFiniteSet(InBucket(b)')
  BY FS_Subset, PartiesAssumption DEF InBucket
<1>2. Staying(b)' \in SUBSET (InBucket(b)')
  BY DEF Staying
<1> QED
  BY <1>1, <1>2, FS_Subset, FS_CardinalityType

\* release_lease never meets a count of zero, and nothing holds an entry whose
\* count is zero.
LEMMA CountsMeanLeases ==
    ASSUME TypeOK, LeasesAreCounted, NEW e \in Entries, Current(e)
    PROVE  /\ leases[e] = 0 => \A u \in Threads : pc[u] \in LeasePcs => holds[u] # e
           /\ \A u \in Threads : pc[u] \in LeasePcs /\ holds[u] = e => leases[e] > 0
           /\ \A t \in Threads : leases[e] = 1 /\ pc[t] \in LeasePcs /\ holds[t] = e =>
                \A u \in Threads \ {t} : pc[u] \in LeasePcs => holds[u] # e
<1> DEFINE S == Leaseholders(e)
<1>1. leases[e] = Cardinality(S) /\ leases[e] \in Nat
  BY DEF LeasesAreCounted, Current, TypeOK, CacheType
<1>2. IsFiniteSet(S)
  BY LeaseholdersFinite
<1>3. Cardinality(S) = 0 <=> S = {}
  BY <1>2, FS_EmptySet
<1>4. ASSUME Cardinality(S) = 1, NEW t \in S, NEW u \in S PROVE u = t
  BY <1>2, <1>4, FS_Singleton
<1> QED
  BY <1>1, <1>3, <1>4 DEF Leaseholders

\* Lease counts follow from LeaseMoves alone.
LEMMA LeasesStayCounted ==
    ASSUME IndInv, NEW t \in Threads, LeaseMoves(t)
    PROVE  \A e \in Entries : Current(e)' => leases'[e] = Cardinality(Leaseholders(e)')
<1> SUFFICES ASSUME NEW e \in Entries, Current(e)'
             PROVE  leases'[e] = Cardinality(Leaseholders(e)')
  OBVIOUS
<1>1. IsFiniteSet(Leaseholders(e)) /\ Cardinality(Leaseholders(e)) \in Nat
  BY LeaseholdersFinite, FS_CardinalityType
<1>2. Current(e) => leases[e] = Cardinality(Leaseholders(e))
  BY DEF IndInv, LeasesAreCounted, Current
<1>3. CASE Current(e) /\ leases'[e] = leases[e] /\ Leaseholders(e)' = Leaseholders(e)
  BY <1>2, <1>3
<1>4. CASE leases'[e] = 0 /\ Leaseholders(e)' = {}
  BY <1>4, FS_EmptySet
<1>5. CASE leases'[e] = 1 /\ Leaseholders(e)' = {t}
  BY <1>5, FS_Singleton
<1>6. CASE /\ Current(e) /\ t \notin Leaseholders(e)
           /\ leases'[e] = leases[e] + 1 /\ Leaseholders(e)' = Leaseholders(e) \cup {t}
  BY <1>1, <1>2, <1>6, FS_AddElement
<1>7. CASE /\ Current(e) /\ t \in Leaseholders(e)
           /\ leases'[e] = leases[e] - 1 /\ Leaseholders(e)' = Leaseholders(e) \ {t}
  BY <1>1, <1>2, <1>7, FS_RemoveElement
<1> QED
  BY <1>3, <1>4, <1>5, <1>6, <1>7 DEF LeaseMoves

\* A thread that holds a slot finds the semaphore below its capacity.
LEMMA SlotToReturn ==
    ASSUME TypeOK, SlotsAreAccounted, NEW t \in Threads, HoldsSlot(t)
    PROVE  slots + 1 \in 0..Capacity
<1> DEFINE S == {u \in Threads : HoldsSlot(u)}
<1>1. S # {} /\ IsFiniteSet(S)
  BY SlotHoldersFinite
<1>2. Cardinality(S) # 0 /\ Cardinality(S) \in Nat
  BY <1>1, FS_EmptySet, FS_CardinalityType
<1>3. Capacity - slots = Cardinality(S)
  BY DEF SlotsAreAccounted
<1> QED
  BY <1>2, <1>3, BudgetsAssumption DEF TypeOK, LockType

\* ... and free slots from SlotMoves.
LEMMA SlotsStayAccounted ==
    ASSUME TypeOK, SlotsAreAccounted, NEW t \in Threads, SlotMoves(t)
    PROVE  SlotsAreAccounted'
<1> DEFINE S == {u \in Threads : HoldsSlot(u)}
           T == {u \in Threads : HoldsSlot(u)'}
<1>1. IsFiniteSet(S) /\ Cardinality(S) \in Nat
  BY SlotHoldersFinite, FS_CardinalityType
<1>2. Capacity - slots = Cardinality(S) /\ slots \in Int /\ Capacity \in Int
  BY BudgetsAssumption DEF SlotsAreAccounted, TypeOK, LockType
<1>3. CASE (HoldsSlot(t)' <=> HoldsSlot(t)) /\ slots' = slots
  <2>1. S = T
    BY <1>3 DEF SlotMoves
  <2> QED BY <2>1, <1>2, <1>3 DEF SlotsAreAccounted
<1>4. CASE ~HoldsSlot(t) /\ HoldsSlot(t)' /\ slots' = slots - 1
  <2>1. T = S \cup {t} /\ t \notin S
    BY <1>4 DEF SlotMoves
  <2>2. Cardinality(T) = Cardinality(S) + 1
    BY <2>1, <1>1, FS_AddElement
  <2> QED BY <2>2, <1>1, <1>2, <1>4 DEF SlotsAreAccounted
<1>5. CASE HoldsSlot(t) /\ ~HoldsSlot(t)' /\ slots' = slots + 1
  <2>1. T = S \ {t} /\ t \in S
    BY <1>5 DEF SlotMoves
  <2>2. Cardinality(T) = Cardinality(S) - 1
    BY <2>1, <1>1, FS_RemoveElement
  <2> QED BY <2>2, <1>1, <1>2, <1>5 DEF SlotsAreAccounted
<1> QED
  BY <1>3, <1>4, <1>5 DEF SlotMoves

\* Buckets that only shrink stay within their limits.
LEMMA BucketsKept ==
    ASSUME OverflowIsTight, WithinBudget, BucketMoves
    PROVE  OverflowIsTight' /\ WithinBudget'
<1>1. ASSUME NEW b \in Buckets
      PROVE  /\ Cardinality(InBucket(b)') <= Cardinality(InBucket(b))
             /\ Cardinality(Staying(b)') <= Cardinality(Staying(b))
             /\ Cardinality(InBucket(b)') \in Nat /\ Cardinality(Staying(b)') \in Nat
  <2>1. InBucket(b)' \in SUBSET InBucket(b) /\ Staying(b)' \in SUBSET Staying(b)
    BY DEF BucketMoves
  <2> QED BY <2>1, BucketFinite, FS_Subset, FS_CardinalityType
<1>2. \A b \in Buckets : Budget[b] \in Nat /\ Cardinality(InBucket(b)) \in Nat
                         /\ Cardinality(Staying(b)) \in Nat
  BY BucketFinite, BudgetsAssumption
<1>3. OverflowIsTight'
  BY <1>1, <1>2 DEF OverflowIsTight, BucketMoves
<1>4. WithinBudget'
  BY <1>1, <1>2 DEF WithinBudget
<1> QED BY <1>3, <1>4

\* A step that leaves the entries alone leaves the buckets alone.
LEMMA UnchangedBuckets ==
    ASSUME UNCHANGED <<slot, state, leases>>
    PROVE  BucketMoves
  BY DEF BucketMoves, InBucket, Staying, Retiring, Spare, Evictable, Cached

-----------------------------------------------------------------------------
(* Steps that leave parts of the state alone *)

USE PartiesAssumption, BudgetsAssumption
USE DEF Shape, TypeOK, CacheType, LockType, CallType, Control, RuntimeStates,
        EVICTABLE_STATES, BUSY_FOR_UNLOAD_STATES, cache, locks, calling,
        Pcs, LoadPcs, UsePcs, ExecPcs, LeasePcs, CleanPcs, DrainPcs, ClosingPcs,
        Goto, EndCall, Retire, ReleaseLoadLock, Cached

\* Where a call is, in every state.
LEMMA CallFacts ==
    ASSUME Shape, NEW t \in Threads
    PROVE  /\ pc[t] \notin {"idle"} \cup CleanPcs => want[t] \in Models
           /\ pc[t] \in CleanPcs /\ after[t] # "idle" => want[t] \in Models
           /\ pc[t] \in LeasePcs \cup {"load", "publish"} =>
                 holds[t] \in Entries /\ slot[want[t]] = holds[t] /\ Current(holds[t])
           /\ pc[t] \notin LeasePcs \cup {"load", "publish"} => holds[t] = NoEntry
           /\ pc[t] \notin CleanPcs => victims[t] = {}
  BY DEF CallsAreWhole, HeldIsCurrent, Current

\* move_to_end keeps the type of the order.
LEMMA TouchType ==
    ASSUME TypeOK, NEW m \in Models, Touch(m)
    PROVE  lru' \in SUBSET (Models \X Models)
  BY DEF Touch, Without

\* move_to_end keeps the order strict.
LEMMA TouchKeepsOrder ==
    ASSUME TypeOK, OrderIsStrict, NEW m \in Models, Touch(m), Cached(m)',
           \A k \in Models \ {m} : slot'[k] = slot[k]
    PROVE  OrderIsStrict'
<1>1. ASSUME NEW k \in Models, NEW l \in Models
      PROVE  <<k, l>> \in lru' <=> \/ <<k, l>> \in lru /\ k # m /\ l # m
                                   \/ k # m /\ Cached(k) /\ l = m
  BY DEF Touch, Without
<1> QED BY <1>1 DEF OrderIsStrict, Older

\* So does a removal.
LEMMA RemovalKeepsOrder ==
    ASSUME TypeOK, OrderIsStrict, NEW ms, lru' = Without(ms),
           \A k \in Models \ ms : slot'[k] = slot[k]
    PROVE  OrderIsStrict'
<1>1. ASSUME NEW k \in Models, NEW l \in Models
      PROVE  <<k, l>> \in lru' <=> <<k, l>> \in lru /\ k \notin ms /\ l \notin ms
  BY <1>1 DEF Without
<1> QED BY <1>1 DEF OrderIsStrict, Older

\* The order stays strict when neither it nor the cache changes.
LEMMA UnchangedOrder ==
    ASSUME OrderIsStrict, UNCHANGED <<lru, slot>>
    PROVE  OrderIsStrict'
  BY DEF OrderIsStrict, Older

\* Leases do not move when no thread gets to or leaves the pcs of a lease.
LEMMA UnchangedLeases ==
    ASSUME Shape, NEW t \in Threads, UNCHANGED leases,
           \A e \in Entries : Current(e)' => Current(e),
           \A u \in Threads : /\ pc'[u] \in LeasePcs <=> pc[u] \in LeasePcs
                              /\ pc[u] \in LeasePcs => holds'[u] = holds[u]
    PROVE  LeaseMoves(t)
  BY DEF LeaseMoves, Leaseholders

\* The entries are as they were when nothing about them changes and no loader
\* moves away.
LEMMA UnchangedEntries ==
    ASSUME Shape, UNCHANGED <<slot, state, runtime, victims>>,
           \A u \in Threads : pc[u] \in {"load", "publish"} =>
               pc'[u] \in {"load", "publish"} /\ holds'[u] = holds[u]
    PROVE  EntriesAreOwned' /\ NoRuntimeLeaks'
<1>1. \A e : Current(e)' <=> Current(e)
  BY DEF Current
<1>2. EntriesAreOwned'
  BY <1>1 DEF EntriesAreOwned
<1>3. NoRuntimeLeaks'
  BY DEF NoRuntimeLeaks
<1> QED BY <1>2, <1>3

\* Unpinned entries become the victims of t, which had none.
LEMMA RetirementKeepsEntries ==
    ASSUME Shape, NEW t \in Threads, NEW vs \in SUBSET Entries, victims[t] = {},
           \A e \in vs : Current(e) /\ state[e] \in EVICTABLE_STATES,
           RetireFrom(vs), victims' = [victims EXCEPT ![t] = vs],
           UNCHANGED <<slot, runtime>>,
           \A u \in Threads : pc[u] \in {"load", "publish"} =>
               pc'[u] \in {"load", "publish"} /\ holds'[u] = holds[u]
    PROVE  EntriesAreOwned' /\ NoRuntimeLeaks'
<1>1. \A e : Current(e)' <=> Current(e)
  BY DEF Current
<1>2. \A e \in Entries : /\ e \in vs => state'[e] = "RETIRING"
                         /\ e \notin vs => state'[e] = state[e]
  BY DEF RetireFrom
<1>3. /\ \A u \in Threads \ {t} : victims'[u] = victims[u]
      /\ victims'[t] = vs
  OBVIOUS
<1>4. \A e \in vs, u \in Threads : e \notin victims[u]
  BY DEF EntriesAreOwned
<1>5. ASSUME NEW e \in Entries, Current(e)
      PROVE  /\ state'[e] = "LOADING" =>
                   \E u \in Threads : pc'[u] \in {"load", "publish"} /\ holds'[u] = e
             /\ state'[e] = "RETIRING" => \E u \in Threads : e \in victims'[u]
             /\ state'[e] \in EVICTABLE_STATES => runtime'[e] = "loaded"
  <2>1. CASE e \in vs
    BY <2>1, <1>2, <1>3
  <2>2. CASE e \notin vs
    <3>1. state'[e] = state[e] /\ runtime'[e] = runtime[e]
      BY <2>2, <1>2
    <3>2. state[e] = "LOADING" => \E u \in Threads : pc[u] \in {"load", "publish"} /\ holds[u] = e
      BY <1>5 DEF EntriesAreOwned
    <3>3. state[e] = "RETIRING" => \E u \in Threads \ {t} : e \in victims[u]
      BY <1>5 DEF EntriesAreOwned
    <3>4. state[e] \in EVICTABLE_STATES => runtime[e] = "loaded"
      BY <1>5 DEF EntriesAreOwned
    <3>5. state[e] = "LOADING" => \E u \in Threads : pc'[u] \in {"load", "publish"} /\ holds'[u] = e
      BY <3>2
    <3> QED BY <3>1, <3>3, <3>4, <3>5, <1>3
  <2> QED BY <2>1, <2>2
<1>6. ASSUME NEW u \in Threads, NEW e \in victims'[u]
      PROVE  /\ \A v \in Threads : e \in victims'[v] => v = u
             /\ Current(e) <=> state'[e] = "RETIRING"
             /\ state'[e] # "LOADING"
  <2>1. CASE u = t
    <3>1. e \in vs /\ e \in Entries
      BY <2>1, <1>3
    <3>2. \A v \in Threads \ {t} : e \notin victims'[v]
      BY <3>1, <1>3, <1>4
    <3>3. state'[e] = "RETIRING" /\ Current(e)
      BY <3>1, <1>2
    <3> QED BY <3>2, <3>3, <2>1
  <2>2. CASE u # t
    BY <2>2, <1>2, <1>3, <1>4, <1>6 DEF EntriesAreOwned
  <2> QED BY <2>1, <2>2
<1>7. EntriesAreOwned'
  BY <1>1, <1>5, <1>6 DEF EntriesAreOwned
<1>8. NoRuntimeLeaks'
  BY <1>3 DEF NoRuntimeLeaks
<1> QED BY <1>7, <1>8

\* ... and so its bucket shrinks.
LEMMA RetirementShrinks ==
    ASSUME TypeOK, NEW vs \in SUBSET Entries, RetireFrom(vs), UNCHANGED <<slot, leases>>
    PROVE  BucketMoves
<1>1. \A e \in Entries : /\ e \in vs => state'[e] = "RETIRING"
                         /\ e \notin vs => state'[e] = state[e]
  BY DEF RetireFrom
<1>2. ASSUME NEW m \in Models, Cached(m)
      PROVE  /\ state'[slot[m]] # "RETIRING" => state[slot[m]] # "RETIRING"
             /\ state'[slot[m]] \in EVICTABLE_STATES => state[slot[m]] \in EVICTABLE_STATES
  <2>1. slot[m] \in Entries
    BY <1>2
  <2>2. state'[slot[m]] = IF slot[m] \in vs THEN "RETIRING" ELSE state[slot[m]]
    BY <2>1, <1>1
  <2> QED BY <2>2
<1> QED
  BY <1>2 DEF BucketMoves, InBucket, Staying, Retiring, Spare, Evictable

\* What the other threads hold stays as it is.
LEMMA HoldersKept ==
    ASSUME Shape, NEW t \in Threads,
           \A u \in Threads \ {t} :
               /\ holds'[u] = holds[u] /\ want'[u] = want[u]
               /\ pc'[u] \in LeasePcs \cup {"load", "publish"} => pc'[u] = pc[u]
               /\ holds[u] # NoEntry =>
                     slot'[want[u]] = slot[want[u]] /\ state'[holds[u]] = state[holds[u]],
           holds'[t] # NoEntry => slot'[want'[t]] = holds'[t],
           pc'[t] \in {"load", "publish"} => state'[holds'[t]] = "LOADING",
           pc'[t] \in LeasePcs => state'[holds'[t]] \in EVICTABLE_STATES,
           pc'[t] = "using" => state'[holds'[t]] = "READY",
           pc'[t] = "spoiled" => state'[holds'[t]] = "INVALID"
    PROVE  HeldIsCurrent'
<1> SUFFICES ASSUME NEW u \in Threads
    PROVE  /\ holds'[u] # NoEntry => slot'[want'[u]] = holds'[u]
           /\ pc'[u] \in {"load", "publish"} => state'[holds'[u]] = "LOADING"
           /\ pc'[u] \in LeasePcs => state'[holds'[u]] \in EVICTABLE_STATES
           /\ pc'[u] = "using" => state'[holds'[u]] = "READY"
           /\ pc'[u] = "spoiled" => state'[holds'[u]] = "INVALID"
  BY DEF HeldIsCurrent
<1>1. CASE u = t
  BY <1>1
<1>2. CASE u # t
  <2>1. pc[u] \in LeasePcs \cup {"load", "publish"} => holds[u] # NoEntry
    BY DEF CallsAreWhole
  <2>2. holds[u] # NoEntry => slot[want[u]] = holds[u]
    BY DEF HeldIsCurrent
  <2>3. /\ pc[u] \in {"load", "publish"} => state[holds[u]] = "LOADING"
        /\ pc[u] \in LeasePcs => state[holds[u]] \in EVICTABLE_STATES
        /\ pc[u] = "using" => state[holds[u]] = "READY"
        /\ pc[u] = "spoiled" => state[holds[u]] = "INVALID"
    BY DEF HeldIsCurrent
  <2>4. holds[u] # NoEntry => slot'[want'[u]] = holds'[u] /\ state'[holds'[u]] = state[holds[u]]
    BY <1>2, <2>2
  <2> QED BY <1>2, <2>1, <2>3, <2>4
<1> QED BY <1>1, <1>2

\* So do the locks of the other threads.
LEMMA LocksKept ==
    ASSUME Shape, NEW t \in Threads,
           \A u \in Threads \ {t} :
               /\ holds'[u] = holds[u] /\ want'[u] = want[u] /\ after'[u] = after[u]
               /\ pc'[u] \in LoadPcs \cup CleanPcs \cup ExecPcs => pc'[u] = pc[u]
               /\ want[u] \in Models /\ loader[want[u]] = u => loader'[want[u]] = u
               /\ holds[u] # NoEntry => executor'[holds[u]] = executor[holds[u]],
           pc'[t] \in LoadPcs \/ (pc'[t] \in CleanPcs /\ after'[t] \in {"recheck", "returned"})
               => loader'[want'[t]] = t,
           pc'[t] \in ExecPcs => executor'[holds'[t]] = t
    PROVE  LocksAreHeld'
<1> SUFFICES ASSUME NEW u \in Threads
    PROVE  /\ pc'[u] \in LoadPcs \/ (pc'[u] \in CleanPcs /\ after'[u] \in {"recheck", "returned"})
                 => loader'[want'[u]] = u
           /\ pc'[u] \in ExecPcs => executor'[holds'[u]] = u
  BY DEF LocksAreHeld
<1>1. CASE u = t
  BY <1>1
<1>2. CASE u # t
  <2>1. pc[u] \in ExecPcs => holds[u] # NoEntry
    BY DEF CallsAreWhole
  <2>2. pc[u] \in LoadPcs \/ (pc[u] \in CleanPcs /\ after[u] \in {"recheck", "returned"})
            => want[u] \in Models
    BY DEF CallsAreWhole
  <2>3. /\ pc[u] \in LoadPcs \/ (pc[u] \in CleanPcs /\ after[u] \in {"recheck", "returned"})
              => loader[want[u]] = u
        /\ pc[u] \in ExecPcs => executor[holds[u]] = u
    BY DEF LocksAreHeld
  <2>4. pc'[u] \in LoadPcs \/ (pc'[u] \in CleanPcs /\ after'[u] \in {"recheck", "returned"})
            => loader'[want'[u]] = u
    BY <1>2, <2>2, <2>3
  <2>5. pc'[u] \in ExecPcs => executor'[holds'[u]] = u
    BY <1>2, <2>1, <2>3
  <2> QED BY <2>4, <2>5
<1> QED BY <1>1, <1>2

\* The last step of every lemma about an action.
LEMMA Summary ==
    ASSUME IndInv, NEW t \in Threads, Shape', LeaseMoves(t), SlotMoves(t), BucketMoves
    PROVE  Preserves(t)
  BY BucketsKept DEF Preserves, IndInv

\* A call begins.
LEMMA AcquireRuntimeStep ==
    ASSUME IndInv, NEW t \in Threads, NEW m \in Models, AcquireRuntime(t, m)
    PROVE  Preserves(t)
<1>1. Shape
  BY DEF IndInv
<1> USE DEF AcquireRuntime
<1>2. TypeOK'
  BY <1>1
<1>3. CallsAreWhole' /\ LocksAreHeld'
  BY <1>1 DEF CallsAreWhole, LocksAreHeld
<1>4. HeldIsCurrent'
  BY <1>1, CallFacts DEF HeldIsCurrent
<1>5. EntriesAreOwned' /\ NoRuntimeLeaks'
  BY <1>1, UnchangedEntries
<1>6. ResolversResolve' /\ OrderIsStrict'
  BY <1>1, UnchangedOrder DEF ResolversResolve
<1>7. LeaseMoves(t)
  BY <1>1, UnchangedLeases DEF Current
<1>8. SlotMoves(t)
  BY <1>1 DEF SlotMoves, HoldsSlot
<1>9. BucketMoves
  BY UnchangedBuckets
<1> QED
  BY <1>2, <1>3, <1>4, <1>5, <1>6, <1>7, <1>8, <1>9, Summary

\* It gets an admission slot.
LEMMA AdmitStep ==
    ASSUME IndInv, NEW t \in Threads, Admit(t)
    PROVE  Preserves(t)
<1>1. Shape
  BY DEF IndInv
<1> USE DEF Admit
<1>2. TypeOK'
  BY <1>1
<1>3. CallsAreWhole' /\ LocksAreHeld'
  BY <1>1 DEF CallsAreWhole, LocksAreHeld
<1>4. HeldIsCurrent'
  BY <1>1 DEF HeldIsCurrent
<1>5. EntriesAreOwned' /\ NoRuntimeLeaks'
  BY <1>1, UnchangedEntries
<1>6. ResolversResolve' /\ OrderIsStrict'
  BY <1>1, UnchangedOrder DEF ResolversResolve
<1>7. LeaseMoves(t)
  BY <1>1, UnchangedLeases DEF Current
<1>8. SlotMoves(t)
  BY <1>1 DEF SlotMoves, HoldsSlot
<1>9. BucketMoves
  BY UnchangedBuckets
<1> QED
  BY <1>2, <1>3, <1>4, <1>5, <1>6, <1>7, <1>8, <1>9, Summary

\* It gets the load lock of its model.
LEMMA TakeLoadLockStep ==
    ASSUME IndInv, NEW t \in Threads, TakeLoadLock(t)
    PROVE  Preserves(t)
<1>1. Shape
  BY DEF IndInv
<1> USE DEF TakeLoadLock
<1>2. TypeOK'
  BY <1>1
<1>3. CallsAreWhole' /\ LocksAreHeld'
  BY <1>1 DEF CallsAreWhole, LocksAreHeld
<1>4. HeldIsCurrent'
  BY <1>1 DEF HeldIsCurrent
<1>5. EntriesAreOwned' /\ NoRuntimeLeaks'
  BY <1>1, UnchangedEntries
<1>6. ResolversResolve' /\ OrderIsStrict'
  BY <1>1, UnchangedOrder DEF ResolversResolve
<1>7. LeaseMoves(t)
  BY <1>1, UnchangedLeases DEF Current
<1>8. SlotMoves(t)
  BY <1>1 DEF SlotMoves, HoldsSlot
<1>9. BucketMoves
  BY UnchangedBuckets
<1> QED
  BY <1>2, <1>3, <1>4, <1>5, <1>6, <1>7, <1>8, <1>9, Summary

\* It meets an entry that is invalid and still pinned.
LEMMA MeetDrainingStep ==
    ASSUME IndInv, NEW t \in Threads, MeetDraining(t)
    PROVE  Preserves(t)
<1>1. Shape
  BY DEF IndInv
<1> USE DEF MeetDraining
<1>2. TypeOK'
  BY <1>1
<1>3. CallsAreWhole' /\ LocksAreHeld'
  BY <1>1 DEF CallsAreWhole, LocksAreHeld
<1>4. HeldIsCurrent'
  BY <1>1 DEF HeldIsCurrent
<1>5. EntriesAreOwned' /\ NoRuntimeLeaks'
  BY <1>1, UnchangedEntries
<1>6. ResolversResolve' /\ OrderIsStrict'
  BY <1>1, UnchangedOrder DEF ResolversResolve
<1>7. LeaseMoves(t)
  BY <1>1, UnchangedLeases DEF Current
<1>8. SlotMoves(t)
  BY <1>1 DEF SlotMoves, HoldsSlot
<1>9. BucketMoves
  BY UnchangedBuckets
<1> QED
  BY <1>2, <1>3, <1>4, <1>5, <1>6, <1>7, <1>8, <1>9, Summary

\* It is refused: no entry, lease or slot is left behind.
LEMMA RefuseBusyStep ==
    ASSUME IndInv, NEW t \in Threads, RefuseBusy(t)
    PROVE  Preserves(t)
<1>1. Shape
  BY DEF IndInv
<1> USE DEF RefuseBusy
<1>2. TypeOK'
  BY <1>1
<1>3. CallsAreWhole' /\ LocksAreHeld'
  BY <1>1 DEF CallsAreWhole, LocksAreHeld
<1>4. HeldIsCurrent'
  BY <1>1 DEF HeldIsCurrent
<1>5. EntriesAreOwned' /\ NoRuntimeLeaks'
  BY <1>1, UnchangedEntries
<1>6. ResolversResolve' /\ OrderIsStrict'
  BY <1>1, UnchangedOrder DEF ResolversResolve
<1>7. LeaseMoves(t)
  BY <1>1, UnchangedLeases DEF Current
<1>8. SlotMoves(t)
  BY <1>1 DEF SlotMoves, HoldsSlot
<1>9. BucketMoves
  BY UnchangedBuckets
<1> QED
  BY <1>2, <1>3, <1>4, <1>5, <1>6, <1>7, <1>8, <1>9, Summary

\* It gets the execution lock of the entry it leased.
LEMMA TakeExecutionLockStep ==
    ASSUME IndInv, NEW t \in Threads, TakeExecutionLock(t)
    PROVE  Preserves(t)
<1>1. Shape
  BY DEF IndInv
<1> USE DEF TakeExecutionLock
<1>2. TypeOK'
  BY <1>1
<1>3. CallsAreWhole' /\ LocksAreHeld'
  BY <1>1 DEF CallsAreWhole, LocksAreHeld
<1>4. HeldIsCurrent'
  BY <1>1 DEF HeldIsCurrent
<1>5. EntriesAreOwned' /\ NoRuntimeLeaks'
  BY <1>1, UnchangedEntries
<1>6. ResolversResolve' /\ OrderIsStrict'
  BY <1>1, UnchangedOrder DEF ResolversResolve
<1>7. LeaseMoves(t)
  BY <1>1, UnchangedLeases DEF Current
<1>8. SlotMoves(t)
  BY <1>1 DEF SlotMoves, HoldsSlot
<1>9. BucketMoves
  BY UnchangedBuckets
<1> QED
  BY <1>2, <1>3, <1>4, <1>5, <1>6, <1>7, <1>8, <1>9, Summary

\* Teardown: the execution lock first.
LEMMA ReleaseExecutionLockStep ==
    ASSUME IndInv, NEW t \in Threads, ReleaseExecutionLock(t)
    PROVE  Preserves(t)
<1>1. Shape
  BY DEF IndInv
<1> USE DEF ReleaseExecutionLock
<1>2. TypeOK'
  BY <1>1
<1>3. CallsAreWhole' /\ LocksAreHeld'
  BY <1>1 DEF CallsAreWhole, LocksAreHeld
<1>4. HeldIsCurrent'
  BY <1>1 DEF HeldIsCurrent
<1>5. EntriesAreOwned' /\ NoRuntimeLeaks'
  BY <1>1, UnchangedEntries
<1>6. ResolversResolve' /\ OrderIsStrict'
  BY <1>1, UnchangedOrder DEF ResolversResolve
<1>7. LeaseMoves(t)
  BY <1>1, UnchangedLeases DEF Current
<1>8. SlotMoves(t)
  BY <1>1 DEF SlotMoves, HoldsSlot
<1>9. BucketMoves
  BY UnchangedBuckets
<1> QED
  BY <1>2, <1>3, <1>4, <1>5, <1>6, <1>7, <1>8, <1>9, Summary

\* The admission slot of a call is returned once.
LEMMA DismissStep ==
    ASSUME IndInv, NEW t \in Threads, Dismiss(t)
    PROVE  Preserves(t)
<1>1. Shape
  BY DEF IndInv
<1> USE DEF Dismiss
<1>2. TypeOK'
  BY <1>1, CallFacts, SlotToReturn DEF HoldsSlot, IndInv
<1>3. CallsAreWhole' /\ LocksAreHeld'
  BY <1>1 DEF CallsAreWhole, LocksAreHeld
<1>4. HeldIsCurrent'
  BY <1>1, CallFacts DEF HeldIsCurrent
<1>5. EntriesAreOwned' /\ NoRuntimeLeaks'
  BY <1>1, UnchangedEntries
<1>6. ResolversResolve' /\ OrderIsStrict'
  BY <1>1, UnchangedOrder DEF ResolversResolve
<1>7. LeaseMoves(t)
  BY <1>1, UnchangedLeases DEF Current
<1>8. SlotMoves(t)
  BY <1>1 DEF SlotMoves, HoldsSlot
<1>9. BucketMoves
  BY UnchangedBuckets
<1> QED
  BY <1>2, <1>3, <1>4, <1>5, <1>6, <1>7, <1>8, <1>9, Summary

\* ... and so is that of a call whose wait timed out.
LEMMA PauseStep ==
    ASSUME IndInv, NEW t \in Threads, Pause(t)
    PROVE  Preserves(t)
<1>1. Shape
  BY DEF IndInv
<1> USE DEF Pause
<1>2. TypeOK'
  <2>1. slots + 1 \in 0..Capacity
    BY SlotToReturn DEF HoldsSlot, IndInv
  <2>2. LockType' /\ CacheType'
    BY <1>1, <2>1
  <2>3. CASE Goto(t, "idle") /\ EndCall(t)
    <3>1. CallType'
      BY <2>3, <1>1
    <3> QED BY <2>2, <3>1
  <2>4. CASE /\ Goto(t, "admission") /\ retrying' = [retrying EXCEPT ![t] = FALSE]
             /\ UNCHANGED <<want, drain, after>>
    <3>1. CallType'
      BY <2>4, <1>1
    <3> QED BY <2>2, <3>1
  <2> QED BY <2>3, <2>4
<1>3. CallsAreWhole' /\ LocksAreHeld'
  BY <1>1 DEF CallsAreWhole, LocksAreHeld
<1>4. HeldIsCurrent'
  BY <1>1, CallFacts DEF HeldIsCurrent
<1>5. EntriesAreOwned' /\ NoRuntimeLeaks'
  BY <1>1, UnchangedEntries
<1>6. ResolversResolve' /\ OrderIsStrict'
  BY <1>1, UnchangedOrder DEF ResolversResolve
<1>7. LeaseMoves(t)
  BY <1>1, UnchangedLeases DEF Current
<1>8. SlotMoves(t)
  BY <1>1 DEF SlotMoves, HoldsSlot
<1>9. BucketMoves
  BY UnchangedBuckets
<1> QED
  BY <1>2, <1>3, <1>4, <1>5, <1>6, <1>7, <1>8, <1>9, Summary

\* A thread looks whether the stale entry has drained.
LEMMA WaitForDrainStep ==
    ASSUME IndInv, NEW t \in Threads, WaitForDrain(t)
    PROVE  Preserves(t)
<1>1. Shape
  BY DEF IndInv
<1> USE DEF WaitForDrain
<1>2. TypeOK'
  BY <1>1
<1>3. CallsAreWhole' /\ LocksAreHeld'
  BY <1>1 DEF CallsAreWhole, LocksAreHeld
<1>4. HeldIsCurrent'
  BY <1>1 DEF HeldIsCurrent
<1>5. EntriesAreOwned' /\ NoRuntimeLeaks'
  BY <1>1, UnchangedEntries
<1>6. ResolversResolve' /\ OrderIsStrict'
  BY <1>1, UnchangedOrder DEF ResolversResolve
<1>7. LeaseMoves(t)
  BY <1>1, UnchangedLeases DEF Current
<1>8. SlotMoves(t)
  BY <1>1 DEF SlotMoves, HoldsSlot
<1>9. BucketMoves
  BY UnchangedBuckets
<1> QED
  BY <1>2, <1>3, <1>4, <1>5, <1>6, <1>7, <1>8, <1>9, Summary

\* A deadline passes while the thread waits.
LEMMA TimeOutStep ==
    ASSUME IndInv, NEW t \in Threads, TimeOut(t)
    PROVE  Preserves(t)
<1>1. Shape
  BY DEF IndInv
<1> USE DEF TimeOut
<1>2. TypeOK'
  <2>1. CacheType' /\ LockType' /\ UNCHANGED <<holds, victims>>
    BY <1>1
  <2>2. CASE Goto(t, "idle") /\ EndCall(t)
    BY <2>1, <2>2, <1>1
  <2>3. CASE Goto(t, "pause") /\ UNCHANGED <<calling, after>>
    BY <2>1, <2>3, <1>1
  <2>4. CASE Goto(t, "unlease") /\ after' = [after EXCEPT ![t] = "pause"] /\ UNCHANGED calling
    BY <2>1, <2>4, <1>1
  <2> QED BY <2>2, <2>3, <2>4
<1>3. CallsAreWhole' /\ LocksAreHeld'
  BY <1>1 DEF CallsAreWhole, LocksAreHeld
<1>4. HeldIsCurrent'
  BY <1>1, CallFacts DEF HeldIsCurrent
<1>5. EntriesAreOwned' /\ NoRuntimeLeaks'
  BY <1>1, UnchangedEntries
<1>6. ResolversResolve' /\ OrderIsStrict'
  BY <1>1, UnchangedOrder DEF ResolversResolve
<1>7. LeaseMoves(t)
  BY <1>1, UnchangedLeases DEF Current
<1>8. SlotMoves(t)
  BY <1>1 DEF SlotMoves, HoldsSlot
<1>9. BucketMoves
  BY UnchangedBuckets
<1> QED
  BY <1>2, <1>3, <1>4, <1>5, <1>6, <1>7, <1>8, <1>9, Summary

\* resolve_runtime looks again under the load lock.
LEMMA ResolveGetStep ==
    ASSUME IndInv, NEW t \in Threads, ResolveGet(t)
    PROVE  Preserves(t)
<1>1. Shape
  BY DEF IndInv
<1> USE DEF ResolveGet
<1>2. TypeOK'
  BY <1>1, CallFacts, TouchType
<1>3. CallsAreWhole' /\ LocksAreHeld'
  BY <1>1 DEF CallsAreWhole, LocksAreHeld
<1>4. HeldIsCurrent'
  BY <1>1 DEF HeldIsCurrent
<1>5. EntriesAreOwned' /\ NoRuntimeLeaks'
  BY <1>1, UnchangedEntries
<1>6. ResolversResolve' /\ OrderIsStrict'
  <2>1. want[t] \in Models
    BY <1>1, CallFacts
  <2>2. OrderIsStrict'
    BY <1>1, <2>1, UnchangedOrder, TouchKeepsOrder
  <2>3. ResolversResolve'
    BY <1>1 DEF ResolversResolve
  <2> QED BY <2>2, <2>3
<1>7. LeaseMoves(t)
  BY <1>1, UnchangedLeases DEF Current
<1>8. SlotMoves(t)
  BY <1>1 DEF SlotMoves, HoldsSlot
<1>9. BucketMoves
  BY UnchangedBuckets
<1> QED
  BY <1>2, <1>3, <1>4, <1>5, <1>6, <1>7, <1>8, <1>9, Summary

\* resolve_runtime returns.
LEMMA ResolveReturnStep ==
    ASSUME IndInv, NEW t \in Threads, ResolveReturn(t)
    PROVE  Preserves(t)
<1>1. Shape
  BY DEF IndInv
<1> USE DEF ResolveReturn
<1>2. TypeOK'
  BY <1>1, CallFacts, TouchType
<1>3. CallsAreWhole' /\ LocksAreHeld'
  BY <1>1 DEF CallsAreWhole, LocksAreHeld
<1>4. HeldIsCurrent'
  BY <1>1, CallFacts DEF HeldIsCurrent
<1>5. EntriesAreOwned' /\ NoRuntimeLeaks'
  BY <1>1, UnchangedEntries
<1>6. ResolversResolve' /\ OrderIsStrict'
  BY <1>1, UnchangedOrder, TouchKeepsOrder DEF ResolversResolve
<1>7. LeaseMoves(t)
  BY <1>1, UnchangedLeases DEF Current
<1>8. SlotMoves(t)
  BY <1>1 DEF SlotMoves, HoldsSlot
<1>9. BucketMoves
  BY UnchangedBuckets
<1> QED
  BY <1>2, <1>3, <1>4, <1>5, <1>6, <1>7, <1>8, <1>9, Summary

\* resolve_runtime finds a ready entry or begins to load one.
LEMMA ResolveRuntimeStep ==
    ASSUME IndInv, NEW t \in Threads, NEW m \in Models, ResolveRuntime(t, m)
    PROVE  Preserves(t)
<1>1. Shape
  BY DEF IndInv
<1> USE DEF ResolveRuntime
<1>2. TypeOK'
  BY <1>1, CallFacts, TouchType
<1>3. CallsAreWhole' /\ LocksAreHeld'
  BY <1>1 DEF CallsAreWhole, LocksAreHeld
<1>4. HeldIsCurrent'
  BY <1>1, CallFacts DEF HeldIsCurrent
<1>5. EntriesAreOwned' /\ NoRuntimeLeaks'
  BY <1>1, UnchangedEntries
<1>6. ResolversResolve' /\ OrderIsStrict'
  BY <1>1, UnchangedOrder, TouchKeepsOrder DEF ResolversResolve
<1>7. LeaseMoves(t)
  BY <1>1, UnchangedLeases DEF Current
<1>8. SlotMoves(t)
  BY <1>1 DEF SlotMoves, HoldsSlot
<1>9. BucketMoves
  BY UnchangedBuckets
<1> QED
  BY <1>2, <1>3, <1>4, <1>5, <1>6, <1>7, <1>8, <1>9, Summary


\* A ready entry in use becomes invalid.
LEMMA SpoilingKeepsEntries ==
    ASSUME Shape, NEW e \in Entries, Current(e), state[e] = "READY",
           state' = [state EXCEPT ![e] = "INVALID"],
           UNCHANGED <<slot, leases, runtime, victims>>,
           \A u \in Threads : pc[u] \in {"load", "publish"} =>
               pc'[u] \in {"load", "publish"} /\ holds'[u] = holds[u]
    PROVE  EntriesAreOwned' /\ NoRuntimeLeaks' /\ BucketMoves
<1>1. \A f : Current(f)' <=> Current(f)
  BY DEF Current
<1>2. \A f \in Entries : state'[f] = IF f = e THEN "INVALID" ELSE state[f]
  OBVIOUS
<1>3. EntriesAreOwned'
  BY <1>1, <1>2 DEF EntriesAreOwned
<1>4. NoRuntimeLeaks'
  BY DEF NoRuntimeLeaks
<1>5. \A m \in Models : Cached(m) =>
          /\ state'[slot[m]] # "RETIRING" => state[slot[m]] # "RETIRING"
          /\ state'[slot[m]] \in EVICTABLE_STATES => state[slot[m]] \in EVICTABLE_STATES
  BY <1>2
<1>6. BucketMoves
  BY <1>5 DEF BucketMoves, InBucket, Staying, Retiring, Spare, Evictable
<1> QED BY <1>3, <1>4, <1>6

\* Nobody else is using what t uses.
LEMMA OneUser ==
    ASSUME Shape, NEW t \in Threads, pc[t] \in ExecPcs, NEW u \in Threads \ {t},
           pc[u] \in ExecPcs
    PROVE  holds[u] # holds[t]
  BY DEF LocksAreHeld

\* Somebody with a handle of the current entry declares the runtime broken.
LEMMA ReleaseHandleStep ==
    ASSUME IndInv, NEW t \in Threads, NEW m \in Models, ReleaseHandle(m)
    PROVE  Preserves(t)
<1> DEFINE e == slot[m]
<1>1. Shape
  BY DEF IndInv
<1>2. /\ e \in Entries /\ Current(e) /\ state[e] = "READY"
      /\ state' = [state EXCEPT ![e] = "INVALID"] /\ handed' = handed \ {e}
      /\ pc' = [u \in Threads |->
                   IF pc[u] = "using" /\ holds[u] = e THEN "spoiled" ELSE pc[u]]
      /\ UNCHANGED <<slot, lru, leases, runtime, locks, calling, holds, victims, after>>
  BY <1>1 DEF ReleaseHandle, MarkInvalid, Current
<1> HIDE DEF e
<1>3. \A u \in Threads : \/ pc'[u] = pc[u] /\ ~(pc[u] = "using" /\ holds[u] = e)
                         \/ pc[u] = "using" /\ pc'[u] = "spoiled" /\ holds[u] = e
  BY <1>2
<1>4. TypeOK'
  BY <1>1, <1>2
<1>5. CallsAreWhole' /\ LocksAreHeld'
  BY <1>1, <1>2, <1>3 DEF CallsAreWhole, LocksAreHeld
<1>6. HeldIsCurrent'
  BY <1>1, <1>2, <1>3 DEF HeldIsCurrent, CallsAreWhole
<1>7. EntriesAreOwned' /\ NoRuntimeLeaks' /\ BucketMoves
  BY <1>1, <1>2, <1>3, SpoilingKeepsEntries
<1>8. ResolversResolve' /\ OrderIsStrict'
  BY <1>1, <1>2, <1>3, UnchangedOrder DEF ResolversResolve
<1>9. LeaseMoves(t)
  BY <1>1, <1>2, <1>3, UnchangedLeases DEF Current
<1>10. SlotMoves(t)
  BY <1>1, <1>2, <1>3 DEF SlotMoves, HoldsSlot
<1> QED
  BY <1>4, <1>5, <1>6, <1>7, <1>8, <1>9, <1>10, Summary

\* The with block ends.
LEMMA ExitHandleStep ==
    ASSUME IndInv, NEW t \in Threads, ExitHandle(t)
    PROVE  Preserves(t)
<1>1. Shape
  BY DEF IndInv
<1> USE DEF ExitHandle, MarkInvalid
<1>2. TypeOK'
  BY <1>1
<1>3. CallsAreWhole' /\ LocksAreHeld'
  BY <1>1 DEF CallsAreWhole, LocksAreHeld
<1>4. holds[t] \in Entries /\ Current(holds[t])
  BY <1>1, CallFacts
<1>5. HeldIsCurrent'
  <2>1. CASE UNCHANGED state
    BY <2>1, <1>1 DEF HeldIsCurrent
  <2>2. CASE state' = [state EXCEPT ![holds[t]] = "INVALID"]
    BY <2>2, <1>1, <1>4, OneUser DEF HeldIsCurrent
  <2> QED BY <2>1, <2>2
<1>6. EntriesAreOwned' /\ NoRuntimeLeaks' /\ BucketMoves
  <2>1. CASE UNCHANGED state
    BY <2>1, <1>1, UnchangedEntries, UnchangedBuckets
  <2>2. CASE /\ state[holds[t]] = "READY"
             /\ state' = [state EXCEPT ![holds[t]] = "INVALID"]
    BY <2>2, <1>1, <1>4, SpoilingKeepsEntries
  <2> QED BY <2>1, <2>2
<1>7. ResolversResolve' /\ OrderIsStrict'
  BY <1>1, UnchangedOrder DEF ResolversResolve
<1>8. LeaseMoves(t)
  BY <1>1, UnchangedLeases DEF Current
<1>9. SlotMoves(t)
  BY <1>1 DEF SlotMoves, HoldsSlot
<1> QED
  BY <1>2, <1>3, <1>5, <1>6, <1>7, <1>8, <1>9, Summary

\* The entry is checked again once the execution lock is there.
LEMMA RevalidateStep ==
    ASSUME IndInv, NEW t \in Threads, Revalidate(t)
    PROVE  Preserves(t)
<1>1. Shape
  BY DEF IndInv
<1>2. /\ pc[t] = "validate" /\ holds[t] \in Entries /\ victims[t] = {}
      /\ slot[want[t]] = holds[t]
  BY <1>1, CallFacts DEF Revalidate
<1>3. /\ UNCHANGED <<slot, lru, state, leases, runtime, loader, slots, want, holds, victims>>
      /\ handed' \subseteq Entries
  <2>1. handed' \in {handed, handed \cup {holds[t]}}
    BY DEF Revalidate
  <2>2. UNCHANGED <<slot, lru, state, leases, runtime, loader, slots, want, holds, victims>>
    BY DEF Revalidate
  <2> QED BY <2>1, <2>2, <1>1, <1>2
<1>4. \/ /\ state[holds[t]] = "READY" /\ pc' = [pc EXCEPT ![t] = "using"]
         /\ UNCHANGED <<executor, drain, retrying, after>>
      \/ /\ executor' = [executor EXCEPT ![holds[t]] = NoThread]
         /\ drain' \in {drain, [drain EXCEPT ![t] = holds[t]]}
         /\ retrying' = [retrying EXCEPT ![t] = TRUE]
         /\ pc' = [pc EXCEPT ![t] = "unlease"]
         /\ \E p \in {"loadlock", "dismiss"} : after' = [after EXCEPT ![t] = p]
  <2>1. CASE slot[want[t]] = holds[t] /\ state[holds[t]] = "READY"
    BY <2>1 DEF Revalidate
  <2>2. CASE ~(slot[want[t]] = holds[t] /\ state[holds[t]] = "READY")
    BY <2>2, <1>1 DEF Revalidate
  <2> QED BY <2>1, <2>2
<1>5. TypeOK'
  <2>1. CacheType' /\ LockType'
    BY <1>1, <1>2, <1>3, <1>4
  <2>2. pc' \in [Threads -> Pcs]
    BY <1>1, <1>4
  <2>4. retrying' \in [Threads -> BOOLEAN]
    BY <1>1, <1>4, Zenon
  <2>3. /\ drain' \in [Threads -> Entries \cup {NoEntry}]
        /\ after' \in [Threads -> {"idle", "recheck", "loadlock", "dismiss", "pause", "returned"}]
    BY <1>1, <1>2, <1>4
  <2> QED BY <2>1, <2>2, <2>3, <2>4, <1>1, <1>3
<1>6. CallsAreWhole'
  BY <1>1, <1>2, <1>3, <1>4 DEF CallsAreWhole
<1>7. LocksAreHeld'
  <2>1. \A u \in Threads \ {t} : /\ pc'[u] = pc[u] /\ after'[u] = after[u]
                                 /\ pc[u] \in ExecPcs => holds[u] # holds[t]
    BY <1>1, <1>2, <1>4, OneUser
  <2>2. ASSUME NEW u \in Threads \ {t}, pc[u] \in ExecPcs PROVE executor'[holds[u]] = u
    BY <2>1, <2>2, <1>1, <1>4, CallFacts DEF LocksAreHeld
  <2>3. pc'[t] \in ExecPcs => executor'[holds[t]] = t
    BY <1>1, <1>2, <1>4 DEF LocksAreHeld
  <2>4. pc'[t] \notin LoadPcs \cup CleanPcs
    BY <1>1, <1>4
  <2> QED BY <2>1, <2>2, <2>3, <2>4, <1>1, <1>3 DEF LocksAreHeld
<1>8. HeldIsCurrent'
  BY <1>1, <1>2, <1>3, <1>4 DEF HeldIsCurrent
<1>9. EntriesAreOwned' /\ NoRuntimeLeaks'
  BY <1>1, <1>2, <1>3, <1>4, UnchangedEntries
<1>10. ResolversResolve' /\ OrderIsStrict'
  BY <1>1, <1>2, <1>3, <1>4, UnchangedOrder DEF ResolversResolve
<1>11. LeaseMoves(t)
  BY <1>1, <1>2, <1>3, <1>4, UnchangedLeases DEF Current
<1>12. SlotMoves(t)
  BY <1>1, <1>2, <1>3, <1>4 DEF SlotMoves, HoldsSlot
<1>13. BucketMoves
  BY <1>3, UnchangedBuckets
<1> QED
  BY <1>5, <1>6, <1>7, <1>8, <1>9, <1>10, <1>11, <1>12, <1>13, Summary

\* A ready entry is pinned.
LEMMA PinReadyStep ==
    ASSUME IndInv, NEW t \in Threads, PinReady(t)
    PROVE  Preserves(t)
<1> DEFINE m == want[t]
           e == slot[m]
<1>1. Shape
  BY DEF IndInv
<1>2. /\ m \in Models /\ e \in Entries /\ pc[t] = "reserve" /\ state[e] = "READY"
      /\ holds[t] = NoEntry /\ victims[t] = {} /\ loader[m] = t /\ Cached(m) /\ Touch(m)
  BY <1>1, CallFacts DEF PinReady, LocksAreHeld
<1>3. /\ leases' = [leases EXCEPT ![e] = @ + 1] /\ holds' = [holds EXCEPT ![t] = e]
      /\ loader' = [loader EXCEPT ![m] = NoThread] /\ pc' = [pc EXCEPT ![t] = "execute"]
      /\ UNCHANGED <<slot, state, runtime, handed, executor, slots, calling, victims, after>>
  BY DEF PinReady, Pin
<1> HIDE DEF m, e
<1>4. TypeOK'
  BY <1>1, <1>2, <1>3, TouchType
<1>5. CallsAreWhole'
  BY <1>1, <1>2, <1>3 DEF CallsAreWhole
<1>6. LocksAreHeld'
  <2> SUFFICES ASSUME NEW u \in Threads
               PROVE  /\ pc'[u] \in LoadPcs \/ (pc'[u] \in CleanPcs /\ after'[u] \in {"recheck", "returned"})
                            => loader'[want'[u]] = u
                      /\ pc'[u] \in ExecPcs => executor'[holds'[u]] = u
    BY DEF LocksAreHeld
  <2>1. CASE u = t
    BY <2>1, <1>1, <1>3
  <2>2. CASE u # t
    BY <2>2, <1>1, <1>2, <1>3 DEF LocksAreHeld, CallsAreWhole
  <2> QED BY <2>1, <2>2
<1>7. HeldIsCurrent'
  BY <1>1, <1>2, <1>3 DEF HeldIsCurrent, m, e
<1>8. EntriesAreOwned' /\ NoRuntimeLeaks'
  BY <1>1, <1>2, <1>3, UnchangedEntries
<1>9. ResolversResolve' /\ OrderIsStrict'
  <2>1. OrderIsStrict'
    BY <1>1, <1>2, <1>3, TouchKeepsOrder
  <2>2. ResolversResolve'
    BY <1>1, <1>2, <1>3 DEF ResolversResolve
  <2> QED BY <2>1, <2>2
<1>10. LeaseMoves(t)
  <2> SUFFICES ASSUME NEW f \in Entries, Current(f)'
               PROVE  \/ Current(f) /\ leases'[f] = leases[f] /\ Leaseholders(f)' = Leaseholders(f)
                      \/ /\ Current(f) /\ t \notin Leaseholders(f)
                         /\ leases'[f] = leases[f] + 1
                         /\ Leaseholders(f)' = Leaseholders(f) \cup {t}
    BY DEF LeaseMoves
  <2>1. Current(f)
    BY <1>3 DEF Current
  <2>2. CASE f = e
    <3>1. t \notin Leaseholders(f) /\ Leaseholders(f)' = Leaseholders(f) \cup {t}
      BY <2>2, <1>1, <1>2, <1>3 DEF Leaseholders
    <3> QED BY <3>1, <2>1, <2>2, <1>1, <1>2, <1>3
  <2>3. CASE f # e
    <3>1. Leaseholders(f)' = Leaseholders(f)
      BY <2>3, <1>1, <1>2, <1>3 DEF Leaseholders
    <3> QED BY <3>1, <2>1, <2>3, <1>1, <1>2, <1>3
  <2> QED BY <2>2, <2>3
<1>11. SlotMoves(t)
  BY <1>1, <1>2, <1>3 DEF SlotMoves, HoldsSlot
<1>12. BucketMoves
  <2>1. ASSUME NEW k \in Models, Cached(k), leases'[slot[k]] = 0
        PROVE  leases[slot[k]] = 0
    <3>1. slot[k] \in Entries /\ leases[slot[k]] \in Nat
      BY <2>1, <1>1
    <3>2. leases'[slot[k]] = IF slot[k] = e THEN leases[slot[k]] + 1 ELSE leases[slot[k]]
      BY <3>1, <1>1, <1>2, <1>3
    <3> QED BY <2>1, <3>1, <3>2
  <2> QED BY <2>1, <1>3 DEF BucketMoves, InBucket, Staying, Retiring, Spare, Evictable
<1> QED
  BY <1>4, <1>5, <1>6, <1>7, <1>8, <1>9, <1>10, <1>11, <1>12, Summary

\* Holders do not notice a retirement of what nobody holds.
LEMMA RetirementKeepsHolders ==
    ASSUME Shape, TypeOK', CallsAreWhole', NEW vs \in SUBSET Entries, RetireFrom(vs),
           \A e \in vs : state[e] \in EVICTABLE_STATES,
           UNCHANGED <<slot, want>>,
           \A u \in Threads : pc'[u] \in LeasePcs \cup {"load", "publish"} =>
               /\ pc'[u] = pc[u] /\ holds'[u] = holds[u]
               /\ pc[u] \in LeasePcs => holds[u] \notin vs
    PROVE  HeldIsCurrent'
<1>1. \A e \in Entries : state'[e] = IF e \in vs THEN "RETIRING" ELSE state[e]
  BY DEF RetireFrom
<1>2. ASSUME NEW u \in Threads, pc'[u] \in LeasePcs \cup {"load", "publish"}
      PROVE  /\ pc'[u] = pc[u] /\ holds'[u] = holds[u] /\ slot[want[u]] = holds[u]
             /\ holds[u] \in Entries /\ holds[u] \notin vs
  BY <1>2, CallFacts DEF HeldIsCurrent
<1> SUFFICES ASSUME NEW u \in Threads
             PROVE  /\ holds'[u] # NoEntry => slot'[want'[u]] = holds'[u]
                    /\ pc'[u] \in {"load", "publish"} => state'[holds'[u]] = "LOADING"
                    /\ pc'[u] \in LeasePcs => state'[holds'[u]] \in EVICTABLE_STATES
                    /\ pc'[u] = "using" => state'[holds'[u]] = "READY"
                    /\ pc'[u] = "spoiled" => state'[holds'[u]] = "INVALID"
  BY DEF HeldIsCurrent
<1>3. CASE pc'[u] \in LeasePcs \cup {"load", "publish"}
  <2>1. state'[holds'[u]] = state[holds[u]]
    BY <1>1, <1>2, <1>3
  <2> QED BY <2>1, <1>2, <1>3 DEF HeldIsCurrent
<1>4. CASE pc'[u] \notin LeasePcs \cup {"load", "publish"}
  BY <1>4 DEF CallsAreWhole
<1> QED BY <1>3, <1>4

\* The step of a thread that begins to clean up what it has just retired.
LEMMA RetireStep ==
    ASSUME IndInv, NEW t \in Threads, NEW vs \in SUBSET Entries, NEW p,
           vs # {}, victims[t] = {}, holds[t] = NoEntry,
           \A e \in vs : Current(e) /\ state[e] \in EVICTABLE_STATES /\ leases[e] = 0,
           RetireFrom(vs), Retire(t, vs, p), Goto(t, "clean"),
           \/ pc[t] = "idle" /\ p = "idle"
           \/ pc[t] = "reserve" /\ p = "recheck",
           UNCHANGED <<slot, lru, leases, runtime, locks, calling, holds>>
    PROVE  Preserves(t)
<1>1. Shape
  BY DEF IndInv
<1>2. TypeOK'
  <2>1. CacheType' /\ LockType'
    BY <1>1 DEF RetireFrom
  <2>2. CallType'
    BY <1>1
  <2> QED BY <2>1, <2>2
<1>3. CallsAreWhole' /\ LocksAreHeld'
  BY <1>1 DEF CallsAreWhole, LocksAreHeld
<1>4. HeldIsCurrent'
  <2>1. \A e \in vs, u \in Threads : pc[u] \in LeasePcs => holds[u] # e
    BY CountsMeanLeases DEF IndInv
  <2>2. \A u \in Threads : pc'[u] \in LeasePcs \cup {"load", "publish"} =>
            pc'[u] = pc[u] /\ (pc[u] \in LeasePcs => holds[u] \notin vs)
    BY <2>1, <1>1
  <2> QED BY <2>2, <1>1, <1>2, <1>3, RetirementKeepsHolders
<1>5. EntriesAreOwned' /\ NoRuntimeLeaks'
  BY <1>1, RetirementKeepsEntries
<1>6. ResolversResolve' /\ OrderIsStrict'
  BY <1>1, UnchangedOrder DEF ResolversResolve
<1>7. LeaseMoves(t)
  BY <1>1, UnchangedLeases DEF Current
<1>8. SlotMoves(t)
  BY <1>1 DEF SlotMoves, HoldsSlot
<1>9. BucketMoves
  BY <1>1, RetirementShrinks
<1> QED
  BY <1>2, <1>3, <1>4, <1>5, <1>6, <1>7, <1>8, <1>9, Summary

\* acquire_or_reserve retires the entry that makes room.
LEMMA RetireVictimStep ==
    ASSUME IndInv, NEW t \in Threads, RetireVictim(t)
    PROVE  Preserves(t)
<1>1. Shape
  BY DEF IndInv
<1>2. PICK k \in Models :
          /\ \/ k = want[t] /\ Cached(want[t]) /\ state[slot[want[t]]] = "INVALID"
                /\ leases[slot[want[t]]] = 0
             \/ ~Cached(want[t]) /\ CapacityVictim(BucketOf[want[t]], k)
          /\ RetireFrom({slot[k]})
          /\ Retire(t, {slot[k]}, "recheck")
  BY DEF RetireVictim
<1>3. Cached(k) /\ state[slot[k]] \in EVICTABLE_STATES /\ leases[slot[k]] = 0
  BY <1>2 DEF CapacityVictim, Evictable, InBucket
<1>4. slot[k] \in Entries /\ Current(slot[k])
  BY <1>1, <1>3 DEF Current
<1>5. pc[t] = "reserve" /\ victims[t] = {} /\ holds[t] = NoEntry
  BY <1>1, CallFacts DEF RetireVictim
<1> QED
  BY <1>2, <1>3, <1>4, <1>5, RetireStep DEF RetireVictim

\* unload retires one entry.
LEMMA UnloadStep ==
    ASSUME IndInv, NEW t \in Threads, NEW m \in Models, Unload(t, m)
    PROVE  Preserves(t)
<1>1. Shape
  BY DEF IndInv
<1>2. slot[m] \in Entries /\ Current(slot[m])
  BY <1>1 DEF Unload, Current
<1>3. state[slot[m]] \in EVICTABLE_STATES /\ leases[slot[m]] = 0
  BY <1>1, <1>2 DEF Unload, Unpinned
<1>4. pc[t] = "idle" /\ victims[t] = {} /\ holds[t] = NoEntry
  BY <1>1, CallFacts DEF Unload
<1> QED
  BY <1>2, <1>3, <1>4, RetireStep DEF Unload

\* unload_all retires everything or nothing.
LEMMA UnloadAllStep ==
    ASSUME IndInv, NEW t \in Threads, UnloadAll(t)
    PROVE  Preserves(t)
<1> DEFINE vs == {slot[m] : m \in {m \in Models : Cached(m)}}
<1>1. Shape
  BY DEF IndInv
<1>2. vs \in SUBSET Entries /\ \A e \in vs : Current(e)
  BY <1>1 DEF Current
<1>3. \A e \in vs : state[e] \in EVICTABLE_STATES /\ leases[e] = 0
  <2>1. \A m \in Models : Cached(m) => Unpinned(m)
    BY DEF UnloadAll
  <2>2. \A m \in Models : Cached(m) => state[slot[m]] \in EVICTABLE_STATES /\ leases[slot[m]] = 0
    BY <2>1, <1>1 DEF Unpinned
  <2> QED BY <2>2
<1>4. pc[t] = "idle" /\ victims[t] = {} /\ holds[t] = NoEntry
  BY <1>1, CallFacts DEF UnloadAll
<1>5. vs # {} /\ RetireFrom(vs) /\ Retire(t, vs, "idle") /\ Goto(t, "clean")
  BY DEF UnloadAll
<1>6. UNCHANGED <<slot, lru, leases, runtime, locks, calling, holds>>
  BY DEF UnloadAll
<1> HIDE DEF vs
<1> QED
  BY <1>2, <1>3, <1>4, <1>5, <1>6, RetireStep

\* A LOADING entry is put into a bucket that has room.
LEMMA ReserveLoadingStep ==
    ASSUME IndInv, NEW t \in Threads, ReserveLoading(t)
    PROVE  Preserves(t)
<1>1. Shape
  BY DEF IndInv
<1>m. PICK m \in Models : m = want[t]
  BY <1>1, CallFacts DEF ReserveLoading
<1>2. PICK e \in Entries :
          /\ Fresh(e)
          /\ slot' = [slot EXCEPT ![m] = e]
          /\ state' = [state EXCEPT ![e] = "LOADING"]
          /\ leases' = [leases EXCEPT ![e] = 0]
          /\ runtime' = [runtime EXCEPT ![e] = "none"]
          /\ executor' = [executor EXCEPT ![e] = NoThread]
          /\ holds' = [holds EXCEPT ![t] = e]
  BY <1>m DEF ReserveLoading
<1>3. /\ pc[t] \in {"reserve", "recheck"} /\ pc' = [pc EXCEPT ![t] = "load"]
      /\ ~Cached(m) /\ HasRoom(BucketOf[m]) /\ Touch(m)
      /\ UNCHANGED <<handed, loader, slots, calling, victims, after>>
  BY <1>m DEF ReserveLoading
<1>4. holds[t] = NoEntry /\ victims[t] = {}
  BY <1>1, <1>3, CallFacts
<1>5. /\ \A k \in Models : slot[k] # e
      /\ \A u \in Threads : holds[u] # e /\ e \notin victims[u]
  BY <1>2 DEF Fresh, Unreferenced
<1>6. /\ \A k \in Models : slot'[k] = IF k = m THEN e ELSE slot[k]
      /\ \A f \in Entries \ {e} : /\ state'[f] = state[f] /\ leases'[f] = leases[f]
                                  /\ runtime'[f] = runtime[f] /\ executor'[f] = executor[f]
      /\ state'[e] = "LOADING" /\ leases'[e] = 0 /\ runtime'[e] = "none"
      /\ \A u \in Threads \ {t} : pc'[u] = pc[u] /\ holds'[u] = holds[u]
      /\ pc'[t] = "load" /\ holds'[t] = e
  BY <1>1, <1>2, <1>3, <1>4
<1>7. \A f \in Entries : Current(f)' <=> Current(f) \/ f = e
  BY <1>3, <1>4, <1>6 DEF Current
<1>8. TypeOK'
  BY <1>1, <1>2, <1>3, <1>4, TouchType
<1>9. CallsAreWhole'
  BY <1>m, <1>1, <1>3, <1>4, <1>6 DEF CallsAreWhole
<1>10. LocksAreHeld'
  <2>1. ASSUME NEW u \in Threads \ {t}, holds[u] # NoEntry
        PROVE  executor'[holds[u]] = executor[holds[u]]
    <3>1. holds[u] \in Entries /\ holds[u] # e
      BY <2>1, <1>1, <1>5
    <3> QED BY <3>1, <1>6
  <2>2. loader'[want'[t]] = t
    BY <1>m, <1>1, <1>3 DEF LocksAreHeld
  <2> QED BY <2>1, <2>2, <1>1, <1>3, <1>6, LocksKept
<1>11. HeldIsCurrent'
  <2>1. ASSUME NEW u \in Threads \ {t}, holds[u] # NoEntry
        PROVE  want[u] \in Models /\ want[u] # m /\ holds[u] \in Entries \ {e}
    BY <2>1, <1>1, <1>3, <1>5, CallFacts DEF HeldIsCurrent, CallsAreWhole
  <2>2. slot'[want'[t]] = holds'[t]
    BY <1>m, <1>3, <1>4, <1>6
  <2>3. ASSUME NEW u \in Threads \ {t}
        PROVE  /\ holds'[u] = holds[u] /\ want'[u] = want[u] /\ pc'[u] = pc[u]
               /\ holds[u] # NoEntry =>
                     slot'[want[u]] = slot[want[u]] /\ state'[holds[u]] = state[holds[u]]
    BY <2>1, <1>3, <1>6
  <2>4. pc'[t] = "load" /\ state'[holds'[t]] = "LOADING"
    BY <1>6
  <2> QED BY <2>2, <2>3, <2>4, <1>1, HoldersKept
<1>12. EntriesAreOwned'
  <2>1. \A k, l \in Models : slot'[k] # NoEntry /\ slot'[k] = slot'[l] => k = l
    BY <1>1, <1>5, <1>6 DEF EntriesAreOwned
  <2>2. ASSUME NEW f \in Entries, Current(f)'
        PROVE  /\ state'[f] = "LOADING" =>
                     \E u \in Threads : pc'[u] \in {"load", "publish"} /\ holds'[u] = f
               /\ state'[f] = "RETIRING" => \E u \in Threads : f \in victims'[u]
               /\ state'[f] \in EVICTABLE_STATES => runtime'[f] = "loaded"
    <3>1. CASE f = e
      BY <3>1, <1>6
    <3>2. CASE f # e
      <4>1. Current(f) /\ state'[f] = state[f] /\ runtime'[f] = runtime[f]
        BY <3>2, <2>2, <1>6, <1>7
      <4>2. state[f] = "LOADING" =>
                \E u \in Threads \ {t} : pc[u] \in {"load", "publish"} /\ holds[u] = f
        BY <4>1, <1>1, <1>3 DEF EntriesAreOwned
      <4>3. state[f] = "LOADING" =>
                \E u \in Threads : pc'[u] \in {"load", "publish"} /\ holds'[u] = f
        BY <4>2, <1>6
      <4> QED BY <4>1, <4>3, <1>1, <1>3 DEF EntriesAreOwned
    <3> QED BY <3>1, <3>2
  <2>3. ASSUME NEW u \in Threads, NEW f \in victims[u]
        PROVE  /\ \A v \in Threads : f \in victims[v] => v = u
               /\ Current(f)' <=> state'[f] = "RETIRING"
               /\ state'[f] # "LOADING"
    <3>1. f \in Entries /\ f # e
      BY <1>1, <1>5
    <3>2. /\ \A v \in Threads : f \in victims[v] => v = u
          /\ Current(f) <=> state[f] = "RETIRING"
          /\ state[f] # "LOADING"
      BY <1>1, <2>3 DEF EntriesAreOwned
    <3>3. state'[f] = state[f] /\ (Current(f)' <=> Current(f))
      BY <3>1, <1>6, <1>7
    <3> QED BY <3>2, <3>3
  <2> QED BY <2>1, <2>2, <2>3, <1>3 DEF EntriesAreOwned
<1>13. NoRuntimeLeaks'
  <2>1. ASSUME NEW f \in Entries, runtime'[f] = "loaded"
        PROVE  Current(f)' \/ \E u \in Threads : f \in victims[u]
    BY <2>1, <1>1, <1>6, <1>7 DEF NoRuntimeLeaks, Current
  <2> QED BY <2>1, <1>3 DEF NoRuntimeLeaks, Current
<1>14. ResolversResolve' /\ OrderIsStrict'
  <2>1. OrderIsStrict'
    BY <1>1, <1>3, <1>4, <1>6, TouchKeepsOrder
  <2>2. ResolversResolve'
    BY <1>1, <1>3, <1>6 DEF ResolversResolve
  <2> QED BY <2>1, <2>2
<1>15. LeaseMoves(t)
  <2>1. ASSUME NEW f \in Entries \ {e} PROVE Leaseholders(f)' = Leaseholders(f)
    BY <1>1, <1>3, <1>4, <1>6 DEF Leaseholders
  <2>2. Leaseholders(e)' = {}
    BY <1>5, <1>6 DEF Leaseholders
  <2> QED BY <2>1, <2>2, <1>6, <1>7 DEF LeaseMoves
<1>16. SlotMoves(t)
  BY <1>1, <1>3, <1>6 DEF SlotMoves, HoldsSlot
<1>17. \A k \in Models \ {m} : Cached(k) => slot[k] \in Entries \ {e}
  BY <1>1, <1>5
<1>18. ASSUME NEW b \in Buckets, b # BucketOf[m]
       PROVE  InBucket(b)' = InBucket(b) /\ Staying(b)' = Staying(b) /\ Spare(b)' = Spare(b)
  <2>1. InBucket(b)' = InBucket(b)
    BY <1>18, <1>6 DEF InBucket
  <2>2. \A k \in InBucket(b) : slot'[k] = slot[k] /\ state'[slot[k]] = state[slot[k]]
                               /\ leases'[slot[k]] = leases[slot[k]]
    BY <1>18, <1>6, <1>17 DEF InBucket
  <2> QED BY <2>1, <2>2 DEF Staying, Retiring, Spare, Evictable
<1>19. /\ BucketOf[m] \in Buckets
       /\ Cardinality(InBucket(BucketOf[m])') <= Budget[BucketOf[m]]
  <2>1. PICK b \in Buckets : b = BucketOf[m]
    OBVIOUS
  <2>2. m \notin InBucket(b) /\ InBucket(b)' = InBucket(b) \cup {m}
    BY <2>1, <1>1, <1>3, <1>6 DEF InBucket
  <2>3. Cardinality(InBucket(b)) < Budget[b]
    BY <2>1, <1>3 DEF HasRoom
  <2>4. Cardinality(InBucket(b)') = Cardinality(InBucket(b)) + 1 /\ Cardinality(InBucket(b)) \in Nat
    BY <2>2, BucketFinite, FS_AddElement
  <2>5. Cardinality(InBucket(b)') <= Budget[b]
    BY <2>1, <2>3, <2>4
  <2> QED BY <2>1, <2>5
<1>20. OverflowIsTight'
  <2>1. ASSUME NEW b \in Buckets, b = BucketOf[m]
        PROVE  ~(Cardinality(Staying(b)') > Budget[b])
    <3>1. Cardinality(InBucket(b)') <= Budget[b] /\ Budget[b] \in Nat
      BY <2>1, <1>19
    <3> QED BY <3>1, NextBucketFinite
  <2>2. ASSUME NEW b \in Buckets, Cardinality(Staying(b)') > Budget[b]
        PROVE  \A k, l \in Spare(b)' : k = l
    <3>1. b # BucketOf[m]
      BY <2>1, <2>2
    <3>2. Staying(b)' = Staying(b) /\ Spare(b)' = Spare(b)
      BY <3>1, <1>18
    <3> QED BY <3>2, <2>2 DEF OverflowIsTight, IndInv
  <2> QED BY <2>2 DEF OverflowIsTight
<1>21. WithinBudget'
  <2>1. ASSUME NEW b \in Buckets, Resolvers = {}
        PROVE  Cardinality(InBucket(b)') <= Budget[b]
    <3>1. CASE b = BucketOf[m]
      BY <3>1, <1>19
    <3>2. CASE b # BucketOf[m]
      BY <3>2, <2>1, <1>18 DEF WithinBudget, IndInv
    <3> QED BY <3>1, <3>2
  <2> QED BY <2>1 DEF WithinBudget
<1> QED
  BY <1>8, <1>9, <1>10, <1>11, <1>12, <1>13, <1>14, <1>15, <1>16, <1>20, <1>21 DEF Preserves

\* The loader returns, or raises and takes its reservation back.
LEMMA LoadStep ==
    ASSUME IndInv, NEW t \in Threads, Load(t)
    PROVE  Preserves(t)
<1> DEFINE m == want[t]
           e == holds[t]
<1>1. Shape
  BY DEF IndInv
<1>2. /\ pc[t] = "load" /\ victims[t] = {} /\ m \in Models /\ e \in Entries
      /\ slot[m] = e /\ state[e] = "LOADING" /\ loader[m] = t
      /\ UNCHANGED <<leases, handed, executor, slots, calling, victims, after>>
  BY <1>1, CallFacts DEF Load, HeldIsCurrent, LocksAreHeld
<1>3. CASE /\ Goto(t, "publish")
           /\ UNCHANGED <<slot, lru, state, runtime, loader, holds>>
  <2>1. TypeOK'
    BY <1>1, <1>2, <1>3
  <2>2. CallsAreWhole' /\ LocksAreHeld'
    BY <1>1, <1>2, <1>3 DEF CallsAreWhole, LocksAreHeld
  <2>3. HeldIsCurrent'
    BY <1>1, <1>2, <1>3 DEF HeldIsCurrent
  <2>4. EntriesAreOwned' /\ NoRuntimeLeaks'
    BY <1>1, <1>2, <1>3, UnchangedEntries
  <2>5. ResolversResolve' /\ OrderIsStrict'
    BY <1>1, <1>2, <1>3, UnchangedOrder DEF ResolversResolve
  <2>6. LeaseMoves(t)
    BY <1>1, <1>2, <1>3, UnchangedLeases DEF Current
  <2>7. SlotMoves(t)
    BY <1>1, <1>2, <1>3 DEF SlotMoves, HoldsSlot
  <2>8. BucketMoves
    BY <1>2, <1>3, UnchangedBuckets
  <2> QED BY <2>1, <2>2, <2>3, <2>4, <2>5, <2>6, <2>7, <2>8, Summary
<1>4. CASE /\ slot' = [slot EXCEPT ![m] = NoEntry] /\ lru' = Without({m})
           /\ state' = [state EXCEPT ![e] = "RETIRING"]
           /\ runtime' = [runtime EXCEPT ![e] = "cleaned"]
           /\ holds' = [holds EXCEPT ![t] = NoEntry]
           /\ loader' = [loader EXCEPT ![m] = NoThread]
           /\ pc' = [pc EXCEPT ![t] = "dismiss"]
  <2>1. \A k \in Models \ {m} : slot[k] # e
    BY <1>1, <1>2 DEF EntriesAreOwned
  <2>2. \A u \in Threads : (u # t => holds[u] # e) /\ e \notin victims[u]
    <3>1. ASSUME NEW u \in Threads \ {t}, holds[u] = e PROVE FALSE
      <4>1. pc[u] \in {"load", "publish"} /\ slot[want[u]] = e /\ want[u] \in Models
        BY <3>1, <1>1, <1>2, CallFacts DEF HeldIsCurrent, CallsAreWhole
      <4>2. loader[want[u]] = u /\ want[u] = m
        BY <4>1, <2>1, <1>1 DEF LocksAreHeld
      <4> QED BY <4>2, <1>2
    <3>2. \A u \in Threads : e \notin victims[u]
      BY <1>1, <1>2 DEF EntriesAreOwned
    <3> QED BY <3>1, <3>2
  <2> HIDE DEF m, e
  <2>3. /\ \A k \in Models : slot'[k] = IF k = m THEN NoEntry ELSE slot[k]
        /\ \A f \in Entries \ {e} : state'[f] = state[f] /\ runtime'[f] = runtime[f]
        /\ runtime'[e] = "cleaned"
        /\ \A u \in Threads \ {t} : pc'[u] = pc[u] /\ holds'[u] = holds[u]
        /\ pc'[t] = "dismiss" /\ holds'[t] = NoEntry
    BY <1>1, <1>2, <1>4
  <2>4. \A f \in Entries : Current(f)' <=> Current(f) /\ f # e
    BY <1>1, <1>2, <2>1, <2>3 DEF Current
  <2>5. TypeOK'
    BY <1>1, <1>2, <1>4 DEF Without
  <2>6. CallsAreWhole'
    BY <1>1, <1>2, <2>3 DEF CallsAreWhole, m
  <2>7. LocksAreHeld'
    <3>1. \A u \in Threads \ {t} : loader[want[u]] = u /\ want[u] \in Models => loader'[want[u]] = u
      BY <1>1, <1>2, <1>4
    <3> QED BY <3>1, <1>1, <1>2, <2>3 DEF LocksAreHeld, CallsAreWhole
  <2>8. HeldIsCurrent'
    <3>1. ASSUME NEW u \in Threads \ {t}, holds[u] # NoEntry
          PROVE  want[u] \in Models \ {m} /\ holds[u] \in Entries \ {e}
      BY <3>1, <1>1, <1>2, <2>2, CallFacts DEF HeldIsCurrent, CallsAreWhole
    <3>2. ASSUME NEW u \in Threads \ {t}
          PROVE  /\ holds'[u] = holds[u] /\ want'[u] = want[u] /\ pc'[u] = pc[u]
                 /\ holds[u] # NoEntry =>
                       slot'[want[u]] = slot[want[u]] /\ state'[holds[u]] = state[holds[u]]
      BY <3>1, <1>1, <1>2, <2>3
    <3> QED BY <3>2, <1>1, <2>3, HoldersKept
  <2>9. EntriesAreOwned'
    <3>1. \A k, l \in Models : slot'[k] # NoEntry /\ slot'[k] = slot'[l] => k = l
      BY <1>1, <2>3 DEF EntriesAreOwned
    <3>2. ASSUME NEW f \in Entries, Current(f)'
          PROVE  /\ state'[f] = "LOADING" =>
                       \E u \in Threads : pc'[u] \in {"load", "publish"} /\ holds'[u] = f
                 /\ state'[f] = "RETIRING" => \E u \in Threads : f \in victims'[u]
                 /\ state'[f] \in EVICTABLE_STATES => runtime'[f] = "loaded"
      <4>1. Current(f) /\ f # e /\ state'[f] = state[f] /\ runtime'[f] = runtime[f]
        BY <3>2, <2>3, <2>4
      <4>2. state[f] = "LOADING" =>
                \E u \in Threads \ {t} : pc[u] \in {"load", "publish"} /\ holds[u] = f
        BY <4>1, <1>1 DEF EntriesAreOwned, e
      <4>3. state[f] = "LOADING" =>
                \E u \in Threads : pc'[u] \in {"load", "publish"} /\ holds'[u] = f
        BY <4>2, <2>3
      <4>4. /\ state[f] = "RETIRING" => \E u \in Threads : f \in victims[u]
            /\ state[f] \in EVICTABLE_STATES => runtime[f] = "loaded"
        BY <4>1, <1>1 DEF EntriesAreOwned
      <4> QED BY <4>1, <4>3, <4>4, <1>2
    <3>3. ASSUME NEW u \in Threads, NEW f \in victims[u]
          PROVE  /\ \A v \in Threads : f \in victims[v] => v = u
                 /\ Current(f)' <=> state'[f] = "RETIRING"
                 /\ state'[f] # "LOADING"
      <4>1. f \in Entries /\ f # e
        BY <1>1, <2>2
      <4> QED BY <4>1, <1>1, <2>3, <2>4 DEF EntriesAreOwned
    <3> QED BY <3>1, <3>2, <3>3, <1>2 DEF EntriesAreOwned
  <2>10. NoRuntimeLeaks'
    <3>1. ASSUME NEW f \in Entries, runtime'[f] = "loaded"
          PROVE  Current(f)' \/ \E u \in Threads : f \in victims[u]
      BY <3>1, <1>1, <2>3, <2>4 DEF NoRuntimeLeaks, Current
    <3> QED BY <3>1, <1>2 DEF NoRuntimeLeaks, Current
  <2>11. ResolversResolve' /\ OrderIsStrict'
    <3>1. OrderIsStrict'
      BY <1>1, <1>4, <2>3, RemovalKeepsOrder
    <3>2. ResolversResolve'
      BY <1>1, <1>2, <2>3 DEF ResolversResolve
    <3> QED BY <3>1, <3>2
  <2>12. LeaseMoves(t)
    BY <1>1, <1>2, <2>3, <2>4, UnchangedLeases
  <2>13. SlotMoves(t)
    BY <1>1, <1>2, <2>3 DEF SlotMoves, HoldsSlot
  <2>14. BucketMoves
    <3>1. \A k \in Models : slot'[k] # NoEntry =>
              /\ slot[k] # NoEntry /\ slot'[k] = slot[k] /\ state'[slot[k]] = state[slot[k]]
      <4> SUFFICES ASSUME NEW k \in Models, slot'[k] # NoEntry
                   PROVE  /\ slot[k] # NoEntry /\ slot'[k] = slot[k]
                          /\ state'[slot[k]] = state[slot[k]]
        OBVIOUS
      <4>1. k # m /\ slot'[k] = slot[k]
        BY <2>3
      <4>2. slot[k] \in Entries \ {e}
        BY <4>1, <2>1, <1>1
      <4> QED BY <4>1, <4>2, <2>3
    <3> QED BY <3>1, <1>2 DEF BucketMoves, InBucket, Staying, Retiring, Spare, Evictable
  <2> QED
    BY <2>5, <2>6, <2>7, <2>8, <2>9, <2>10, <2>11, <2>12, <2>13, <2>14, Summary
<1> QED
  BY <1>2, <1>3, <1>4 DEF Load, AbortReservation

\* A loaded entry is published and pinned at once.
LEMMA PublishReadyAndPinStep ==
    ASSUME IndInv, NEW t \in Threads, PublishReadyAndPin(t)
    PROVE  Preserves(t)
<1>1. Shape
  BY DEF IndInv
<1>2. PICK m \in Models : m = want[t]
  BY <1>1, CallFacts DEF PublishReadyAndPin
<1>3. PICK e \in Entries : e = holds[t]
  BY <1>1, CallFacts DEF PublishReadyAndPin
<1>4. /\ pc[t] = "publish" /\ victims[t] = {} /\ slot[m] = e /\ state[e] = "LOADING"
      /\ loader[m] = t
  BY <1>1, <1>2, <1>3, CallFacts DEF PublishReadyAndPin, HeldIsCurrent, LocksAreHeld
<1>5. /\ state' = [state EXCEPT ![e] = "READY"]
      /\ leases' = [leases EXCEPT ![e] = 1]
      /\ runtime' = [runtime EXCEPT ![e] = "loaded"]
      /\ Touch(m) /\ pc' = [pc EXCEPT ![t] = "execute"]
      /\ loader' = [loader EXCEPT ![m] = NoThread]
      /\ UNCHANGED <<slot, handed, executor, slots, calling, holds, victims, after>>
  BY <1>2, <1>3, <1>4 DEF PublishReadyAndPin
<1>6. \A k \in Models : slot[k] = e => k = m
  BY <1>1, <1>4 DEF EntriesAreOwned
<1>7. \A u \in Threads : (u # t => holds[u] # e) /\ e \notin victims[u]
  <2>1. ASSUME NEW u \in Threads \ {t}, holds[u] = e PROVE FALSE
    <3>1. pc[u] \in {"load", "publish"} /\ slot[want[u]] = e /\ want[u] \in Models
      BY <2>1, <1>1, <1>4, CallFacts DEF HeldIsCurrent, CallsAreWhole
    <3>2. loader[want[u]] = u /\ want[u] = m
      BY <3>1, <1>6, <1>1 DEF LocksAreHeld
    <3> QED BY <3>2, <1>4
  <2>2. \A u \in Threads : e \notin victims[u]
    BY <1>1, <1>4 DEF EntriesAreOwned
  <2> QED BY <2>1, <2>2
<1>8. /\ \A f \in Entries \ {e} : /\ state'[f] = state[f] /\ leases'[f] = leases[f]
                                  /\ runtime'[f] = runtime[f]
      /\ state'[e] = "READY" /\ leases'[e] = 1 /\ runtime'[e] = "loaded"
      /\ \A u \in Threads \ {t} : pc'[u] = pc[u]
      /\ pc'[t] = "execute"
  BY <1>1, <1>5
<1>9. TypeOK'
  BY <1>1, <1>5, TouchType
<1>10. CallsAreWhole'
  BY <1>1, <1>2, <1>4, <1>5, <1>8 DEF CallsAreWhole
<1>11. LocksAreHeld'
  <2>1. ASSUME NEW u \in Threads \ {t}, want[u] \in Models, loader[want[u]] = u
        PROVE  loader'[want[u]] = u
    BY <2>1, <1>1, <1>4, <1>5
  <2> QED BY <2>1, <1>1, <1>5, <1>8, LocksKept
<1>12. HeldIsCurrent'
  <2>1. ASSUME NEW u \in Threads \ {t}, holds[u] # NoEntry
        PROVE  state'[holds[u]] = state[holds[u]]
    <3>1. holds[u] \in Entries /\ holds[u] # e
      BY <2>1, <1>1, <1>7
    <3> QED BY <3>1, <1>8
  <2>2. slot'[want'[t]] = holds'[t] /\ state'[holds'[t]] = "READY"
    BY <1>2, <1>3, <1>4, <1>5, <1>8
  <2> QED BY <2>1, <2>2, <1>1, <1>5, <1>8, HoldersKept
<1>13. \A f : Current(f)' <=> Current(f)
  BY <1>5 DEF Current
<1>14. EntriesAreOwned'
  <2>1. ASSUME NEW f \in Entries, Current(f)
        PROVE  /\ state'[f] = "LOADING" =>
                     \E u \in Threads : pc'[u] \in {"load", "publish"} /\ holds[u] = f
               /\ state'[f] = "RETIRING" => \E u \in Threads : f \in victims[u]
               /\ state'[f] \in EVICTABLE_STATES => runtime'[f] = "loaded"
    <3>1. CASE f = e
      BY <3>1, <1>8
    <3>2. CASE f # e
      <4>1. state[f] = "LOADING" =>
                \E u \in Threads \ {t} : pc[u] \in {"load", "publish"} /\ holds[u] = f
        BY <3>2, <2>1, <1>1, <1>3 DEF EntriesAreOwned
      <4>2. /\ state[f] = "RETIRING" => \E u \in Threads : f \in victims[u]
            /\ state[f] \in EVICTABLE_STATES => runtime[f] = "loaded"
        BY <2>1, <1>1 DEF EntriesAreOwned
      <4> QED BY <4>1, <4>2, <3>2, <1>8
    <3> QED BY <3>1, <3>2
  <2>2. ASSUME NEW u \in Threads, NEW f \in victims[u]
        PROVE  /\ \A v \in Threads : f \in victims[v] => v = u
               /\ Current(f) <=> state'[f] = "RETIRING"
               /\ state'[f] # "LOADING"
    <3>1. state'[f] = state[f]
      BY <2>2, <1>1, <1>7, <1>8
    <3> QED BY <3>1, <2>2, <1>1 DEF EntriesAreOwned
  <2>3. \A k, l \in Models : slot[k] # NoEntry /\ slot[k] = slot[l] => k = l
    BY <1>1 DEF EntriesAreOwned
  <2> QED BY <2>1, <2>2, <2>3, <1>5, <1>13 DEF EntriesAreOwned
<1>15. NoRuntimeLeaks'
  <2>1. ASSUME NEW f \in Entries, runtime'[f] = "loaded"
        PROVE  Current(f) \/ \E u \in Threads : f \in victims[u]
    BY <2>1, <1>1, <1>4, <1>8 DEF NoRuntimeLeaks, Current
  <2> QED BY <2>1, <1>5 DEF NoRuntimeLeaks, Current
<1>16. ResolversResolve' /\ OrderIsStrict'
  <2>1. Cached(m)' /\ \A k \in Models \ {m} : slot'[k] = slot[k]
    BY <1>4, <1>5
  <2>2. OrderIsStrict'
    BY <2>1, <1>1, <1>5, TouchKeepsOrder
  <2>3. ResolversResolve'
    BY <1>1, <1>5, <1>8 DEF ResolversResolve
  <2> QED BY <2>2, <2>3
<1>17. LeaseMoves(t)
  <2>1. ASSUME NEW f \in Entries \ {e} PROVE Leaseholders(f)' = Leaseholders(f)
    BY <1>1, <1>3, <1>5, <1>8 DEF Leaseholders
  <2>2. Leaseholders(e)' = {t}
    BY <1>3, <1>5, <1>7, <1>8 DEF Leaseholders
  <2> QED BY <2>1, <2>2, <1>8, <1>13 DEF LeaseMoves
<1>18. SlotMoves(t)
  BY <1>1, <1>4, <1>5, <1>8 DEF SlotMoves, HoldsSlot
<1>19. BucketMoves
  <2>1. ASSUME NEW k \in Models, slot[k] # NoEntry
        PROVE  /\ state'[slot[k]] # "RETIRING" => state[slot[k]] # "RETIRING"
               /\ leases'[slot[k]] = 0 => leases[slot[k]] = 0 /\ state'[slot[k]] = state[slot[k]]
    <3>1. slot[k] \in Entries
      BY <2>1, <1>1
    <3>2. CASE slot[k] = e
      BY <3>2, <1>4, <1>8
    <3>3. CASE slot[k] # e
      BY <3>1, <3>3, <1>8
    <3> QED BY <3>2, <3>3
  <2> QED BY <2>1, <1>5 DEF BucketMoves, InBucket, Staying, Retiring, Spare, Evictable
<1> QED
  BY <1>9, <1>10, <1>11, <1>12, <1>14, <1>15, <1>16, <1>17, <1>18, <1>19, Summary

\* A victim is cleaned up, outside the metadata lock.
LEMMA CleanUpStep ==
    ASSUME IndInv, NEW t \in Threads, CleanUp(t)
    PROVE  Preserves(t)
<1>1. Shape
  BY DEF IndInv
<1>2. PICK e \in victims[t] :
          /\ runtime' = [runtime EXCEPT ![e] = "cleaned"]
          /\ IF state[e] = "RETIRING"
             THEN Goto(t, "unslot") /\ UNCHANGED victims
             ELSE /\ victims' = [victims EXCEPT ![t] = @ \ {e}]
                  /\ Goto(t, Onward(t, victims[t] \ {e}))
  BY DEF CleanUp
<1>3. /\ pc[t] = "clean" /\ e \in Entries /\ holds[t] = NoEntry
      /\ UNCHANGED <<slot, lru, state, leases, handed, locks, calling, holds, after>>
  BY <1>1, <1>2, CallFacts DEF CleanUp
<1>4. /\ runtime'[e] = "cleaned" /\ \A f \in Entries \ {e} : runtime'[f] = runtime[f]
      /\ \A u \in Threads \ {t} : pc'[u] = pc[u] /\ victims'[u] = victims[u]
      /\ victims'[t] = IF state[e] = "RETIRING" THEN victims[t] ELSE victims[t] \ {e}
      /\ \/ pc'[t] \in CleanPcs
         \/ pc'[t] = after[t] /\ victims'[t] = {}
  <2>1. CASE state[e] = "RETIRING"
    BY <2>1, <1>1, <1>2, <1>3
  <2>2. CASE state[e] # "RETIRING"
    BY <2>2, <1>1, <1>2, <1>3 DEF Onward
  <2> QED BY <2>1, <2>2
<1>5. /\ \A u \in Threads : e \in victims[u] => u = t
      /\ Current(e) <=> state[e] = "RETIRING"
  BY <1>1, <1>2 DEF EntriesAreOwned
<1>6. TypeOK'
  <2>1. CacheType' /\ LockType'
    BY <1>1, <1>2, <1>3
  <2>2. CallType'
    BY <1>1, <1>2, <1>3 DEF Onward
  <2> QED BY <2>1, <2>2
<1>7. CallsAreWhole'
  BY <1>1, <1>3, <1>4 DEF CallsAreWhole
<1>8. LocksAreHeld'
  BY <1>1, <1>3, <1>4 DEF LocksAreHeld
<1>9. HeldIsCurrent'
  BY <1>1, <1>3, <1>4 DEF HeldIsCurrent
<1>10. \A f : Current(f)' <=> Current(f)
  BY <1>3 DEF Current
<1>11. EntriesAreOwned'
  <2>1. ASSUME NEW f \in Entries, Current(f)
        PROVE  /\ state[f] = "LOADING" =>
                     \E u \in Threads : pc'[u] \in {"load", "publish"} /\ holds[u] = f
               /\ state[f] = "RETIRING" => \E u \in Threads : f \in victims'[u]
               /\ state[f] \in EVICTABLE_STATES => runtime'[f] = "loaded"
    <3>1. state[f] = "LOADING" =>
              \E u \in Threads \ {t} : pc[u] \in {"load", "publish"} /\ holds[u] = f
      BY <2>1, <1>1, <1>3 DEF EntriesAreOwned
    <3>2. state[f] = "RETIRING" => \E u \in Threads : f \in victims[u]
      BY <2>1, <1>1 DEF EntriesAreOwned
    <3>3. f = e => state[f] = "RETIRING"
      BY <2>1, <1>5
    <3>4. state[f] \in EVICTABLE_STATES => runtime[f] = "loaded" /\ f # e
      BY <3>3, <2>1, <1>1 DEF EntriesAreOwned
    <3>5. state[f] = "RETIRING" => \E u \in Threads : f \in victims'[u]
      BY <3>2, <1>4
    <3> QED BY <3>1, <3>4, <3>5, <1>4
  <2>2. ASSUME NEW u \in Threads, NEW f \in victims'[u]
        PROVE  /\ \A v \in Threads : f \in victims'[v] => v = u
               /\ Current(f) <=> state[f] = "RETIRING"
               /\ state[f] # "LOADING"
    <3>1. \A v \in Threads : victims'[v] \subseteq victims[v]
      BY <1>4
    <3>2. f \in victims[u]
      BY <3>1, <2>2
    <3>3. /\ \A v \in Threads : f \in victims[v] => v = u
          /\ Current(f) <=> state[f] = "RETIRING"
          /\ state[f] # "LOADING"
      BY <3>2, <1>1 DEF EntriesAreOwned
    <3> QED BY <3>1, <3>3
  <2>3. \A k, l \in Models : slot[k] # NoEntry /\ slot[k] = slot[l] => k = l
    BY <1>1 DEF EntriesAreOwned
  <2> QED BY <2>1, <2>2, <2>3, <1>3, <1>10 DEF EntriesAreOwned
<1>12. NoRuntimeLeaks'
  <2>1. ASSUME NEW f \in Entries, runtime'[f] = "loaded"
        PROVE  Current(f) \/ \E u \in Threads : f \in victims'[u]
    <3>1. f # e /\ runtime[f] = "loaded"
      BY <2>1, <1>4
    <3>2. Current(f) \/ \E u \in Threads : f \in victims[u]
      BY <3>1, <1>1 DEF NoRuntimeLeaks, Current
    <3> QED BY <3>1, <3>2, <1>4
  <2> QED BY <2>1, <1>3 DEF NoRuntimeLeaks, Current
<1>13. ResolversResolve' /\ OrderIsStrict'
  <2>1. OrderIsStrict'
    BY <1>1, <1>3, UnchangedOrder
  <2>2. ResolversResolve'
    BY <1>1, <1>3, <1>4 DEF ResolversResolve
  <2> QED BY <2>1, <2>2
<1>14. LeaseMoves(t)
  BY <1>1, <1>3, <1>4, <1>10, UnchangedLeases
<1>15. SlotMoves(t)
  BY <1>1, <1>3, <1>4 DEF SlotMoves, HoldsSlot
<1>16. BucketMoves
  BY <1>3, UnchangedBuckets
<1> QED
  BY <1>6, <1>7, <1>8, <1>9, <1>11, <1>12, <1>13, <1>14, <1>15, <1>16, Summary

\* ... and then removed, with the wake-up of those who wait for it.
LEMMA FinishRetirementStep ==
    ASSUME IndInv, NEW t \in Threads, FinishRetirement(t)
    PROVE  Preserves(t)
<1>1. Shape
  BY DEF IndInv
<1>2. PICK e \in victims[t] :
          /\ runtime[e] = "cleaned"
          /\ slot' = [m \in Models |-> IF slot[m] = e THEN NoEntry ELSE slot[m]]
          /\ lru' = Without({m \in Models : slot[m] = e})
          /\ victims' = [victims EXCEPT ![t] = @ \ {e}]
          /\ NotifyAll(t, Onward(t, victims[t] \ {e}))
  BY DEF FinishRetirement
<1>3. /\ pc[t] = "unslot" /\ e \in Entries /\ holds[t] = NoEntry
      /\ UNCHANGED <<state, leases, runtime, handed, locks, calling, holds, after>>
  BY <1>1, <1>2, CallFacts DEF FinishRetirement
<1>4. /\ \A u \in Threads \ {t} :
            /\ pc'[u] = IF pc[u] = "asleep" THEN "drain" ELSE pc[u]
            /\ victims'[u] = victims[u]
      /\ victims'[t] = victims[t] \ {e}
      /\ pc'[t] = "clean" \/ (pc'[t] = after[t] /\ victims'[t] = {})
      /\ \A k \in Models : slot'[k] = IF slot[k] = e THEN NoEntry ELSE slot[k]
  BY <1>1, <1>2, <1>3 DEF Onward, NotifyAll
<1>5. /\ \A u \in Threads : e \in victims[u] => u = t
      /\ Current(e) => state[e] = "RETIRING"
      /\ state[e] # "LOADING"
  BY <1>1, <1>2 DEF EntriesAreOwned
<1>6. \A f \in Entries : Current(f)' <=> Current(f) /\ f # e
  BY <1>1, <1>3, <1>4 DEF Current
<1>7. TypeOK'
  <2>1. CacheType' /\ LockType'
    BY <1>1, <1>2, <1>3 DEF Without
  <2>2. pc' \in [Threads -> Pcs]
    BY <1>1, <1>2 DEF NotifyAll, Onward
  <2>3. CallType'
    BY <2>2, <1>1, <1>2, <1>3
  <2> QED BY <2>1, <2>3
<1>8. CallsAreWhole'
  BY <1>1, <1>3, <1>4 DEF CallsAreWhole
<1>9. LocksAreHeld'
  BY <1>1, <1>3, <1>4 DEF LocksAreHeld
<1>10. HeldIsCurrent'
  <2>1. ASSUME NEW u \in Threads, holds[u] # NoEntry
        PROVE  slot'[want[u]] = slot[want[u]]
    <3>1. /\ want[u] \in Models /\ slot[want[u]] = holds[u] /\ Current(holds[u])
          /\ state[holds[u]] # "RETIRING"
      BY <2>1, <1>1, CallFacts DEF HeldIsCurrent, CallsAreWhole
    <3>2. holds[u] # e
      BY <3>1, <1>5
    <3> QED BY <3>1, <3>2, <1>4
  <2>2. \A u \in Threads \ {t} : pc'[u] \in LeasePcs \cup {"load", "publish"} => pc'[u] = pc[u]
    BY <1>4
  <2>3. pc'[t] \notin LeasePcs \cup {"load", "publish"} /\ holds'[t] = NoEntry
    BY <1>1, <1>3, <1>4
  <2> QED BY <2>1, <2>2, <2>3, <1>1, <1>3, HoldersKept
<1>11. EntriesAreOwned'
  <2>1. ASSUME NEW f \in Entries, Current(f), f # e
        PROVE  /\ state[f] = "LOADING" =>
                     \E u \in Threads : pc'[u] \in {"load", "publish"} /\ holds[u] = f
               /\ state[f] = "RETIRING" => \E u \in Threads : f \in victims'[u]
               /\ state[f] \in EVICTABLE_STATES => runtime[f] = "loaded"
    <3>1. state[f] = "LOADING" =>
              \E u \in Threads \ {t} : pc[u] \in {"load", "publish"} /\ holds[u] = f
      BY <2>1, <1>1, <1>3 DEF EntriesAreOwned
    <3>2. state[f] = "RETIRING" => \E u \in Threads : f \in victims[u]
      BY <2>1, <1>1 DEF EntriesAreOwned
    <3>3. state[f] \in EVICTABLE_STATES => runtime[f] = "loaded"
      BY <2>1, <1>1 DEF EntriesAreOwned
    <3>4. state[f] = "RETIRING" => \E u \in Threads : f \in victims'[u]
      BY <3>2, <2>1, <1>4
    <3> QED BY <3>1, <3>3, <3>4, <1>4
  <2>2. ASSUME NEW u \in Threads, NEW f \in victims'[u]
        PROVE  /\ \A v \in Threads : f \in victims'[v] => v = u
               /\ Current(f)' <=> state[f] = "RETIRING"
               /\ state[f] # "LOADING"
    <3>1. (\A v \in Threads : victims'[v] \subseteq victims[v]) /\ f \in Entries
      BY <2>2, <1>1, <1>4
    <3>2. f # e
      BY <2>2, <1>4, <1>5
    <3>3. f \in victims[u]
      BY <2>2, <3>1
    <3>4. /\ \A v \in Threads : f \in victims[v] => v = u
          /\ Current(f) <=> state[f] = "RETIRING"
          /\ state[f] # "LOADING"
      BY <3>3, <1>1 DEF EntriesAreOwned
    <3>5. Current(f)' <=> Current(f)
      BY <3>1, <3>2, <1>6
    <3> QED BY <3>1, <3>4, <3>5
  <2>3. \A k, l \in Models : slot'[k] # NoEntry /\ slot'[k] = slot'[l] => k = l
    BY <1>1, <1>4 DEF EntriesAreOwned
  <2> QED BY <2>1, <2>2, <2>3, <1>3, <1>6 DEF EntriesAreOwned
<1>12. NoRuntimeLeaks'
  <2>1. ASSUME NEW f \in Entries, runtime[f] = "loaded"
        PROVE  Current(f)' \/ \E u \in Threads : f \in victims'[u]
    <3>1. f # e
      BY <2>1, <1>2
    <3>2. Current(f) \/ \E u \in Threads : f \in victims[u]
      BY <2>1, <1>1 DEF NoRuntimeLeaks, Current
    <3> QED BY <3>1, <3>2, <1>4, <1>6
  <2> QED BY <2>1, <1>3 DEF NoRuntimeLeaks, Current
<1>13. ResolversResolve' /\ OrderIsStrict'
  <2>1. OrderIsStrict'
    BY <1>1, <1>2, <1>4, RemovalKeepsOrder
  <2>2. ResolversResolve'
    BY <1>1, <1>3, <1>4 DEF ResolversResolve
  <2> QED BY <2>1, <2>2
<1>14. LeaseMoves(t)
  BY <1>1, <1>3, <1>4, <1>6, UnchangedLeases
<1>15. SlotMoves(t)
  BY <1>1, <1>3, <1>4 DEF SlotMoves, HoldsSlot
<1>16. BucketMoves
  <2>1. \A k \in Models : slot'[k] # NoEntry => slot[k] # NoEntry /\ slot'[k] = slot[k]
    BY <1>4
  <2> QED BY <2>1, <1>3 DEF BucketMoves, InBucket, Staying, Retiring, Spare, Evictable
<1> QED
  BY <1>7, <1>8, <1>9, <1>10, <1>11, <1>12, <1>13, <1>14, <1>15, <1>16, Summary

-----------------------------------------------------------------------------
(* Eviction by rank *)

\* Of a finite set in a strict order, the elements with fewer than x
\* predecessors are all of it, or at least x: how _evict_bucket_overflow_locked
\* removes the entries of a bucket that are too many, the oldest first.
LEMMA LeastRanks ==
    ASSUME NEW S, IsFiniteSet(S), NEW R, NEW x \in Nat,
           \A k \in S : <<k, k>> \notin R,
           \A k, l, m \in S : <<k, l>> \in R /\ <<l, m>> \in R => <<k, m>> \in R,
           NEW Below, \A m \in S : \A k : k \in Below[m] <=> k \in S /\ <<k, m>> \in R,
           NEW V \in SUBSET S, \A m \in S : m \in V <=> Cardinality(Below[m]) < x
    PROVE  V = S \/ Cardinality(V) >= x
<1> DEFINE T == S \ V
           D == [m \in T |-> {k \in T : <<k, m>> \in R}]
           F == {D[m] : m \in T}
<1> SUFFICES ASSUME V # S PROVE Cardinality(V) >= x
  OBVIOUS
<1>1. T # {}
  OBVIOUS
<1>2. PICK m \in T : \A k \in T : ~(<<D[k], D[m]>> \in StrictSubsetOrdering(S))
  <2>1. \A k \in T : D[k] \in SUBSET S
    OBVIOUS
  <2> HIDE DEF D, T
  <2>2. F # {} /\ F \subseteq SUBSET S
    BY <1>1, <2>1
  <2>3. SUBSET S = FiniteSubsetsOf(S)
    BY FS_FiniteSubsetsOfFinite
  <2>4. IsWellFoundedOn(StrictSubsetOrdering(S), FiniteSubsetsOf(S))
    BY FS_StrictSubsetOrderingWellFounded
  <2>5. \E X \in F : \A Y \in F : ~(<<Y, X>> \in StrictSubsetOrdering(S))
    <3> HIDE DEF F
    <3> QED BY <2>2, <2>3, <2>4, WFMin
  <2> QED BY <2>5
<1>3. ASSUME NEW k \in T, <<k, m>> \in R PROVE FALSE
  <2>1. D[k] \subseteq D[m] /\ k \in D[m] /\ k \notin D[k]
    BY <1>3
  <2>2. D[k] \in SUBSET S /\ D[m] \in SUBSET S /\ D[k] # D[m]
    BY <2>1
  <2>3. <<D[k], D[m]>> \in StrictSubsetOrdering(S)
    BY <2>1, <2>2 DEF StrictSubsetOrdering
  <2> QED BY <2>3, <1>2
<1>4. Below[m] \in SUBSET V
  BY <1>3
<1>5. ~(Cardinality(Below[m]) < x)
  OBVIOUS
<1>6. IsFiniteSet(V) /\ IsFiniteSet(Below[m])
  BY <1>4, FS_Subset
<1>7. /\ Cardinality(Below[m]) <= Cardinality(V)
      /\ Cardinality(V) \in Nat /\ Cardinality(Below[m]) \in Nat
  BY <1>4, <1>6, FS_Subset, FS_CardinalityType
<1> QED
  BY <1>5, <1>7

\* The overflow victims are candidates, and afterwards there is no candidate
\* left or the bucket is within its budget.
LEMMA OverflowTrims ==
    ASSUME OrderIsStrict, NEW b \in Buckets, NEW ms \in SUBSET Models, NEW exclude,
           NEW counts
    PROVE  /\ OverflowVictims(b, ms, counts, exclude) \subseteq Evictable(ms \ exclude, counts)
           /\ \/ OverflowVictims(b, ms, counts, exclude) = Evictable(ms \ exclude, counts)
              \/ ~(Cardinality((ms \ Retiring(ms \ exclude))
                                  \ OverflowVictims(b, ms, counts, exclude)) > Budget[b])
<1>a. PICK V : V = OverflowVictims(b, ms, counts, exclude)
  OBVIOUS
<1>b. PICK S : S = Evictable(ms \ exclude, counts)
  OBVIOUS
<1>c. PICK R : R = Retiring(ms \ exclude)
  OBVIOUS
<1>1. PICK staying : staying = Cardinality(ms) - Cardinality(R)
  OBVIOUS
<1>2. PICK excess : excess = IF staying > Budget[b] THEN staying - Budget[b] ELSE 0
  OBVIOUS
<1>3. V = {m \in S : Cardinality({k \in S : <<k, m>> \in lru}) < excess}
  BY <1>a, <1>b, <1>c, <1>1, <1>2 DEF OverflowVictims, Older
<1>4. /\ S \in SUBSET ms /\ R \in SUBSET ms /\ S \cap R = {}
      /\ S \in SUBSET Models
  BY <1>b, <1>c DEF Evictable, Retiring
<1>5. IsFiniteSet(ms) /\ IsFiniteSet(S) /\ IsFiniteSet(R)
  <2>1. IsFiniteSet(ms)
    BY FS_Subset
  <2> QED BY <2>1, <1>4, FS_Subset
<1>6. /\ Cardinality(ms) \in Nat /\ Cardinality(R) \in Nat /\ Cardinality(R) <= Cardinality(ms)
      /\ Budget[b] \in Nat
  BY <1>4, <1>5, FS_Subset, FS_CardinalityType
<1>7. excess \in Nat
  BY <1>1, <1>2, <1>6
<1>8. /\ \A k \in S : <<k, k>> \notin lru
      /\ \A k, l, m \in S : <<k, l>> \in lru /\ <<l, m>> \in lru => <<k, m>> \in lru
  BY <1>4 DEF OrderIsStrict, Older
<1>9. V = S \/ Cardinality(V) >= excess
  <2>1. PICK Below : Below = [m \in S |-> {k \in S : <<k, m>> \in lru}]
    OBVIOUS
  <2>2. \A m \in S : Below[m] = {k \in S : <<k, m>> \in lru}
    BY <2>1
  <2>3. V \in SUBSET S /\ \A m \in S : m \in V <=> Cardinality(Below[m]) < excess
    BY <1>3, <2>2, Zenon
  <2>4. \A m \in S : \A k : k \in Below[m] <=> k \in S /\ <<k, m>> \in lru
    BY <2>2
  <2> QED BY <2>3, <2>4, <1>5, <1>7, <1>8, LeastRanks
<1>10. V \in SUBSET S
  BY <1>3
<1>11. Cardinality((ms \ R) \ V) = staying - Cardinality(V) /\ Cardinality(V) \in Nat
  <2>1. IsFiniteSet(V) /\ Cardinality(V) \in Nat
    BY <1>5, <1>10, FS_Subset, FS_CardinalityType
  <2>2. IsFiniteSet(ms \ R) /\ Cardinality(ms \ R) = Cardinality(ms) - Cardinality(ms \cap R)
    BY <1>5, FS_Difference
  <2>3. Cardinality((ms \ R) \ V) = Cardinality(ms \ R) - Cardinality((ms \ R) \cap V)
    BY <2>2, FS_Difference
  <2>4. ms \cap R = R /\ (ms \ R) \cap V = V
    BY <1>4, <1>10
  <2> QED BY <1>1, <2>1, <2>2, <2>3, <2>4
<1>12. ASSUME Cardinality(V) >= excess PROVE ~(Cardinality((ms \ R) \ V) > Budget[b])
  BY <1>1, <1>2, <1>6, <1>11, <1>12
<1> QED
  BY <1>a, <1>b, <1>c, <1>9, <1>10, <1>12

-----------------------------------------------------------------------------
(* The steps that evict by rank *)

\* The last lease of a bucket over its budget evicts what is too much, and
\* nobody holds what it evicts.
LEMMA ReleaseLeaseStep ==
    ASSUME IndInv, NEW t \in Threads, ReleaseLease(t)
    PROVE  Preserves(t)
<1>1. Shape /\ LeasesAreCounted
  BY DEF IndInv
<1>2. PICK m \in Models : m = want[t]
  BY <1>1, CallFacts DEF ReleaseLease
<1>3. PICK e \in Entries : e = holds[t]
  BY <1>1, CallFacts DEF ReleaseLease
<1>4. PICK b \in Buckets : b = BucketOf[m]
  OBVIOUS
<1>5. /\ pc[t] = "unlease" /\ victims[t] = {} /\ slot[m] = e /\ Current(e)
      /\ state[e] \in EVICTABLE_STATES /\ after[t] \in {"loadlock", "dismiss", "pause"}
  BY <1>1, <1>2, <1>3, CallFacts DEF ReleaseLease, HeldIsCurrent, CallsAreWhole
<1>6. leases[e] \in Nat \ {0}
  <2>1. leases[e] > 0
    BY <1>1, <1>3, <1>5, CountsMeanLeases
  <2> QED BY <2>1, <1>1
<1>7. \A k \in Models : slot[k] = e => k = m
  BY <1>1, <1>5 DEF EntriesAreOwned
<1>8. PICK counts : counts = [leases EXCEPT ![e] = IF @ = 0 THEN 0 ELSE @ - 1]
  OBVIOUS
<1>9. /\ counts \in [Entries -> Nat] /\ counts[e] = leases[e] - 1
      /\ \A f \in Entries \ {e} : counts[f] = leases[f]
  BY <1>1, <1>3, <1>6, <1>8
<1>10. PICK V : V = IF counts[e] # 0 THEN {} ELSE OverflowVictims(b, InBucket(b), counts, {})
  OBVIOUS
<1>11. PICK vs : vs = {slot[k] : k \in V}
  OBVIOUS
<1>12. /\ holds' = [holds EXCEPT ![t] = NoEntry]
       /\ leases' = counts
       /\ RetireFrom(vs)
       /\ victims' = [victims EXCEPT ![t] = vs]
       /\ NotifyAll(t, IF vs = {} THEN after[t] ELSE "clean")
       /\ UNCHANGED <<slot, lru, runtime, locks, calling, after>>
  BY <1>2, <1>3, <1>4, <1>5, <1>8, <1>10, <1>11 DEF ReleaseLease
<1>13. PICK S : S = Evictable(InBucket(b), counts)
  OBVIOUS
<1>14. PICK R : R = Retiring(InBucket(b))
  OBVIOUS
<1>15. /\ V \subseteq S
       /\ counts[e] = 0 => V = S \/ ~(Cardinality((InBucket(b) \ R) \ V) > Budget[b])
  <2>1. CASE counts[e] # 0
    BY <2>1, <1>10
  <2>2. CASE counts[e] = 0
    <3>1. InBucket(b) \in SUBSET Models /\ InBucket(b) \ {} = InBucket(b)
      BY DEF InBucket
    <3>2. V = OverflowVictims(b, InBucket(b), counts, {})
      BY <2>2, <1>10
    <3>3. OrderIsStrict
      BY <1>1
    <3>4. /\ OverflowVictims(b, InBucket(b), counts, {}) \subseteq Evictable(InBucket(b) \ {}, counts)
          /\ \/ OverflowVictims(b, InBucket(b), counts, {}) = Evictable(InBucket(b) \ {}, counts)
             \/ ~(Cardinality((InBucket(b) \ Retiring(InBucket(b) \ {}))
                                 \ OverflowVictims(b, InBucket(b), counts, {})) > Budget[b])
      BY <3>1, <3>3, OverflowTrims
    <3> QED BY <3>1, <3>2, <3>4, <1>13, <1>14
  <2> QED BY <2>1, <2>2
<1>16. \A k \in V : /\ k \in Models /\ BucketOf[k] = b /\ slot[k] \in Entries
                    /\ state[slot[k]] \in EVICTABLE_STATES /\ counts[slot[k]] = 0
  BY <1>1, <1>13, <1>15 DEF Evictable, InBucket
<1>17. /\ vs \in SUBSET Entries
       /\ \A f \in vs : Current(f) /\ state[f] \in EVICTABLE_STATES /\ counts[f] = 0
  BY <1>11, <1>16 DEF Current
<1>18. /\ \A f \in Entries : state'[f] = IF f \in vs THEN "RETIRING" ELSE state[f]
       /\ \A u \in Threads \ {t} :
             /\ pc'[u] = IF pc[u] = "asleep" THEN "drain" ELSE pc[u]
             /\ holds'[u] = holds[u] /\ victims'[u] = victims[u]
       /\ holds'[t] = NoEntry /\ victims'[t] = vs
       /\ \/ pc'[t] = after[t] /\ vs = {}
          \/ pc'[t] = "clean" /\ vs # {}
  BY <1>1, <1>12 DEF RetireFrom, NotifyAll
<1>19. TypeOK'
  <2>1. state' \in [Entries -> RuntimeStates]
    BY <1>1, <1>12 DEF RetireFrom
  <2>2. CacheType' /\ LockType'
    <3>1. handed' \subseteq Entries
      BY <1>1, <1>12 DEF RetireFrom
    <3> QED BY <3>1, <2>1, <1>1, <1>9, <1>12
  <2>3. pc' \in [Threads -> Pcs]
    BY <1>1, <1>5, <1>12 DEF NotifyAll
  <2>4. CallType'
    BY <2>3, <1>1, <1>12, <1>17
  <2> QED BY <2>2, <2>4
<1>20. CallsAreWhole'
  <2>1. \A u \in Threads \ {t} : /\ pc'[u] \in LeasePcs \cup {"load", "publish"} <=>
                                       pc[u] \in LeasePcs \cup {"load", "publish"}
                                 /\ pc'[u] \in CleanPcs \cup {"idle", "unlease"} => pc'[u] = pc[u]
                                 /\ pc[u] \in CleanPcs \cup {"idle"} => pc'[u] = pc[u]
    BY <1>18
  <2>2. want' = want /\ after' = after
    BY <1>12
  <2>3. ASSUME NEW u \in Threads \ {t}
        PROVE  /\ pc'[u] = "idle" \/ (pc'[u] \in CleanPcs /\ after'[u] = "idle") \/ want'[u] \in Models
               /\ holds'[u] # NoEntry <=> pc'[u] \in LeasePcs \cup {"load", "publish"}
               /\ victims'[u] # {} => pc'[u] \in CleanPcs
               /\ pc'[u] = "unlease" => after'[u] \in {"loadlock", "dismiss", "pause"}
    BY <2>1, <2>2, <1>1, <1>18 DEF CallsAreWhole
  <2>4. /\ want'[t] \in Models /\ holds'[t] = NoEntry /\ pc'[t] \notin LeasePcs \cup {"load", "publish"}
        /\ victims'[t] # {} => pc'[t] \in CleanPcs
    BY <1>2, <1>5, <1>12, <1>18
  <2> QED BY <2>3, <2>4 DEF CallsAreWhole
<1>21. LocksAreHeld'
  <2>1. \A u \in Threads \ {t} : pc'[u] \in LoadPcs \cup CleanPcs \cup ExecPcs => pc'[u] = pc[u]
    BY <1>18
  <2>2. /\ ~(pc'[t] \in LoadPcs \/ (pc'[t] \in CleanPcs /\ after'[t] \in {"recheck", "returned"}))
        /\ pc'[t] \notin ExecPcs
    BY <1>5, <1>12, <1>18
  <2> QED BY <2>1, <2>2, <1>1, <1>12, <1>18, LocksKept
<1>22. \A u \in Threads \ {t} : pc[u] \in LeasePcs => holds[u] \notin vs
  <2> SUFFICES ASSUME NEW u \in Threads \ {t}, pc[u] \in LeasePcs, holds[u] \in vs
               PROVE  FALSE
    OBVIOUS
  <2>1. holds[u] \in Entries /\ Current(holds[u]) /\ counts[holds[u]] = 0
    BY <1>17
  <2>2. CASE holds[u] = e
    <3>1. leases[e] = 1
      BY <2>1, <2>2, <1>6, <1>9
    <3> QED BY <3>1, <2>2, <1>1, <1>3, <1>5, CountsMeanLeases
  <2>3. CASE holds[u] # e
    <3>1. leases[holds[u]] = 0
      BY <2>1, <2>3, <1>9
    <3> QED BY <3>1, <2>1, <1>1, CountsMeanLeases
  <2> QED BY <2>2, <2>3
<1>23. HeldIsCurrent'
  <2>1. \A u \in Threads : pc'[u] \in LeasePcs \cup {"load", "publish"} =>
            /\ pc'[u] = pc[u] /\ holds'[u] = holds[u]
            /\ pc[u] \in LeasePcs => holds[u] \notin vs
    BY <1>5, <1>18, <1>22
  <2> QED BY <2>1, <1>1, <1>12, <1>17, <1>19, <1>20, RetirementKeepsHolders
<1>24. EntriesAreOwned' /\ NoRuntimeLeaks'
  <2>1. \A u \in Threads : pc[u] \in {"load", "publish"} =>
            pc'[u] \in {"load", "publish"} /\ holds'[u] = holds[u]
    BY <1>5, <1>18
  <2> QED BY <2>1, <1>1, <1>5, <1>12, <1>17, RetirementKeepsEntries
<1>25. ResolversResolve' /\ OrderIsStrict'
  <2>1. OrderIsStrict'
    BY <1>1, <1>12, UnchangedOrder
  <2>2. \A u \in Threads \ {t} : pc'[u] \in {"resolve", "get", "put", "returned"} \cup CleanPcs =>
            pc'[u] = pc[u]
    BY <1>18
  <2>3. /\ pc'[t] \notin {"resolve", "get", "put", "returned"} /\ after'[t] # "returned"
        /\ after' = after
    BY <1>5, <1>12, <1>18
  <2>4. ResolversResolve'
    BY <2>2, <2>3, <1>1 DEF ResolversResolve
  <2> QED BY <2>1, <2>4
<1>26. LeaseMoves(t)
  <2>1. \A f : Current(f)' <=> Current(f)
    BY <1>12 DEF Current
  <2>2. ASSUME NEW f \in Entries \ {e} PROVE Leaseholders(f)' = Leaseholders(f)
    <3>1. \A u \in Threads \ {t} : pc'[u] \in LeasePcs /\ holds'[u] = f <=> pc[u] \in LeasePcs /\ holds[u] = f
      BY <1>18
    <3>2. ~(pc'[t] \in LeasePcs /\ holds'[t] = f) /\ ~(pc[t] \in LeasePcs /\ holds[t] = f)
      BY <2>2, <1>3, <1>18
    <3> QED BY <3>1, <3>2 DEF Leaseholders
  <2>3. Leaseholders(e)' = Leaseholders(e) \ {t} /\ t \in Leaseholders(e)
    <3>1. \A u \in Threads \ {t} : pc'[u] \in LeasePcs /\ holds'[u] = e <=> pc[u] \in LeasePcs /\ holds[u] = e
      BY <1>18
    <3>2. ~(pc'[t] \in LeasePcs /\ holds'[t] = e) /\ pc[t] \in LeasePcs /\ holds[t] = e
      BY <1>3, <1>5, <1>18
    <3> QED BY <3>1, <3>2 DEF Leaseholders
  <2>4. leases'[e] = leases[e] - 1 /\ \A f \in Entries \ {e} : leases'[f] = leases[f]
    BY <1>9, <1>12
  <2> QED BY <2>1, <2>2, <2>3, <2>4, <1>5 DEF LeaseMoves
<1>27. SlotMoves(t)
  <2>1. HoldsSlot(t) /\ HoldsSlot(t)'
    BY <1>5, <1>12, <1>18 DEF HoldsSlot
  <2>2. \A u \in Threads \ {t} : HoldsSlot(u)' <=> HoldsSlot(u)
    BY <1>12, <1>18 DEF HoldsSlot
  <2> QED BY <2>1, <2>2, <1>12 DEF SlotMoves
<1>28. /\ \A k \in Models : slot[k] # NoEntry =>
             /\ state'[slot[k]] = IF k \in V THEN "RETIRING" ELSE state[slot[k]]
             /\ leases'[slot[k]] = counts[slot[k]]
             /\ k # m => counts[slot[k]] = leases[slot[k]]
       /\ slot' = slot
  <2> SUFFICES ASSUME NEW k \in Models, slot[k] # NoEntry
               PROVE  /\ state'[slot[k]] = IF k \in V THEN "RETIRING" ELSE state[slot[k]]
                      /\ k # m => counts[slot[k]] = leases[slot[k]]
    BY <1>12
  <2>1. slot[k] \in Entries
    BY <1>1
  <2>2. slot[k] \in vs <=> k \in V
    <3>1. k \in V => slot[k] \in vs
      BY <1>11
    <3>2. ASSUME NEW l \in V, slot[k] = slot[l] PROVE k = l
      BY <3>2, <1>1, <1>16 DEF EntriesAreOwned
    <3> QED BY <3>1, <3>2, <1>11
  <2> QED BY <2>1, <2>2, <1>7, <1>9, <1>18
<1>29. ASSUME NEW c \in Buckets, c # b
       PROVE  /\ InBucket(c)' = InBucket(c) /\ Staying(c)' = Staying(c) /\ Spare(c)' = Spare(c)
  <2>1. \A k \in Models : BucketOf[k] = c => k \notin V /\ k # m
    BY <1>4, <1>16, <1>29
  <2>2. \A k \in InBucket(c) : state'[slot[k]] = state[slot[k]] /\ leases'[slot[k]] = leases[slot[k]]
    BY <2>1, <1>28 DEF InBucket
  <2>3. InBucket(c)' = InBucket(c)
    BY <1>28 DEF InBucket
  <2> QED BY <2>2, <2>3, <1>28 DEF Staying, Retiring, Spare, Evictable
<1>30. InBucket(b)' = InBucket(b) /\ Staying(b)' = (InBucket(b) \ R) \ V /\ Spare(b)' = S \ V
  <2>1. InBucket(b)' = InBucket(b)
    BY <1>28 DEF InBucket
  <2>2. \A k \in InBucket(b) : k \in Models /\ slot[k] # NoEntry
    BY DEF InBucket
  <2>3. \A k \in InBucket(b) : /\ state'[slot'[k]] # "RETIRING" <=> k \notin R /\ k \notin V
                               /\ state'[slot'[k]] \in EVICTABLE_STATES /\ leases'[slot'[k]] = 0
                                     <=> k \in S /\ k \notin V
    BY <2>2, <1>13, <1>14, <1>28 DEF Retiring, Evictable
  <2>4. S \subseteq InBucket(b)
    BY <1>13 DEF Evictable
  <2> QED BY <2>1, <2>3, <2>4 DEF Staying, Retiring, Spare, Evictable
<1>31. OverflowIsTight'
  <2>1. ASSUME Cardinality(Staying(b)') > Budget[b]
        PROVE  \A k, l \in Spare(b)' : k = l
    <3>1. CASE counts[e] = 0
      BY <3>1, <2>1, <1>15, <1>30
    <3>2. CASE counts[e] # 0
      <4>1. V = {} /\ Staying(b)' = Staying(b)
        BY <3>2, <1>10, <1>14, <1>30 DEF Staying
      <4>2. S \subseteq Spare(b)
        <5> SUFFICES ASSUME NEW k \in S PROVE k \in Spare(b)
          OBVIOUS
        <5>1. k \in InBucket(b) /\ k \in Models /\ slot[k] # NoEntry /\ counts[slot[k]] = 0
              /\ state[slot[k]] \in EVICTABLE_STATES
          BY <1>13 DEF Evictable, InBucket
        <5>2. k # m
          BY <5>1, <3>2, <1>5
        <5> QED BY <5>1, <5>2, <1>28 DEF Spare, Evictable
      <4>3. \A k, l \in Spare(b) : k = l
        BY <4>1, <2>1 DEF OverflowIsTight, IndInv
      <4> QED BY <4>1, <4>2, <4>3, <1>30
    <3> QED BY <3>1, <3>2
  <2>2. ASSUME NEW c \in Buckets, Cardinality(Staying(c)') > Budget[c]
        PROVE  \A k, l \in Spare(c)' : k = l
    <3>1. CASE c = b
      BY <3>1, <2>1, <2>2
    <3>2. CASE c # b
      BY <3>2, <2>2, <1>29 DEF OverflowIsTight, IndInv
    <3> QED BY <3>1, <3>2
  <2> QED BY <2>2 DEF OverflowIsTight
<1>32. WithinBudget'
  <2>1. \A c \in Buckets : InBucket(c)' = InBucket(c)
    BY <1>29, <1>30
  <2> QED BY <2>1 DEF WithinBudget, IndInv
<1> QED
  BY <1>19, <1>20, <1>21, <1>23, <1>24, <1>25, <1>26, <1>27, <1>31, <1>32 DEF Preserves

\* put evicts or replaces what nobody holds, and what is left over the budget
\* is pinned, in transition, or the entry it has just put.
LEMMA PutStep ==
    ASSUME IndInv, NEW t \in Threads, Put(t)
    PROVE  Preserves(t)
<1>1. Shape /\ LeasesAreCounted
  BY DEF IndInv
<1>2. PICK m \in Models : m = want[t]
  BY <1>1, CallFacts DEF Put
<1>3. PICK b \in Buckets : b = BucketOf[m]
  OBVIOUS
<1>4. PICK V : V = OverflowVictims(b, InBucket(b) \cup {m}, leases, {m})
  OBVIOUS
<1>5. PICK vs : vs = {slot[k] : k \in V}
  OBVIOUS
<1>6. PICK old : old = Replaced(m)
  OBVIOUS
<1>7. /\ pc[t] = "put" /\ t \in Resolvers /\ loader[m] = t /\ holds[t] = NoEntry
      /\ victims[t] = {}
  BY <1>1, <1>2, CallFacts DEF Put, ResolversResolve, LocksAreHeld
<1>8. CASE Cached(m) /\ ~Unpinned(m)
  <2>1. /\ pc' = [pc EXCEPT ![t] = "returned"]
        /\ UNCHANGED <<cache, locks, calling, holds, victims, after>>
    BY <1>2, <1>8 DEF Put
  <2>2. TypeOK'
    BY <2>1, <1>1
  <2>3. CallsAreWhole' /\ LocksAreHeld'
    BY <2>1, <1>1, <1>7 DEF CallsAreWhole, LocksAreHeld
  <2>4. HeldIsCurrent'
    BY <2>1, <1>1, <1>7 DEF HeldIsCurrent
  <2>5. EntriesAreOwned' /\ NoRuntimeLeaks'
    BY <2>1, <1>1, <1>7, UnchangedEntries
  <2>6. ResolversResolve' /\ OrderIsStrict'
    BY <2>1, <1>1, <1>7, UnchangedOrder DEF ResolversResolve
  <2>7. LeaseMoves(t)
    BY <2>1, <1>1, <1>7, UnchangedLeases DEF Current
  <2>8. SlotMoves(t)
    BY <2>1, <1>1, <1>7 DEF SlotMoves, HoldsSlot
  <2>9. BucketMoves
    BY <2>1, UnchangedBuckets
  <2> QED BY <2>2, <2>3, <2>4, <2>5, <2>6, <2>7, <2>8, <2>9, Summary
<1>9. CASE ~(Cached(m) /\ ~Unpinned(m))
  <2>1. PICK e \in Entries :
          /\ Fresh(e)
          /\ slot' = [slot EXCEPT ![m] = e]
          /\ Touch(m)
          /\ state' = [f \in Entries |-> IF f = e THEN "READY"
                                         ELSE IF f \in vs THEN "RETIRING" ELSE state[f]]
          /\ leases' = [leases EXCEPT ![e] = 0]
          /\ runtime' = [runtime EXCEPT ![e] = "loaded"]
          /\ executor' = [executor EXCEPT ![e] = NoThread]
          /\ handed' = handed \ vs
          /\ Retire(t, vs \cup old, "returned")
          /\ Goto(t, IF vs \cup old = {} THEN "returned" ELSE "clean")
    BY <1>2, <1>3, <1>4, <1>5, <1>6, <1>9 DEF Put
  <2>2. UNCHANGED <<loader, slots, calling, holds>>
    BY DEF Put
  <2>3. /\ \A k \in Models : slot[k] # e
        /\ \A u \in Threads : holds[u] # e /\ e \notin victims[u]
    BY <2>1 DEF Fresh, Unreferenced
  \* What is evicted or replaced is unpinned.
  <2>4. PICK S : S = Evictable(InBucket(b) \ {m}, leases)
    OBVIOUS
  <2>5. PICK R : R = Retiring(InBucket(b) \ {m})
    OBVIOUS
  <2>6. /\ V \subseteq S
        /\ V = S \/ ~(Cardinality(((InBucket(b) \cup {m}) \ R) \ V) > Budget[b])
    <3>1. InBucket(b) \cup {m} \in SUBSET Models /\ OrderIsStrict
      BY <1>1 DEF InBucket
    <3>2. (InBucket(b) \cup {m}) \ {m} = InBucket(b) \ {m}
      OBVIOUS
    <3>3. PICK ms : ms = InBucket(b) \cup {m}
      OBVIOUS
    <3>4. /\ OverflowVictims(b, ms, leases, {m}) \subseteq Evictable(ms \ {m}, leases)
          /\ \/ OverflowVictims(b, ms, leases, {m}) = Evictable(ms \ {m}, leases)
             \/ ~(Cardinality((ms \ Retiring(ms \ {m}))
                                 \ OverflowVictims(b, ms, leases, {m})) > Budget[b])
      BY <3>1, <3>3, OverflowTrims
    <3> QED BY <3>2, <3>3, <3>4, <1>4, <2>4, <2>5
  <2>7. \A k \in V : /\ k \in Models \ {m} /\ BucketOf[k] = b /\ slot[k] \in Entries
                     /\ state[slot[k]] \in EVICTABLE_STATES /\ leases[slot[k]] = 0
    BY <1>1, <2>4, <2>6 DEF Evictable, InBucket
  <2>8. \A f \in vs : /\ f \in Entries /\ Current(f) /\ f # slot[m]
                      /\ state[f] \in EVICTABLE_STATES /\ leases[f] = 0
    <3> SUFFICES ASSUME NEW k \in V PROVE /\ slot[k] \in Entries /\ Current(slot[k])
                                          /\ slot[k] # slot[m]
                                          /\ state[slot[k]] \in EVICTABLE_STATES
                                          /\ leases[slot[k]] = 0
      BY <1>5
    <3>1. slot[k] # slot[m]
      BY <1>1, <2>7 DEF EntriesAreOwned
    <3> QED BY <3>1, <2>7 DEF Current
  <2>9. \A f \in old : /\ f \in Entries /\ Current(f) /\ f = slot[m]
                       /\ state[f] \in EVICTABLE_STATES /\ leases[f] = 0
    BY <1>1, <1>6, <1>9 DEF Replaced, Unpinned, Current
  <2>10. slot[m] # NoEntry => old = {slot[m]}
    BY <1>6 DEF Replaced
  <2>11. /\ \A k \in Models : slot'[k] = IF k = m THEN e ELSE slot[k]
         /\ \A f \in Entries \ {e} : /\ state'[f] = IF f \in vs THEN "RETIRING" ELSE state[f]
                                     /\ leases'[f] = leases[f] /\ runtime'[f] = runtime[f]
                                     /\ executor'[f] = executor[f]
         /\ state'[e] = "READY" /\ leases'[e] = 0 /\ runtime'[e] = "loaded"
         /\ \A u \in Threads \ {t} : /\ pc'[u] = pc[u] /\ victims'[u] = victims[u]
                                     /\ after'[u] = after[u]
         /\ victims'[t] = vs \cup old /\ after'[t] = "returned"
         /\ \/ pc'[t] = "returned" /\ vs \cup old = {}
            \/ pc'[t] = "clean" /\ vs \cup old # {}
    <3>1. /\ \A k \in Models : slot'[k] = IF k = m THEN e ELSE slot[k]
          /\ \A f \in Entries \ {e} : /\ leases'[f] = leases[f] /\ runtime'[f] = runtime[f]
                                      /\ executor'[f] = executor[f]
          /\ leases'[e] = 0 /\ runtime'[e] = "loaded"
      BY <1>1, <2>1
    <3>2. /\ \A f \in Entries \ {e} : state'[f] = IF f \in vs THEN "RETIRING" ELSE state[f]
          /\ state'[e] = "READY"
      BY <2>1
    <3>3. \A u \in Threads \ {t} : /\ pc'[u] = pc[u] /\ victims'[u] = victims[u]
                                    /\ after'[u] = after[u]
      BY <1>1, <2>1
    <3>4. /\ victims'[t] = vs \cup old /\ after'[t] = "returned"
          /\ pc'[t] = IF vs \cup old = {} THEN "returned" ELSE "clean"
      BY <1>1, <2>1
    <3> QED BY <3>1, <3>2, <3>3, <3>4
  <2>12. \A f \in Entries : Current(f)' <=> (Current(f) /\ f \notin old) \/ f = e
    <3>1. ASSUME NEW f \in Entries, Current(f), f \notin old PROVE Current(f)'
      <4>1. PICK k \in Models : slot[k] = f
        BY <3>1 DEF Current
      <4>2. k # m
        BY <4>1, <3>1, <1>1, <2>10
      <4> QED BY <4>1, <4>2, <2>11 DEF Current
    <3>2. ASSUME NEW f \in Entries, f \in old PROVE f # e /\ ~Current(f)'
      <4>1. f = slot[m] /\ f # e /\ f # NoEntry
        BY <3>2, <2>3, <2>9
      <4>2. \A k \in Models \ {m} : slot[k] # f
        BY <4>1, <1>1 DEF EntriesAreOwned
      <4> QED BY <4>1, <4>2, <2>11 DEF Current
    <3>3. ASSUME NEW f \in Entries, Current(f)', f # e PROVE Current(f)
      BY <3>3, <2>11 DEF Current
    <3>4. Current(e)'
      BY <2>11 DEF Current
    <3> QED BY <3>1, <3>2, <3>3, <3>4
  <2>13. TypeOK'
    <3>0. handed' \subseteq Entries
      BY <1>1, <2>1
    <3>1. CacheType' /\ LockType'
      BY <3>0, <1>1, <2>1, <2>2, TouchType
    <3>2. CallType'
      BY <1>1, <2>1, <2>2, <2>8, <2>9
    <3> QED BY <3>1, <3>2
  <2>14. CallsAreWhole'
    BY <1>1, <1>2, <1>7, <2>2, <2>11 DEF CallsAreWhole
  <2>15. ASSUME NEW u \in Threads, holds[u] # NoEntry
         PROVE  /\ u # t /\ want[u] \in Models \ {m} /\ holds[u] \in Entries \ ({e} \cup vs \cup old)
    <3>1. /\ u # t /\ want[u] \in Models /\ holds[u] \in Entries /\ slot[want[u]] = holds[u]
          /\ Current(holds[u]) /\ pc[u] \in LeasePcs \cup {"load", "publish"}
      BY <2>15, <1>1, <1>7, CallFacts DEF CallsAreWhole
    <3>2. ~(leases[holds[u]] = 0 /\ state[holds[u]] \in EVICTABLE_STATES)
      <4>1. CASE pc[u] \in LeasePcs
        BY <4>1, <3>1, <1>1, CountsMeanLeases
      <4>2. CASE pc[u] \in {"load", "publish"}
        BY <4>2, <1>1 DEF HeldIsCurrent
      <4> QED BY <4>1, <4>2, <3>1
    <3>3. holds[u] \notin vs \cup old
      BY <3>2, <2>8, <2>9
    <3>4. want[u] # m
      BY <3>1, <3>3, <2>10, <2>15
    <3> QED BY <3>1, <3>3, <3>4, <2>3
  <2>16. LocksAreHeld'
    <3>1. \A u \in Threads \ {t} : holds[u] # NoEntry => executor'[holds[u]] = executor[holds[u]]
      BY <2>11, <2>15
    <3>2. loader'[want'[t]] = t /\ pc'[t] \notin ExecPcs
      BY <1>2, <1>7, <2>2, <2>11
    <3> QED BY <3>1, <3>2, <1>1, <2>2, <2>11, LocksKept
  <2>17. HeldIsCurrent'
    <3>1. ASSUME NEW u \in Threads \ {t}
          PROVE  /\ holds'[u] = holds[u] /\ want'[u] = want[u] /\ pc'[u] = pc[u]
                 /\ holds[u] # NoEntry =>
                       slot'[want[u]] = slot[want[u]] /\ state'[holds[u]] = state[holds[u]]
      BY <2>2, <2>11, <2>15
    <3>2. holds'[t] = NoEntry /\ pc'[t] \notin LeasePcs \cup {"load", "publish"}
      BY <1>7, <2>2, <2>11
    <3> QED BY <3>1, <3>2, <1>1, HoldersKept
  <2>18. EntriesAreOwned'
    <3>1. ASSUME NEW f \in Entries, Current(f)'
          PROVE  /\ state'[f] = "LOADING" =>
                       \E u \in Threads : pc'[u] \in {"load", "publish"} /\ holds[u] = f
                 /\ state'[f] = "RETIRING" => \E u \in Threads : f \in victims'[u]
                 /\ state'[f] \in EVICTABLE_STATES => runtime'[f] = "loaded"
      <4>1. CASE f = e
        BY <4>1, <2>11
      <4>2. CASE f # e /\ f \in vs
        BY <4>2, <2>11
      <4>3. CASE f # e /\ f \notin vs
        <5>1. Current(f) /\ f \notin old /\ state'[f] = state[f] /\ runtime'[f] = runtime[f]
          BY <4>3, <3>1, <2>11, <2>12
        <5>2. state[f] = "LOADING" =>
                  \E u \in Threads \ {t} : pc[u] \in {"load", "publish"} /\ holds[u] = f
          BY <5>1, <1>1, <1>7 DEF EntriesAreOwned
        <5>3. /\ state[f] = "RETIRING" => \E u \in Threads \ {t} : f \in victims[u]
              /\ state[f] \in EVICTABLE_STATES => runtime[f] = "loaded"
          BY <5>1, <1>1, <1>7 DEF EntriesAreOwned
        <5> QED BY <5>1, <5>2, <5>3, <2>11
      <4> QED BY <4>1, <4>2, <4>3
    <3>2. ASSUME NEW u \in Threads, NEW f \in victims'[u]
          PROVE  /\ \A v \in Threads : f \in victims'[v] => v = u
                 /\ Current(f)' <=> state'[f] = "RETIRING"
                 /\ state'[f] # "LOADING"
      <4>1. ASSUME NEW v \in Threads, NEW g \in vs \cup old PROVE g \notin victims[v]
        <5>1. Current(g) /\ state[g] # "RETIRING"
          BY <2>8, <2>9
        <5> QED BY <5>1, <1>1 DEF EntriesAreOwned
      <4>2. CASE u = t
        <5>1. f \in vs \cup old /\ f \in Entries /\ f # e
          BY <4>2, <3>2, <2>3, <2>8, <2>9, <2>11 DEF Current
        <5>2. \A v \in Threads : f \in victims'[v] => v = u
          BY <5>1, <4>1, <4>2, <2>11
        <5>3. CASE f \in vs
          BY <5>1, <5>2, <5>3, <2>8, <2>9, <2>11, <2>12
        <5>4. CASE f \in old
          <6>1. f \notin vs /\ ~Current(f)'
            BY <5>1, <5>4, <2>8, <2>9, <2>12
          <6> QED BY <6>1, <5>1, <5>2, <5>4, <2>9, <2>11
        <5> QED BY <5>1, <5>3, <5>4
      <4>3. CASE u # t
        <5>1. f \in victims[u] /\ f \in Entries /\ f # e /\ f \notin vs \cup old
          BY <4>1, <4>3, <3>2, <1>1, <2>3, <2>11
        <5>2. state'[f] = state[f] /\ (Current(f)' <=> Current(f))
          BY <5>1, <2>11, <2>12
        <5>3. /\ \A v \in Threads : f \in victims[v] => v = u
              /\ Current(f) <=> state[f] = "RETIRING"
              /\ state[f] # "LOADING"
          BY <5>1, <1>1 DEF EntriesAreOwned
        <5> QED BY <5>1, <5>2, <5>3, <2>11
      <4> QED BY <4>2, <4>3
    <3>3. \A k, l \in Models : slot'[k] # NoEntry /\ slot'[k] = slot'[l] => k = l
      BY <1>1, <2>3, <2>11 DEF EntriesAreOwned
    <3> QED BY <3>1, <3>2, <3>3, <2>2 DEF EntriesAreOwned
  <2>19. NoRuntimeLeaks'
    <3>1. ASSUME NEW f \in Entries, runtime'[f] = "loaded"
          PROVE  Current(f)' \/ \E u \in Threads : f \in victims'[u]
      <4>1. CASE f = e
        BY <4>1, <2>12
      <4>2. CASE f # e
        <5>1. Current(f) \/ \E u \in Threads \ {t} : f \in victims[u]
          BY <4>2, <3>1, <1>1, <1>7, <2>11 DEF NoRuntimeLeaks, Current
        <5> QED BY <5>1, <2>11, <2>12
      <4> QED BY <4>1, <4>2
    <3> QED BY <3>1 DEF NoRuntimeLeaks, Current
  <2>20. ResolversResolve' /\ OrderIsStrict'
    <3>1. Cached(m)' /\ \A k \in Models \ {m} : slot'[k] = slot[k]
      BY <2>11
    <3>2. OrderIsStrict'
      BY <3>1, <1>1, <2>1, TouchKeepsOrder
    <3>3. ResolversResolve'
      BY <1>1, <1>7, <2>11 DEF ResolversResolve
    <3> QED BY <3>2, <3>3
  <2>21. LeaseMoves(t)
    <3>1. ASSUME NEW f \in Entries PROVE Leaseholders(f)' = Leaseholders(f)
      <4>1. pc'[t] \notin LeasePcs /\ pc[t] \notin LeasePcs
        BY <1>7, <2>11
      <4> QED BY <4>1, <2>2, <2>11 DEF Leaseholders
    <3>2. Leaseholders(e) = {}
      BY <2>3 DEF Leaseholders
    <3> QED BY <3>1, <3>2, <2>11, <2>12 DEF LeaseMoves
  <2>22. SlotMoves(t)
    BY <1>7, <2>2, <2>11 DEF SlotMoves, HoldsSlot
  <2>23. ASSUME NEW k \in Models \ {m}, slot[k] # NoEntry
         PROVE  /\ slot'[k] = slot[k]
                /\ state'[slot[k]] = IF k \in V THEN "RETIRING" ELSE state[slot[k]]
                /\ leases'[slot[k]] = leases[slot[k]]
    <3>1. slot[k] \in Entries \ {e}
      BY <2>23, <2>3, <1>1
    <3>2. slot[k] \in vs <=> k \in V
      <4>1. ASSUME NEW l \in V, slot[k] = slot[l] PROVE k = l
        BY <4>1, <2>23, <1>1, <2>7 DEF EntriesAreOwned
      <4> QED BY <4>1, <1>5
    <3> QED BY <3>1, <3>2, <2>11
  <2>24. ASSUME NEW c \in Buckets, c # b
         PROVE  Staying(c)' = Staying(c) /\ Spare(c)' = Spare(c)
    <3>1. \A k \in Models : BucketOf[k] = c => k \notin V /\ k # m
      BY <1>3, <2>7, <2>24
    <3>2. \A k \in InBucket(c) : /\ slot'[k] = slot[k] /\ state'[slot[k]] = state[slot[k]]
                                 /\ leases'[slot[k]] = leases[slot[k]]
      BY <3>1, <2>23 DEF InBucket
    <3>3. InBucket(c)' = InBucket(c)
      BY <3>1, <2>11 DEF InBucket
    <3> QED BY <3>2, <3>3 DEF Staying, Retiring, Spare, Evictable
  <2>25. /\ Staying(b)' = ((InBucket(b) \cup {m}) \ R) \ V
         /\ Spare(b)' \subseteq (S \ V) \cup {m}
    <3>1. InBucket(b)' = InBucket(b) \cup {m}
      BY <1>1, <1>3, <2>11 DEF InBucket
    <3>2. \A k \in InBucket(b) \ {m} :
              /\ state'[slot'[k]] # "RETIRING" <=> k \notin R /\ k \notin V
              /\ state'[slot'[k]] \in EVICTABLE_STATES /\ leases'[slot'[k]] = 0
                    <=> k \in S /\ k \notin V
      BY <2>4, <2>5, <2>23 DEF Retiring, Evictable, InBucket
    <3>3. /\ m \notin R /\ m \notin V
          /\ state'[slot'[m]] # "RETIRING"
      BY <2>5, <2>7, <2>11 DEF Retiring
    <3> QED BY <3>1, <3>2, <3>3 DEF Staying, Retiring, Spare, Evictable
  <2>26. OverflowIsTight'
    <3>1. ASSUME NEW c \in Buckets, Cardinality(Staying(c)') > Budget[c]
          PROVE  \A k, l \in Spare(c)' : k = l
      <4>1. CASE c = b
        BY <4>1, <3>1, <2>6, <2>25
      <4>2. CASE c # b
        BY <4>2, <3>1, <2>24 DEF OverflowIsTight, IndInv
      <4> QED BY <4>1, <4>2
    <3> QED BY <3>1 DEF OverflowIsTight
  <2>27. WithinBudget'
    BY <1>7 DEF WithinBudget
  <2> QED
    BY <2>13, <2>14, <2>16, <2>17, <2>18, <2>19, <2>20, <2>21, <2>22, <2>26, <2>27 DEF Preserves
<1> QED
  BY <1>8, <1>9

-----------------------------------------------------------------------------
(* The theorems *)

\* Every step of a thread has the summary Preserves: one case per action.
LEMMA NextPreserves ==
    ASSUME IndInv, Next
    PROVE  \E t \in Threads : Preserves(t)
<1>1. PICK t \in Threads :
          \/ CallStep(t) \/ TimeOut(t) \/ UnloadAll(t)
          \/ \E m \in Models : AcquireRuntime(t, m) \/ ResolveRuntime(t, m) \/ Unload(t, m)
                                 \/ ReleaseHandle(m)
  BY DEF Next
<1>2. CallStep(t) => Preserves(t)
  BY AdmitStep, TakeLoadLockStep, PinReadyStep, MeetDrainingStep, RetireVictimStep,
     ReserveLoadingStep, RefuseBusyStep, LoadStep, PublishReadyAndPinStep,
     TakeExecutionLockStep, RevalidateStep, ExitHandleStep, ReleaseExecutionLockStep,
     ReleaseLeaseStep, DismissStep, PauseStep, WaitForDrainStep, CleanUpStep,
     FinishRetirementStep, ResolveGetStep, PutStep, ResolveReturnStep
  DEF CallStep
<1>3. TimeOut(t) \/ UnloadAll(t) => Preserves(t)
  BY TimeOutStep, UnloadAllStep
<1>4. ASSUME NEW m \in Models,
             \/ AcquireRuntime(t, m) \/ ResolveRuntime(t, m) \/ Unload(t, m)
             \/ ReleaseHandle(m)
      PROVE  Preserves(t)
  BY <1>4, AcquireRuntimeStep, ResolveRuntimeStep, UnloadStep, ReleaseHandleStep
<1> QED BY <1>1, <1>2, <1>3, <1>4

\* The invariant is kept by any step with the summary Preserves.
LEMMA PreservesIndInv ==
    ASSUME IndInv, NEW t \in Threads, Preserves(t)
    PROVE  IndInv'
<1>1. Shape' /\ OverflowIsTight' /\ WithinBudget' /\ LeaseMoves(t) /\ SlotMoves(t)
  BY DEF Preserves
<1>2. SlotsAreAccounted'
  BY <1>1, SlotsStayAccounted DEF IndInv
<1>3. LeasesAreCounted'
  <2>1. \A e \in Entries : Current(e)' => leases'[e] = Cardinality(Leaseholders(e)')
    BY <1>1, LeasesStayCounted
  <2>2. ASSUME NEW e \in Entries, Leaseholders(e)' # {} PROVE Current(e)'
    <3>1. PICK u \in Threads : pc'[u] \in LeasePcs /\ holds'[u] = e
      BY <2>2 DEF Leaseholders
    <3>2. slot'[want'[u]] = e /\ want'[u] \in Models
      BY <3>1, <1>1 DEF HeldIsCurrent, CallsAreWhole
    <3> QED BY <3>2 DEF Current
  <2> QED BY <2>1, <2>2 DEF LeasesAreCounted, Current
<1> QED BY <1>1, <1>2, <1>3 DEF IndInv

\* An empty cache, free locks and slots and idle threads satisfy the invariant.
LEMMA InitIndInv == Init => IndInv
<1> SUFFICES ASSUME Init PROVE IndInv
  OBVIOUS
<1> USE DEF Init
<1>1. TypeOK
  OBVIOUS
<1>2. Control
  BY DEF CallsAreWhole, LocksAreHeld, HeldIsCurrent, EntriesAreOwned, Current
<1>3. NoRuntimeLeaks /\ ResolversResolve /\ OrderIsStrict
  BY DEF NoRuntimeLeaks, ResolversResolve, OrderIsStrict, Older
<1>4. LeasesAreCounted
  BY DEF LeasesAreCounted, Leaseholders
<1>5. SlotsAreAccounted
  <2>1. {t \in Threads : HoldsSlot(t)} = {}
    BY DEF HoldsSlot
  <2>2. Capacity - slots = 0
    OBVIOUS
  <2> QED BY <2>1, <2>2, FS_EmptySet DEF SlotsAreAccounted
<1>6. ASSUME NEW b \in Buckets
      PROVE  /\ Cardinality(InBucket(b)) <= Budget[b]
             /\ ~(Cardinality(Staying(b)) > Budget[b])
  <2>1. InBucket(b) = {} /\ Staying(b) = {}
    BY DEF InBucket, Staying
  <2>2. Cardinality(InBucket(b)) = 0 /\ Cardinality(Staying(b)) = 0 /\ Budget[b] \in Nat
    BY <2>1, FS_EmptySet
  <2> QED BY <2>2
<1>7. OverflowIsTight /\ WithinBudget
  BY <1>6 DEF OverflowIsTight, WithinBudget
<1> QED BY <1>1, <1>2, <1>3, <1>4, <1>5, <1>7 DEF IndInv

\* The invariant is inductive.
LEMMA NextIndInv == IndInv /\ [Next]_vars => IndInv'
<1>1. IndInv /\ Next => IndInv'
  BY NextPreserves, PreservesIndInv
<1>2. IndInv /\ UNCHANGED vars => IndInv'
  <2> SUFFICES ASSUME IndInv, UNCHANGED vars PROVE IndInv'
    OBVIOUS
  <2> USE DEF vars, IndInv
  <2>1. TypeOK' /\ ResolversResolve'
    BY DEF ResolversResolve
  <2>2. \A e : (Current(e)' <=> Current(e)) /\ Leaseholders(e)' = Leaseholders(e)
    BY DEF Current, Leaseholders
  <2>3. Control'
    BY <2>2 DEF CallsAreWhole, LocksAreHeld, HeldIsCurrent, EntriesAreOwned
  <2>4. NoRuntimeLeaks' /\ OrderIsStrict'
    BY UnchangedOrder DEF NoRuntimeLeaks
  <2>5. LeasesAreCounted'
    BY <2>2 DEF LeasesAreCounted
  <2>6. SlotsAreAccounted'
    BY DEF SlotsAreAccounted, HoldsSlot
  <2>7. OverflowIsTight' /\ WithinBudget'
    BY UnchangedBuckets, BucketsKept
  <2> QED BY <2>1, <2>3, <2>4, <2>5, <2>6, <2>7
<1> QED BY <1>1, <1>2

\* IndInv holds in every reachable state of the cache.
THEOREM Invariance == Spec => []IndInv
  BY InitIndInv, NextIndInv, PTL DEF Spec

\* The runtime that a caller works with (RuntimeHandle.runtime) is its own, loaded
\* and current: no eviction, unload or put ever takes it away.  It is ready unless
\* a handle of it, this one or one of an earlier use, was released with an
\* exception meanwhile; then it is invalid, and still loaded and current.
THEOREM ExclusiveUse == Spec => []UseIsExclusive
<1>1. IndInv => UseIsExclusive
  <2> SUFFICES ASSUME IndInv, NEW t \in Threads, pc[t] \in UsePcs
               PROVE  LET e == holds[t] IN
                      /\ executor[e] = t
                      /\ \A u \in Threads \ {t} : ~(pc[u] \in ExecPcs /\ holds[u] = e)
                      /\ slot[want[t]] = e
                      /\ state[e] = IF pc[t] = "using" THEN "READY" ELSE "INVALID"
                      /\ runtime[e] = "loaded"
    BY DEF UseIsExclusive
  <2>1. Shape
    BY DEF IndInv
  <2>2. /\ holds[t] \in Entries /\ slot[want[t]] = holds[t] /\ Current(holds[t])
        /\ executor[holds[t]] = t
        /\ state[holds[t]] = IF pc[t] = "using" THEN "READY" ELSE "INVALID"
    BY <2>1, CallFacts DEF LocksAreHeld, HeldIsCurrent
  <2>3. runtime[holds[t]] = "loaded"
    <3>1. state[holds[t]] \in EVICTABLE_STATES
      BY <2>2
    <3>2. \A e \in Entries : Current(e) /\ state[e] \in EVICTABLE_STATES => runtime[e] = "loaded"
      BY <2>1 DEF EntriesAreOwned
    <3> QED BY <2>2, <3>1, <3>2
  <2>4. \A u \in Threads \ {t} : ~(pc[u] \in ExecPcs /\ holds[u] = holds[t])
    BY <2>1, OneUser
  <2> QED BY <2>2, <2>3, <2>4
<1> QED BY <1>1, Invariance, PTL

\* A loader is at work on every LOADING entry of the cache and one thread on
\* the retirement of every RETIRING one, so "busy, try again" is never an answer
\* that nobody is about to change.
THEOREM OwnedTransitions == Spec => []TransitionsAreOwned
<1>1. IndInv => TransitionsAreOwned
  <2> SUFFICES ASSUME IndInv, NEW m \in Models, slot[m] # NoEntry
               PROVE  LET e == slot[m] IN
                      /\ state[e] = "LOADING" =>
                            \E t \in Threads : /\ pc[t] \in {"load", "publish"} /\ holds[t] = e
                                               /\ loader[m] = t
                      /\ state[e] = "RETIRING" => \E t \in Threads : e \in victims[t]
                      /\ \A t, u \in Threads : e \in victims[t] \cap victims[u] => t = u
    BY DEF TransitionsAreOwned
  <2>1. Shape
    BY DEF IndInv
  <2>2. slot[m] \in Entries /\ Current(slot[m])
    BY <2>1 DEF Current
  <2>3. ASSUME state[slot[m]] = "LOADING"
        PROVE  \E t \in Threads : /\ pc[t] \in {"load", "publish"} /\ holds[t] = slot[m]
                                  /\ loader[m] = t
    <3>1. PICK t \in Threads : pc[t] \in {"load", "publish"} /\ holds[t] = slot[m]
      BY <2>1, <2>2, <2>3 DEF EntriesAreOwned
    <3>2. want[t] \in Models /\ slot[want[t]] = slot[m] /\ loader[want[t]] = t
      BY <3>1, <2>1, CallFacts DEF LocksAreHeld
    <3>3. want[t] = m
      BY <3>2, <2>1 DEF EntriesAreOwned
    <3> QED BY <3>1, <3>2, <3>3
  <2>4. state[slot[m]] = "RETIRING" => \E t \in Threads : slot[m] \in victims[t]
    BY <2>1, <2>2 DEF EntriesAreOwned
  <2>5. \A t, u \in Threads : slot[m] \in victims[t] \cap victims[u] => t = u
    BY <2>1 DEF EntriesAreOwned
  <2> QED BY <2>3, <2>4, <2>5
<1> QED BY <1>1, Invariance, PTL

\* Every loaded runtime is in the cache or about to be cleaned up, whichever
\* path took its entry out: the memory of a model is always returned.
THEOREM RuntimesAreReturned == Spec => []NoRuntimeLeaks
<1>1. IndInv => NoRuntimeLeaks
  BY DEF IndInv
<1> QED BY <1>1, Invariance, PTL

\* A bucket that is over its budget contains something pinned or loading: put
\* leaves nothing behind that the eviction could have taken, and the last
\* release of a lease takes what put could not.
LEMMA TightOverflowIsPinned == ASSUME IndInv PROVE OverflowIsPinned
<1> SUFFICES ASSUME NEW b \in Buckets, Cardinality(Staying(b)) > Budget[b],
                    \A m \in InBucket(b) : ~(leases[slot[m]] > 0 \/ state[slot[m]] = "LOADING")
             PROVE  FALSE
  BY DEF OverflowIsPinned, Staying
<1>1. Staying(b) \subseteq Spare(b)
  <2> SUFFICES ASSUME NEW m \in Staying(b) PROVE m \in Spare(b)
    OBVIOUS
  <2>1. m \in InBucket(b) /\ slot[m] \in Entries /\ state[slot[m]] # "RETIRING"
    BY DEF Staying, Retiring, InBucket, IndInv
  <2>2. leases[slot[m]] = 0 /\ state[slot[m]] \in EVICTABLE_STATES
    <3>1. leases[slot[m]] \in Nat /\ state[slot[m]] \in RuntimeStates
      BY <2>1 DEF IndInv
    <3> QED BY <2>1, <3>1
  <2> QED BY <2>1, <2>2 DEF Spare, Evictable
<1>2. \A m, k \in Staying(b) : m = k
  BY <1>1 DEF IndInv, OverflowIsTight
<1>3. Staying(b) = {} \/ \E m : Staying(b) = {m}
  <2> DEFINE T == Staying(b)
  <2>1. \A m, k \in T : m = k
    BY <1>2
  <2> HIDE DEF T
  <2>2. T = {} \/ \E m : T = {m}
    BY <2>1
  <2> QED BY <2>2 DEF T
<1>4. Cardinality(Staying(b)) \in {0, 1}
  BY <1>3, FS_EmptySet, FS_Singleton
<1> QED BY <1>4

\* The reservation of a model never meets a LOADING entry, because its loader
\* would hold the same load lock.
LEMMA LoadLockKeepsLoading == ASSUME IndInv PROVE ReservesUnderLoadLock
<1> SUFFICES ASSUME NEW t \in Threads, pc[t] = "reserve", slot[want[t]] # NoEntry,
                    state[slot[want[t]]] = "LOADING"
             PROVE  FALSE
  BY DEF ReservesUnderLoadLock
<1>1. Shape
  BY DEF IndInv
<1>2. want[t] \in Models /\ loader[want[t]] = t
  BY <1>1, CallFacts DEF LocksAreHeld
<1>3. slot[want[t]] \in Entries /\ Current(slot[want[t]])
  BY <1>1, <1>2 DEF Current
<1>4. PICK u \in Threads : pc[u] \in {"load", "publish"} /\ holds[u] = slot[want[t]]
  <2>1. \A e \in Entries : Current(e) /\ state[e] = "LOADING" =>
            \E u \in Threads : pc[u] \in {"load", "publish"} /\ holds[u] = e
    BY <1>1 DEF EntriesAreOwned
  <2> QED BY <2>1, <1>3
<1>5. want[u] \in Models /\ slot[want[u]] = slot[want[t]] /\ loader[want[u]] = u
  BY <1>1, <1>4, CallFacts DEF LocksAreHeld
<1>6. want[u] = want[t]
  BY <1>1, <1>2, <1>5 DEF EntriesAreOwned
<1> QED BY <1>2, <1>4, <1>5, <1>6

\* Every lease count is the number of threads that will release the entry, and
\* what follows from it for buckets over their budget and for reservations.
THEOREM SoundPins == Spec => []PinsAreSound
<1>1. IndInv => PinsAreSound
  BY TightOverflowIsPinned, LoadLockKeepsLoading DEF PinsAreSound
<1> QED BY <1>1, Invariance, PTL

\* No bucket exceeds its budget through the lease interface, and no admission
\* slot is lost or returned twice.
THEOREM LimitsKept == Spec => []LimitsAreKept
<1>1. IndInv => LimitsAreKept
  BY DEF IndInv, LimitsAreKept
<1> QED BY <1>1, Invariance, PTL
=============================================================================
