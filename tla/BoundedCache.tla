---------------------------- MODULE BoundedCache ----------------------------
(***************************************************************************)
(* The bounded cache of src/internal/cache.rs, shared by the compiled      *)
(* schemas, the resolved schemas, the validation reports and the query     *)
(* caches.  It counts the payload of its entries and also what the hash    *)
(* table and the queue have allocated, which only shrinks when the cache   *)
(* asks for it.  A step is one call under the cache's lock.                *)
(***************************************************************************)
EXTENDS Integers, Sequences, FiniteSets, FiniteSetsExt, Functions, SequencesExt

CONSTANTS
    CacheKey,    \* keys
    Payload,     \* payload sizes that callers pass
    MaxEntries,  \* max_entries
    MaxBytes,    \* max_bytes
    EvictShare   \* the share evicted before the storage shrinks: 8, an eighth

\* What the constants satisfy; a module that instantiates this one assumes it.
CacheAssumption ==
    /\ IsFiniteSet(CacheKey) /\ IsFiniteSet(Payload) /\ Payload \subseteq Nat
    /\ MaxEntries \in Nat /\ MaxBytes \in Nat /\ EvictShare \in Nat \ {0}

VARIABLE bcCache   \* entries (payload by key), order, payload, table and queue capacity

cacheVars == <<bcCache>>

\* Sizes in units of a pointer: size_of K, of CacheEntry, the two reserves
KeyBytes == 1
EntryBytes == 6
ENTRY_RESERVE == 4
ALLOCATION_RESERVE == 2

Empty == [entries |-> <<>>, order |-> <<>>, payload |-> 0, table |-> 0, queue |-> 0]

Count(c) == Cardinality(DOMAIN c.entries)

\* The smallest capacity of the hash table for n entries: 3, 7, 14, 28, ...
TableCapacity(n) ==
    IF n = 0 THEN 0 ELSE CHOOSE k \in {3, 7, 14, 28} :
        n <= k /\ \A m \in {3, 7, 14, 28} : n <= m => k <= m

\* A vector grows to four entries and then doubles.
QueueCapacity(capacity, n) ==
    IF n <= capacity THEN capacity ELSE Max({n, 2 * capacity, 4})

entry_reserve == KeyBytes + EntryBytes + KeyBytes + ENTRY_RESERVE

\* estimated_bytes: two hash buckets per live entry
estimated_bytes(c) ==
    IF Count(c) = 0 THEN 0
    ELSE c.payload + Count(c) * entry_reserve * 2 + ALLOCATION_RESERVE

\* retained_bytes: what the table and the queue hold, used or not
retained_bytes(c) ==
    IF Count(c) = 0 /\ c.table = 0 /\ c.queue = 0 THEN 0
    ELSE c.payload + c.table * 2 * (KeyBytes + EntryBytes + 1) + c.queue * KeyBytes
           + Count(c) * ENTRY_RESERVE + ALLOCATION_RESERVE

shrink_storage(c) == [c EXCEPT !.table = TableCapacity(Count(c)),
                               !.queue = Len(c.order)]

\* evict_oldest: the head of the queue
evict_oldest(c) ==
    LET key == Head(c.order)
    IN  [c EXCEPT !.order = Tail(@), !.payload = @ - c.entries[key],
                  !.entries = Restrict(@, DOMAIN @ \ {key})]

EvictWhile(c, Over(_)) ==
    LET Oldest(n) == FoldLeft(LAMBDA acc, k : evict_oldest(acc), c,
                              [i \in 1..n |-> i])
        enough == {n \in 0..Count(c) : n = Count(c) \/ ~Over(Oldest(n))}
    IN  Oldest(Min(enough))

\* Faulty: only the payload is held against the limit, not the allocation.
enforce_limits_payload(c) ==
    EvictWhile(c, LAMBDA d : Count(d) > MaxEntries \/ estimated_bytes(d) > MaxBytes)

\* enforce_limits: entries and estimated bytes; then an eighth more before the
\* storage shrinks; then one by one with a shrink after each.
enforce_limits(c) ==
    LET fits == EvictWhile(c, LAMBDA d : Count(d) > MaxEntries
                                             \/ estimated_bytes(d) > MaxBytes)
        keep == Count(fits) - Count(fits) \div EvictShare
        less == shrink_storage(EvictWhile(fits, LAMBDA d : Count(d) > keep))
        over == EvictWhile(less, LAMBDA d : retained_bytes(shrink_storage(d)) > MaxBytes)
    IN  IF retained_bytes(fits) <= MaxBytes THEN fits
        ELSE IF retained_bytes(less) <= MaxBytes THEN less
        ELSE shrink_storage(over)

\* remove
remove(c, key) ==
    IF key \notin DOMAIN c.entries THEN c
    ELSE LET left == [c EXCEPT !.payload = @ - c.entries[key],
                               !.entries = Restrict(@, DOMAIN @ \ {key}),
                               !.order = SelectSeq(@, LAMBDA k : k # key)]
         IN  IF Count(left) = 0 \/ retained_bytes(left) > MaxBytes
             THEN shrink_storage(left) ELSE left

\* Faulty: replacing an entry queues its key a second time.
Replaced_twice(c, key, bytes) ==
    [c EXCEPT !.payload = @ - c.entries[key] + bytes, !.entries[key] = bytes,
              !.order = Append(@, key)]

\* insert over an entry: it keeps its place in the queue.
Replaced(c, key, bytes) ==
    [c EXCEPT !.payload = @ - c.entries[key] + bytes, !.entries[key] = bytes]

Added(c, key, bytes) ==
    [c EXCEPT !.payload = @ + bytes,
              !.entries = [k \in DOMAIN @ \cup {key} |-> IF k = key THEN bytes ELSE @[k]],
              !.order = Append(@, key),
              !.table = IF Count(c) < @ THEN @ ELSE TableCapacity(Count(c) + 1),
              !.queue = QueueCapacity(@, Len(c.order) + 1)]

\* insert: an entry too large for the cache also drops the one it replaces.
insert(key, bytes) ==
    bcCache' = IF MaxEntries = 0 \/ bytes + entry_reserve > MaxBytes
               THEN remove(bcCache, key)
               ELSE IF key \in DOMAIN bcCache.entries
               THEN enforce_limits(Replaced(bcCache, key, bytes))
               ELSE enforce_limits(Added(bcCache, key, bytes))

\* remove_where: compacts the queue and shrinks when anything was removed.
remove_where(keys) ==
    LET left == [bcCache EXCEPT
            !.payload = @ - SumFunctionOnSet(bcCache.entries,
                                keys \cap DOMAIN bcCache.entries),
            !.entries = Restrict(@, DOMAIN @ \ keys),
            !.order = SelectSeq(@, LAMBDA k : k \notin keys)]
    IN  bcCache' = IF Count(left) = Count(bcCache) THEN bcCache
                   ELSE shrink_storage(left)

CacheInit == bcCache = Empty

CacheNext ==
    \/ \E key \in CacheKey, bytes \in Payload : insert(key, bytes)
    \/ \E key \in CacheKey : bcCache' = remove(bcCache, key)
    \/ \E keys \in SUBSET CacheKey : remove_where(keys)

CacheSpec == CacheInit /\ [][CacheNext]_cacheVars

-----------------------------------------------------------------------------

\* After every call the entries, the payload and what the table and the queue
\* have allocated stay within the configured limits.
CacheFits == /\ Count(bcCache) <= MaxEntries
             /\ retained_bytes(bcCache) <= MaxBytes

\* The queue holds each cached key once, so that an eviction always removes an
\* entry, and the payload counter is the sum over the entries.
QueueIsExact ==
    /\ Range(bcCache.order) = DOMAIN bcCache.entries
    /\ Len(bcCache.order) = Count(bcCache)
    /\ bcCache.payload = SumFunction(bcCache.entries)

\* An insert evicts in the order of insertion: what it leaves of the queue is its end, with the new key
\* behind it; no call reorders the keys it keeps, so that replacing an entry does not renew it.
EvictionStep ==
    LET kept == SelectSeq(bcCache.order, LAMBDA k : k \in DOMAIN bcCache'.entries)
        new == DOMAIN bcCache'.entries \ DOMAIN bcCache.entries
        inserted == new # {} \/ \E k \in Range(kept) : bcCache'.entries[k] # bcCache.entries[k]
    IN  /\ bcCache'.order = kept \o SetToSeq(new) /\ Cardinality(new) <= 1
        /\ inserted => IsSuffix(kept, bcCache.order)
EvictsOldest == [][EvictionStep]_cacheVars
=============================================================================
