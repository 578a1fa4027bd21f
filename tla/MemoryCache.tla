----------------------------- MODULE MemoryCache -----------------------------
(***************************************************************************)
(* Service::getPayloads over the memory and db adapters: the shared cache  *)
(* of payload objects, its byte count and its limits, the mutex of the     *)
(* memory adapter, and resolveURI, which fills in the data of objects that *)
(* are already in the cache.                                               *)
(*                                                                         *)
(* setPayload holds the mutex for writing when maintainCacheWithinLimits   *)
(* locks it again, which std::shared_mutex leaves undefined. relock is     *)
(* what the build at hand does: with glibc the lock is refused and throws, *)
(* and without a threads library in the process libstdc++ makes every lock *)
(* a no-op and the call proceeds. (Where it hangs instead, nothing         *)
(* follows.) Either way a call of the adapter is one step.                 *)
(*                                                                         *)
(* Definitions F_faulty, F_uncounted and F_newest are wrong versions of F  *)
(* that nothing uses; they show what a property can tell.                  *)
(***************************************************************************)
EXTENDS Integers, Sequences, SequencesExt

CONSTANTS
  Threads,        \* callers of getPayloads and setPayload
  Paths,          \* structs, each with one payload for the event asked for
  DataSize,       \* DataSize[p]: bytes of its data
  FetchChoices,   \* values of the argument fetch_data of getPayloads
  SizeLimit,      \* configured cache_size_limit: lo and hi
  ItemLimit,      \* configured cache_item_limit: lo and hi
  DefaultItemHi,  \* initial value of mCacheItemLimitHi
  Relocks,        \* builds: "throws", "proceeds"
  SizeMax,        \* largest size_t
  MaxObjects      \* bound on the payload objects made

ASSUME CacheAssumption ==
  /\ DataSize \in [Paths -> 1..SizeMax]
  /\ FetchChoices \subseteq BOOLEAN
  /\ SizeLimit \in [lo : Nat, hi : Nat]
  /\ ItemLimit \in [lo : Nat, hi : Nat]
  /\ DefaultItemHi \in Nat
  /\ Relocks \subseteq {"throws", "proceeds"}
  /\ SizeMax \in Nat \ {0}
  /\ MaxObjects \in Nat

VARIABLES
  relock,   \* the build: what locking a mutex the thread holds does
  fetch,    \* the application: whether it asks for data
  objects,  \* all payload objects made so far; cache and results point to them
  cache,    \* mCache, oldest first
  bytes,    \* mCacheSizeBytes
  pc,       \* where each thread's call is
  unprobed, \* paths of its call the memory adapter has yet to look up
  todo,     \* remaining_paths of its call
  found     \* the objects it has found

env == <<relock, fetch>>
vars == <<env, objects, cache, bytes, pc, unprobed, todo, found>>

Object == [path : Paths, mode : 0..1, size : 0..SizeMax]

Init ==
  /\ relock \in Relocks
  /\ fetch \in FetchChoices
  /\ objects = <<>>
  /\ cache = <<>>
  /\ bytes = 0
  /\ pc = [t \in Threads |-> "idle"]
  /\ unprobed = [t \in Threads |-> {}]
  /\ todo = [t \in Threads |-> {}]
  /\ found = [t \in Threads |-> {}]

(* The limits in force after Service::init: setCacheItemLimit assigns its  *)
(* second argument to mCacheSizeLimitHi.                                   *)
ByteLo == SizeLimit.lo
ByteHi == ItemLimit.hi
ItemLo == ItemLimit.lo
ItemHi == DefaultItemHi

Matches(o, p) == objects[o].path = p /\ objects[o].mode # 0
-----------------------------------------------------------------------------
(* maintainCacheWithinLimits, on a cache q counted as b bytes: the number  *)
(* of objects popped is the least that meets both LO limits.               *)
Word(n) == n % (SizeMax + 1)

(* What the first n numbers of z add up to, for every n.                   *)
PrefixSums(z) ==
  LET sum[n \in 0..Len(z)] == IF n = 0 THEN 0 ELSE sum[n - 1] + z[n] IN sum

Sizes(objs, q) == [i \in 1..Len(q) |-> objs[q[i]].size]

Bytes(objs, q, n) == PrefixSums(Sizes(objs, q))[n]

BytesAfter(objs, q, b, n) == Word(b - Bytes(objs, q, n))

WithinLo_faulty(objs, q, b, n) == BytesAfter(objs, q, b, n) < ByteLo /\ Len(q) - n < ItemLo

WithinLo(objs, q, b, n) == BytesAfter(objs, q, b, n) <= ByteLo /\ Len(q) - n <= ItemLo

Popped(objs, q, b) ==
  {n \in 0..Len(q) :
     /\ WithinLo(objs, q, b, n)
     /\ \A m \in 0..(n - 1) : ~WithinLo(objs, q, b, m)}

MustTrim(q, b) == Len(q) > 1 /\ ~(b < ByteHi /\ Len(q) < ItemHi)

Trimmed_uncounted(objs, q, b) ==
  IF ~MustTrim(q, b) THEN [q |-> q, bytes |-> b, crash |-> FALSE]
  ELSE LET n == CHOOSE n \in Popped(objs, q, b) : TRUE
       IN  [q |-> SubSeq(q, n + 1, Len(q)), bytes |-> b, crash |-> FALSE]

Trimmed_newest(objs, q, b) ==
  IF ~MustTrim(q, b) THEN [q |-> q, bytes |-> b, crash |-> FALSE]
  ELSE LET n == CHOOSE n \in Popped(objs, q, b) : TRUE
       IN  [q |-> SubSeq(q, 1, Len(q) - n), bytes |-> BytesAfter(objs, q, b, n),
            crash |-> FALSE]

(* Without such a number the loop reaches front() of an empty deque.       *)
Trimmed(objs, q, b) ==
  IF ~MustTrim(q, b) THEN [q |-> q, bytes |-> b, crash |-> FALSE]
  ELSE IF Popped(objs, q, b) = {} THEN [q |-> <<>>, bytes |-> b, crash |-> TRUE]
  ELSE LET n == CHOOSE n \in Popped(objs, q, b) : TRUE
       IN  [q |-> SubSeq(q, n + 1, Len(q)), bytes |-> BytesAfter(objs, q, b, n),
            crash |-> FALSE]

(* setPayload of the memory adapter, once the payload is accepted: add,    *)
(* count, and what becomes of the second lock. next is where the caller    *)
(* goes when it returns.                                                   *)
SetPayload(t, o, objs, next) ==
  LET q == Append(cache, o)
      b == Word(bytes + objs[o].size)
  IN  \/ /\ relock = "throws"
         /\ cache' = q
         /\ bytes' = b
         /\ pc' = [pc EXCEPT ![t] = "thrown"]
      \/ /\ relock = "proceeds"
         /\ LET r == Trimmed(objs, q, b)
            IN  /\ cache' = r.q
                /\ bytes' = r.bytes
                /\ pc' = [pc EXCEPT ![t] = IF r.crash THEN "crashed" ELSE next]
-----------------------------------------------------------------------------
(* A payload put into the memory adapter directly, as memory-commands.h    *)
(* does: with a mode, and with data or a URI only.                         *)
Put(t) ==
  /\ pc[t] = "idle"
  /\ Len(objects) < MaxObjects
  /\ \E p \in Paths, hasData \in BOOLEAN :
       LET new == [path |-> p, mode |-> 1, size |-> IF hasData THEN DataSize[p] ELSE 0]
           objs == Append(objects, new)
       IN  /\ objects' = objs
           /\ SetPayload(t, Len(objs), objs, "idle")
  /\ UNCHANGED <<unprobed, todo, found>>

Get(t) ==
  /\ pc[t] = "idle"
  /\ \E ps \in SUBSET Paths \ {{}} :
       /\ todo' = [todo EXCEPT ![t] = ps]
       /\ unprobed' = [unprobed EXCEPT ![t] = ps]
  /\ pc' = [pc EXCEPT ![t] = "memory"]
  /\ UNCHANGED <<objects, cache, bytes, found>>

FirstMatch_faulty(p) ==
  {i - 1 : i \in {i \in 1..Len(cache) : Matches(cache[i], p)}}

(* PayloadAdapterMemory::getPayload, under a read lock for one path.       *)
FirstMatch(p) ==
  {cache[i] : i \in {i \in 1..Len(cache) :
                       /\ Matches(cache[i], p)
                       /\ \A j \in 1..(i - 1) : ~Matches(cache[j], p)}}

LookUp(t) ==
  /\ pc[t] = "memory"
  /\ \E p \in unprobed[t] :
       /\ unprobed' = [unprobed EXCEPT ![t] = @ \ {p}]
       /\ found' = [found EXCEPT ![t] = @ \union FirstMatch(p)]
       /\ todo' = [todo EXCEPT ![t] = IF FirstMatch(p) = {} THEN @ ELSE @ \ {p}]
  /\ UNCHANGED <<objects, cache, bytes, pc>>

(* Paths that are left go to the db adapter.                               *)
AskDb(t) ==
  /\ pc[t] = "memory"
  /\ unprobed[t] = {}
  /\ pc' = [pc EXCEPT ![t] = "db"]
  /\ UNCHANGED <<objects, cache, bytes, unprobed, todo, found>>

(* The db adapter's answer for a path: a new object without data and with  *)
(* mode 0, which its constructor leaves. One that is not ready, as for an  *)
(* open interval, is refused by the cache.                                 *)
DbResult(t) ==
  /\ pc[t] = "db"
  /\ Len(objects) < MaxObjects
  /\ \E p \in todo[t] :
       LET objs == Append(objects, [path |-> p, mode |-> 0, size |-> 0])
           o == Len(objs)
       IN  /\ objects' = objs
           /\ todo' = [todo EXCEPT ![t] = @ \ {p}]
           /\ found' = [found EXCEPT ![t] = @ \union {o}]
           /\ \/ SetPayload(t, o, objs, "db")
              \/ UNCHANGED <<cache, bytes, pc>>
  /\ UNCHANGED unprobed

(* The call returns, or the caller has caught its exception.               *)
Return(t) ==
  /\ pc' = [pc EXCEPT ![t] = "idle"]
  /\ unprobed' = [unprobed EXCEPT ![t] = {}]
  /\ todo' = [todo EXCEPT ![t] = {}]
  /\ found' = [found EXCEPT ![t] = {}]
  /\ UNCHANGED <<objects, cache, bytes>>

DbDone_faulty(t) ==
  /\ pc[t] = "db"
  /\ todo[t] = {}
  /\ Return(t)

(* No other path has an answer in the db.                                  *)
DbDone(t) ==
  /\ pc[t] = "db"
  /\ IF fetch
       THEN pc' = [pc EXCEPT ![t] = "fetch"]
            /\ UNCHANGED <<objects, cache, bytes, unprobed, todo, found>>
       ELSE Return(t)

(* resolveURI for a result without data; a download may fail.              *)
Fetch(t) ==
  /\ pc[t] = "fetch"
  /\ \E o \in found[t] :
       /\ objects[o].size = 0
       /\ objects' = [objects EXCEPT ![o].size = DataSize[objects[o].path]]
  /\ UNCHANGED <<cache, bytes, pc, unprobed, todo, found>>

FetchDone(t) == pc[t] = "fetch" /\ Return(t)

(* The caller of a call that threw may call again.                         *)
Catch(t) == pc[t] = "thrown" /\ Return(t)

Step(t) ==
  LookUp(t) \/ AskDb(t) \/ DbResult(t) \/ DbDone(t) \/ Fetch(t) \/ FetchDone(t) \/ Catch(t)

Next == UNCHANGED env /\ \E t \in Threads : Put(t) \/ Get(t) \/ Step(t)

Spec == Init /\ [][Next]_vars

Fair(t) == WF_vars(UNCHANGED env /\ Step(t))

FairSpec == Spec /\ \A t \in Threads : Fair(t)
-----------------------------------------------------------------------------
TypeOK ==
  /\ relock \in Relocks
  /\ fetch \in FetchChoices
  /\ objects \in Seq(Object)
  /\ cache \in Seq(1..Len(objects))
  /\ bytes \in 0..SizeMax
  /\ pc \in [Threads -> {"idle", "memory", "db", "fetch", "thrown", "crashed"}]
  /\ unprobed \in [Threads -> SUBSET Paths]
  /\ todo \in [Threads -> SUBSET Paths]
  /\ found \in [Threads -> SUBSET (1..Len(objects))]

(* The byte count is what the cached payloads hold, as long as none of     *)
(* them grows: additions and evictions balance, also modulo size_t.        *)
BytesExact == ~fetch => bytes = Word(Bytes(objects, cache, Len(cache)))

(* payload_adapter_memory.cpp:149, "if cache size in bytes or in item      *)
(* count is bigger than HI limit, bring it down to LO limit": where the    *)
(* lock proceeds, a cache of more than one payload is not above either HI  *)
(* limit that is configured, or has been brought down to both LO limits.   *)
WithinLimits ==
  relock = "proceeds" =>
    \/ Len(cache) <= 1
    \/ bytes <= SizeLimit.hi /\ Len(cache) <= ItemLimit.hi
    \/ bytes <= SizeLimit.lo /\ Len(cache) <= ItemLimit.lo

(* Evictions are in order of arrival: no payload leaves the cache before   *)
(* one that came earlier.                                                  *)
OldestFirst ==
  [][ \A o \in ToSet(cache) \ ToSet(cache') :
        \A older \in ToSet(cache) : older <= o => older \notin ToSet(cache') ]_vars

(* Without its first n payloads, q is still above one of the LO limits.    *)
Exceeds(objs, q, n) ==
  \/ Bytes(objs, q, Len(q)) - Bytes(objs, q, n) > SizeLimit.lo
  \/ Len(q) - n > ItemLimit.lo

(* Nothing is evicted that could stay: a payload leaves the cache only if, *)
(* with all that came later, it is above a configured LO limit, by the     *)
(* sizes themselves and not by the count kept of them. (That a HI limit    *)
(* has been reached is not asked: ByteHi is not the configured one.)       *)
EvictsOnlyExcess ==
  [][ ~fetch => \A i \in 1..Len(cache) :
        cache[i] \notin ToSet(cache') =>
          Exceeds(objects', Append(cache, Len(objects')), i - 1) ]_vars

(* A call of getPayloads comes to an end, with results or an exception,    *)
(* unless the trim loop has run into an empty deque.                       *)
CallsEnd == \A t \in Threads : pc[t] # "idle" ~> pc[t] \in {"idle", "crashed"}

(* README.md:18, "Intermediate results are cached using the provided       *)
(* in-memory cache": the db is not asked for a path that is in the cache.  *)
CachedIsFound ==
  [][ \A t \in Threads : \A o \in ToSet(cache) :
        objects[o].path \in unprobed[t] \ unprobed'[t] =>
          objects[o].path \notin todo'[t] ]_vars
=============================================================================
