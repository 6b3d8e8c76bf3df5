--------------------------- MODULE ValidationCache ---------------------------
(***************************************************************************)
(* validation/helpers/cache.js: a bounded in-memory cache with four ways to  *)
(* choose what is evicted, and a running total of the bytes it holds.  Its   *)
(* methods are synchronous.  A value is abstracted to its size, and the Map to  *)
(* a function whose entries have their place in the order of insertion.        *)
(***************************************************************************)
EXTENDS Integers, FiniteSets, FiniteSetsExt

CONSTANTS
  EntryKeys,     \* keys
  Sizes,         \* sizes of values, in bytes
  MaxSize,       \* config.maxSize
  MemoryLimit,   \* config.memoryLimitMB, in bytes
  LifeOf,        \* the time to live of a key's values, 0 for ever
  Strategies,    \* what config.strategy may be
  MaxTouches,    \* bound on reads and writes
  MaxTime        \* bound on time

ASSUME ValidationCacheAssumption ==
  /\ Sizes \subseteq Nat /\ LifeOf \in [EntryKeys -> Nat]
  /\ MaxSize \in Nat \ {0} /\ MemoryLimit \in Nat
  /\ Strategies \subseteq {"LRU", "LFU", "FIFO", "TTL"}

VARIABLES
  strategy,      \* config.strategy
  entries,       \* the Map: what is cached under each key present
  memoryUsage,   \* the running total
  touches,       \* accessSequence
  clock,
  backup,        \* what export() returned last
  imported,      \* whether an import took place since the last clear
  overwritten    \* sizes of entries that imports replaced since the last clear

entryVars == <<strategy, entries, memoryUsage, touches, clock, backup, imported, overwritten>>

Empty == [k \in {} |-> 0]

EntryCacheInit ==
  /\ strategy \in Strategies
  /\ entries = Empty /\ backup = Empty
  /\ memoryUsage = 0 /\ touches = 0 /\ clock = 0 /\ overwritten = 0
  /\ imported = FALSE

Expired(e) == e.ttl > 0 /\ clock > e.created + e.ttl

Held(es) == DOMAIN es
Count(es) == Cardinality(Held(es))

\* The entries under keys that are held, in the order they had.
Kept(es, keys) ==
  [k \in keys |-> [es[k] EXCEPT !.place = Cardinality({j \in keys : es[j].place <= es[k].place})]]

Without(es, keys) == Kept(es, Held(es) \ keys)
Unexpired(es) == Kept(es, {k \in Held(es) : ~Expired(es[k])})

\* Entries that go behind those of es, in the order they have.
Behind(es, new) ==
  [k \in Held(es) \cup Held(new) |->
     IF k \in Held(es) THEN es[k] ELSE [new[k] EXCEPT !.place = @ + Count(es)]]

SizeOf(es) == [k \in Held(es) |-> es[k].size]
Bytes(es) == MapThenSumSet(LAMBDA k : SizeOf(es)[k], Held(es))

\* The sort is stable: of equals, the one inserted first goes first.
Rank(e) ==
  CASE strategy = "LRU"  -> e.accessed
    [] strategy = "LFU"  -> e.count
    [] strategy = "FIFO" -> e.created
    [] strategy = "TTL"  -> e.created + e.ttl

Before(e, f) == Rank(e) < Rank(f) \/ (Rank(e) = Rank(f) /\ e.place < f.place)

Candidates(es) == {k \in Held(es) : strategy = "TTL" => es[k].ttl > 0}

\* _evictEntries(n): the n lowest; under TTL, only of those that expire at all.
Evict(es, n) ==
  Without(es, {k \in Candidates(es) :
                 Cardinality({j \in Candidates(es) : Before(es[j], es[k])}) < n})

\* A tenth of the entries, rounded up.
Tenth(es) == (Count(es) + 9) \div 10

\* memoryUsage after entries are removed one by one.
Freed(before, after) == memoryUsage - (Bytes(before) - Bytes(after))

\* _checkMemoryLimits: evict once, then look again.
Relieved(size) ==
  IF memoryUsage + size > MemoryLimit THEN Evict(entries, Tenth(entries)) ELSE entries

\* Faulty variant: one entry too many is kept.
RoomUnlessAbove(es) == IF Count(es) > MaxSize THEN Evict(es, 1) ELSE es

RoomFor(es) == IF Count(es) >= MaxSize THEN Evict(es, 1) ELSE es

Touch == touches < MaxTouches /\ touches' = touches + 1

\* set: refused when one eviction did not free enough.
SetEntry(k, size) ==
  LET relieved == Relieved(size)
      kept == RoomFor(Without(relieved, {k}))
      new == [size |-> size, ttl |-> LifeOf[k], created |-> clock, accessed |-> touches + 1,
              count |-> 1, place |-> 1]
  IN /\ IF Freed(entries, relieved) + size > MemoryLimit
        THEN /\ entries' = relieved
             /\ memoryUsage' = Freed(entries, relieved)
             /\ UNCHANGED touches
        ELSE /\ Touch
             /\ entries' = Behind(kept, [j \in {k} |-> new])
             /\ memoryUsage' = Freed(entries, kept) + size
     /\ UNCHANGED <<strategy, clock, backup, imported, overwritten>>

\* delete, and what get, has and the garbage collection do to expired entries.
RemoveEntries(keys) ==
  /\ entries' = Without(entries, keys)
  /\ memoryUsage' = Freed(entries, Without(entries, keys))
  /\ UNCHANGED <<strategy, touches, clock, backup, imported, overwritten>>

DeleteEntry(k) == k \in Held(entries) /\ RemoveEntries({k})

GetEntry(k) ==
  /\ k \in Held(entries)
  /\ IF Expired(entries[k])
     THEN RemoveEntries({k})
     ELSE /\ Touch
          /\ entries' = [entries EXCEPT ![k].accessed = touches + 1, ![k].count = @ + 1]
          /\ UNCHANGED <<strategy, memoryUsage, clock, backup, imported, overwritten>>

HasEntry(k) ==
  /\ k \in Held(entries)
  /\ Expired(entries[k])
  /\ RemoveEntries({k})

CollectGarbage ==
  /\ \E k \in Held(entries) : Expired(entries[k])
  /\ RemoveEntries({k \in Held(entries) : Expired(entries[k])})

Clear ==
  /\ Held(entries) # {}
  /\ entries' = Empty
  /\ memoryUsage' = 0 /\ overwritten' = 0 /\ imported' = FALSE
  /\ UNCHANGED <<strategy, touches, clock, backup>>

\* One backup, to bound the model.
Export ==
  /\ Held(backup) = {} /\ Held(entries) # {}
  /\ backup' = Unexpired(entries)
  /\ UNCHANGED <<strategy, entries, memoryUsage, touches, clock, imported, overwritten>>

\* import: no limit is looked at, and what an entry replaces stays in the total.
Import ==
  LET fresh == Unexpired(backup)
      replaced == Held(fresh) \cap Held(entries)
      over == [k \in Held(entries) |->
                 IF k \in replaced THEN [fresh[k] EXCEPT !.place = entries[k].place]
                 ELSE entries[k]]
  IN /\ Held(fresh) # {}
     /\ entries' = Behind(over, Without(fresh, replaced))
     /\ memoryUsage' = memoryUsage + Bytes(fresh)
     /\ memoryUsage' <= 2 * MemoryLimit   \* a bound of the model: the drift has none
     /\ overwritten' = overwritten + Bytes(entries) - Bytes(Without(entries, replaced))
     /\ imported' = TRUE
     /\ UNCHANGED <<strategy, touches, clock, backup>>

Tick ==
  /\ clock < MaxTime
  /\ clock' = clock + 1
  /\ UNCHANGED <<strategy, entries, memoryUsage, touches, backup, imported, overwritten>>

EntryCacheStep ==
  \/ \E k \in EntryKeys :
       \/ \E size \in Sizes : SetEntry(k, size)
       \/ GetEntry(k) \/ HasEntry(k) \/ DeleteEntry(k)
  \/ CollectGarbage \/ Clear \/ Export \/ Import \/ Tick

-------------------------------------------------------------------------------

Entry == [size : Nat, ttl : Nat, created : Nat, accessed : Nat, count : Nat, place : Nat]

IsBook(es) == Held(es) \subseteq EntryKeys /\ es \in [Held(es) -> Entry]

EntryCacheTypeOK == IsBook(entries) /\ IsBook(backup)

\* The running total is what the entries weigh, plus what imports overwrote;
\* and unless something was imported, or the strategy found nothing it may
\* evict, the cache stays within both of its limits - whatever sequence of
\* writes, reads, evictions and expiries led there.
CacheKeepsItsBooks ==
  /\ memoryUsage = Bytes(entries) + overwritten
  /\ ~imported => memoryUsage <= MemoryLimit
  /\ ~imported /\ strategy # "TTL" => Count(entries) <= MaxSize

===============================================================================
