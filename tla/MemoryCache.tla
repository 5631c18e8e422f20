---------------------------- MODULE MemoryCache ----------------------------
(***************************************************************************)
(* cache.MemoryCache (pkg/cache/memory.go): the map of items, the LRU      *)
(* list, the bytes in use, and the clients that call it.  Set, Delete and  *)
(* Incr are one critical section of m.mu; Get and Exists release the lock  *)
(* between looking an item up, judging its age and acting on that.         *)
(*                                                                         *)
(* An item and its list element are known by an identity, as pointers are. *)
(* The text Get returns is left out; lruMap is written and never read.     *)
(***************************************************************************)
EXTENDS Integers, Sequences, SequencesExt, FiniteSets

CONSTANTS
  Keys, Clients,
  Ids,          \* identities of items; enough for those in use
  Numbers,      \* the integers a value may be (bound of Incr in the model)
  Texts,        \* the values that are not integers
  KeySize,      \* len(key)
  ValueSize,    \* len of the text of a value
  MaxBytes,     \* m.maxBytes, 0 for no limit
  DefaultTTL,   \* m.ttl, 0 for items that never expire
  TTLs,         \* the ttl arguments of Set
  MaxTime,      \* bound of the model: the clock stops
  None

Values == Numbers \cup Texts
Item == [id : Ids, value : Values, expire : Nat \cup {None}, size : Nat]

ASSUME CacheAssumption ==
  /\ KeySize \in [Keys -> Nat] /\ ValueSize \in [Values -> Nat]
  /\ MaxBytes \in Nat /\ DefaultTTL \in Nat /\ TTLs \subseteq Nat
  /\ Numbers \subseteq Int /\ MaxTime \in Nat
  /\ None \notin Ids \cup Item
  /\ IsFiniteSet(Ids) /\ IsFiniteSet(Keys) /\ IsFiniteSet(Clients)
  /\ Cardinality(Ids) > Cardinality(Keys) + Cardinality(Clients)

VARIABLES
  items,        \* m.items, None for a key that is not in the map
  lru,          \* m.lruList, front first: elements [key, id]
  used,         \* m.used
  now,
  call          \* what each client is doing

vars == <<items, lru, used, now, call>>

Size(k, v) == KeySize[k] + ValueSize[v]

Idle == [pc |-> "idle", key |-> None, id |-> None, expire |-> None]

Init ==
  /\ items = [k \in Keys |-> None]
  /\ lru = <<>>
  /\ used = 0
  /\ now = 0
  /\ call = [c \in Clients |-> Idle]

Elem(k) == [key |-> k, id |-> items[k].id]

\* An identity nobody holds: the allocator's.
FreshId ==
  CHOOSE i \in Ids :
    /\ \A k \in Keys : items[k] # None => items[k].id # i
    /\ \A c \in Clients : call[c].id # i

\* item.expire is the zero time, None, or before now.
Expired(expire) == expire # None /\ expire < now

\* The expiry of an item that is Set.
ExpiryOf(ttl) ==
  IF ttl > 0 THEN now + ttl
  ELSE IF DefaultTTL > 0 THEN now + DefaultTTL ELSE None

-----------------------------------------------------------------------------
\* One round of the eviction loop on a map, a list and a number of bytes: the
\* least recently used item goes, unless n more bytes fit or the list is empty.
EvictOne(m, n) ==
  IF MaxBytes > 0 /\ m.used + n > MaxBytes /\ m.lru # <<>>
  THEN LET k == Last(m.lru).key IN
       [items |-> [m.items EXCEPT ![k] = None],
        lru   |-> Front(m.lru),
        used  |-> IF m.items[k] = None THEN m.used ELSE m.used - m.items[k].size]
  ELSE m

\* m after each number of rounds; with one for each element the loop has ended.
Rounds(m, n) ==
  LET after[i \in 0..Len(m.lru)] == IF i = 0 THEN m ELSE EvictOne(after[i - 1], n)
  IN  after

EvictUntilFull(m, n) == Rounds(m, 0)[Len(m.lru)]   \* mutant: n is not looked at

EvictUntil(m, n) == Rounds(m, n)[Len(m.lru)]

\* The lock is held: the new item in the map, its element in front.
Insert(m, k, v, e) ==
  LET id == FreshId IN
  /\ items' = [m.items EXCEPT ![k] = [id |-> id, value |-> v, expire |-> e,
                                      size |-> Size(k, v)]]
  /\ lru' = <<[key |-> k, id |-> id]>> \o m.lru
  /\ used' = m.used + Size(k, v)

\* The old item leaves the list and the count; it stays in the map until the
\* new one replaces it.
WithoutOldUncounted(k) ==       \* mutant: m.used keeps the old item's size
  [items |-> items, used |-> used,
   lru |-> IF items[k] = None THEN lru ELSE RemoveFirst(lru, Elem(k))]

WithoutOldUnlisted(k) ==        \* mutant: the old element stays in the list
  [items |-> items, lru |-> lru,
   used |-> IF items[k] = None THEN used ELSE used - items[k].size]

WithoutOld(k) ==
  IF items[k] = None
  THEN [items |-> items, lru |-> lru, used |-> used]
  ELSE [items |-> items,
        lru   |-> RemoveFirst(lru, Elem(k)),
        used  |-> used - items[k].size]

Set(k, v, ttl) ==
  /\ Insert(EvictUntil(WithoutOld(k), Size(k, v)), k, v, ExpiryOf(ttl))
  /\ UNCHANGED <<now, call>>

Drop(k) ==
  /\ items' = [items EXCEPT ![k] = None]
  /\ lru' = WithoutOld(k).lru
  /\ used' = WithoutOld(k).used

Delete(k) ==
  /\ Drop(k)
  /\ UNCHANGED <<now, call>>

\* MoveToFront does nothing with an element that is no longer in the list.
MoveToFront(x) ==
  lru' = IF x \in ToSet(lru) THEN <<x>> \o RemoveFirst(lru, x) ELSE lru

\* Incr (and Decr): a missing key begins at delta; a text is an error that
\* changes nothing; the age of an item is not looked at, and its size is not
\* brought up to date.  With a DefaultTTL of 0 the new item expires at once.
IncrMissing(k, d) ==
  /\ items[k] = None
  /\ d \in Numbers
  /\ Insert(EvictUntil([items |-> items, lru |-> lru, used |-> used],
                       Size(k, d)), k, d, now + DefaultTTL)
  /\ UNCHANGED <<now, call>>

IncrExisting(k, d) ==
  /\ items[k] # None
  /\ items[k].value \in Numbers /\ items[k].value + d \in Numbers
  /\ items' = [items EXCEPT ![k].value = @ + d]
  /\ MoveToFront(Elem(k))
  /\ UNCHANGED <<used, now, call>>

Incr(k, d) == IncrMissing(k, d) \/ IncrExisting(k, d)

-----------------------------------------------------------------------------
\* Get and Exists under the read lock: the item is picked up, or the key is
\* missing and the call returns.
Lookup(c, op, k) ==
  /\ call[c].pc = "idle"
  /\ items[k] # None
  /\ call' = [call EXCEPT ![c] = [pc |-> op, key |-> k, id |-> items[k].id,
                                  expire |-> items[k].expire]]
  /\ UNCHANGED <<items, lru, used, now>>

\* Without a lock: how old is the item?
Judge(c) ==
  /\ call[c].pc \in {"Get", "Exists"}
  /\ call' = [call EXCEPT ![c] =
                IF Expired(call[c].expire) THEN [call[c] EXCEPT !.pc = "stale"]
                ELSE IF call[c].pc = "Get" THEN [call[c] EXCEPT !.pc = "touch"]
                ELSE Idle]
  /\ UNCHANGED <<items, lru, used, now>>

\* It was too old: m.Delete(key), whatever the key holds by now.
DeleteStale(c) ==
  /\ call[c].pc = "stale"
  /\ Drop(call[c].key)
  /\ call' = [call EXCEPT ![c] = Idle]
  /\ UNCHANGED now

\* It was not: the element goes to the front, if it is still in the list.
Touch(c) ==
  /\ call[c].pc = "touch"
  /\ MoveToFront([key |-> call[c].key, id |-> call[c].id])
  /\ call' = [call EXCEPT ![c] = Idle]
  /\ UNCHANGED <<items, used, now>>

Tick ==
  /\ now < MaxTime
  /\ now' = now + 1
  /\ UNCHANGED <<items, lru, used, call>>

Next ==
  \/ \E k \in Keys :
       \/ \E v \in Values, ttl \in TTLs : Set(k, v, ttl)
       \/ Delete(k)
       \/ \E d \in {1, -1} : Incr(k, d)
       \/ \E c \in Clients, op \in {"Get", "Exists"} : Lookup(c, op, k)
  \/ \E c \in Clients : Judge(c) \/ DeleteStale(c) \/ Touch(c)
  \/ Tick

Spec == Init /\ [][Next]_vars

-----------------------------------------------------------------------------
(* Properties *)

TypeOK ==
  /\ items \in [Keys -> Item \cup {None}]
  /\ lru \in Seq([key : Keys, id : Ids])
  /\ used \in Nat
  /\ now \in 0..MaxTime
  /\ \A c \in Clients :
       call[c] = Idle \/ call[c] \in [pc : {"Get", "Exists", "stale", "touch"},
                                      key : Keys, id : Ids,
                                      expire : Nat \cup {None}]

Present == {k \in Keys : items[k] # None}

Upto(g) ==
  LET sum[i \in 0..Len(g)] == IF i = 0 THEN 0 ELSE sum[i - 1] + g[i]
  IN  sum

SizeOf(k) == IF items[k] = None THEN 0 ELSE items[k].size

\* m.used is the sum of the sizes of the items in the list, which are those in
\* the map, through every replacement, eviction and late delete: a leak here
\* evicts for ever.
UsedExact == used = Upto([i \in DOMAIN lru |-> SizeOf(lru[i].key)])[Len(lru)]

\* The list and the map hold the same items, once each: nothing can be evicted
\* twice, or never.
ListMatchesMap ==
  /\ ToSet(lru) = {Elem(k) : k \in Present}
  /\ \A i, j \in DOMAIN lru : lru[i].key = lru[j].key => i = j

\* The limit is kept, except by one item that is larger than the limit.
WithinCapacity == MaxBytes > 0 => used <= MaxBytes \/ Len(lru) = 1

\* README.md:216 cache.Set(ctx, "key", "value", time.Hour): a value is kept for
\* the time it was given.  Asking for it must not drop it earlier.
ReadsDropOnlyExpired ==
  [][\A c \in Clients :
       call[c].pc = "stale" /\ call'[c].pc = "idle" /\ items[call[c].key] # None
       => Expired(items[call[c].key].expire)]_vars

\* What is left of it: the fresh item that a call drops is not the one it has
\* looked up, but one that was stored after that.
DroppedWasStoredLate ==
  [][\A c \in Clients :
       call[c].pc = "stale" /\ call'[c].pc = "idle" /\ items[call[c].key] # None
       => \/ Expired(items[call[c].key].expire)
          \/ items[call[c].key].id # call[c].id]_vars
=============================================================================
