--------------------------------- MODULE KHash ---------------------------------
(***************************************************************************)
(* The table behind the method registry: rpc_hash.cpp over khash.h, open   *)
(* addressing with triangular probing, tombstones and a rehash in place.   *)
(* The calls of rpc_hash.h are atomic but for kh_resize, whose loop moves  *)
(* one entry at a time through an array both tables share.                 *)
(***************************************************************************)
EXTENDS Integers, FiniteSets, FiniteSetsExt

CONSTANTS
  Keys,          \* the names
  Vals,          \* what is registered under them
  HashFunctions, \* the hashes the names may have: functions from Keys
  None,          \* the NULL of rpc_hash_get
  MaxBuckets     \* bound: buckets of a table

ASSUME ValuesAssumption == /\ None \notin Vals
                           /\ None \notin [key : Keys, val : Vals]

ASSUME HashAssumption == HashFunctions \subseteq [Keys -> Nat]

ASSUME BoundAssumption == MaxBuckets \in 0 .. 2 ^ 30 - 1

VARIABLES
  hash,         \* the hash of each name
  n_buckets, size, n_occupied, upper_bound,
  flags,        \* per bucket: "empty", "deleted" (a tombstone) or "live"
  slots,        \* keys[] and vals[]; None where neither table has an entry
  pc,           \* "idle", "rehash", "store", or "wild" after a put that failed
  arg,          \* the entry a put in kh_resize is to store, or None
  new_buckets,  \* kh_resize: the number of buckets to be
  new_flags,    \* kh_resize: the flags of the table to be
  j,            \* kh_resize: the next bucket to look at
  hand          \* kh_resize: the entry taken out of the old table, or None

counts == <<n_buckets, size, n_occupied, upper_bound>>
resizing == <<arg, new_buckets, new_flags, j, hand>>
vars == <<hash, counts, flags, slots, pc, resizing>>

Entry == [key : Keys, val : Vals]

Buckets == 0 .. n_buckets - 1

Empties(n) == [i \in 0 .. n - 1 |-> "empty"]

\* The bound in the table's own unit: 0.77 n + 0.5, cut off.
UpperBound(n) == (77 * n + 50) \div 100

\* The numbers of buckets; tables of more than 2^30 are left out.
Sizes == {2 ^ e : e \in 2 .. 30}

\* kroundup32, and at least 4.
RoundUp(n) == Min({p \in Sizes : p >= n})

\* The bucket looked at after s steps from the hash's own: 1, 2, 3 ... further.
Probe(k, n, s) == (hash[k] + (s * (s + 1)) \div 2) % n

Init ==
  /\ hash \in HashFunctions
  /\ n_buckets = 0 /\ size = 0 /\ n_occupied = 0 /\ upper_bound = 0
  /\ flags = Empties(0)
  /\ slots = [i \in {} |-> None]
  /\ pc = "idle"
  /\ arg = None
  /\ new_buckets = 0
  /\ new_flags = Empties(0)
  /\ j = 0
  /\ hand = None

------------------------------------------------------------------------------
Holds(i, k) == flags[i] = "live" /\ slots[i].key = k

\* Where the walk of kh_get and kh_put ends: at an empty bucket, at the key, or
\* back where it began.
Ends(k, s) ==
  LET i == Probe(k, n_buckets, s)
  IN \/ flags[i] = "empty"
     \/ Holds(i, k)
     \/ s > 0 /\ i = Probe(k, n_buckets, 0)

Steps(k) == Min({s \in 0 .. 2 * n_buckets : Ends(k, s)})

kh_get(k) ==
  IF n_buckets = 0 THEN 0
  ELSE LET i == Probe(k, n_buckets, Steps(k))
       IN IF Holds(i, k) THEN i ELSE n_buckets

\* Mutant: the first tombstone on the way is taken at once.
kh_put_bucket_FirstTombstone(k) ==
  Probe(k, n_buckets,
        Min({s \in 0 .. 2 * n_buckets :
               \/ Ends(k, s)
               \/ flags[Probe(k, n_buckets, s)] = "deleted"}))

\* The bucket kh_put uses: the key's own, else the last tombstone passed, else
\* the bucket where the walk ended.
kh_put_bucket(k) ==
  LET last  == Steps(k)
      sites == {s \in 0 .. last - 1 :
                  flags[Probe(k, n_buckets, s)] = "deleted"}
      end   == Probe(k, n_buckets, last)
  IN IF Holds(end, k) \/ sites = {} THEN end
     ELSE Probe(k, n_buckets, Max(sites))

rpc_hash_get(k) ==
  LET i == kh_get(k) IN IF i = n_buckets THEN None ELSE slots[i].val

rpc_hash_has(k) == size > 0 /\ kh_get(k) # n_buckets

------------------------------------------------------------------------------
\* Mutant: a tombstone that is used again counts as a new bucket.
Store_CountsTombstone(k, v) ==
  LET x == kh_put_bucket(k)
  IN /\ flags' = [flags EXCEPT ![x] = "live"]
     /\ slots' = [slots EXCEPT ![x] = [key |-> k, val |-> v]]
     /\ size' = IF flags[x] = "live" THEN size ELSE size + 1
     /\ n_occupied' = IF flags[x] = "live" THEN n_occupied ELSE n_occupied + 1
     /\ UNCHANGED <<n_buckets, upper_bound>>

\* The rest of kh_put once there is room, and the value of rpc_hash_set.
Store(k, v) ==
  LET x == kh_put_bucket(k)
  IN /\ flags' = [flags EXCEPT ![x] = "live"]
     /\ slots' = [slots EXCEPT ![x] = [key |-> k, val |-> v]]
     /\ size' = IF flags[x] = "live" THEN size ELSE size + 1
     /\ n_occupied' = IF flags[x] = "empty" THEN n_occupied + 1 ELSE n_occupied
     /\ UNCHANGED <<n_buckets, upper_bound>>

SetWithRoom(k, v) ==
  /\ pc = "idle"
  /\ n_occupied < upper_bound
  /\ Store(k, v)
  /\ UNCHANGED <<hash, pc, resizing>>

\* What kh_put asks kh_resize for: as many buckets again if fewer than half are
\* live, to be rid of tombstones, else twice as many.
Wanted ==
  RoundUp(IF n_buckets > 2 * size THEN n_buckets - 1 ELSE n_buckets + 1)

\* kh_resize up to its loop, in a put that found no room.
SetResizes(k, v) ==
  /\ pc = "idle"
  /\ n_occupied >= upper_bound
  /\ Wanted <= MaxBuckets
  /\ size < UpperBound(Wanted)
  /\ pc' = "rehash"
  /\ arg' = [key |-> k, val |-> v]
  /\ new_buckets' = Wanted
  /\ new_flags' = Empties(Wanted)
  /\ slots' = [i \in 0 .. Max({n_buckets, Wanted}) - 1 |->
                 IF i < n_buckets THEN slots[i] ELSE None]
  /\ j' = 0
  /\ UNCHANGED <<hash, counts, flags, hand>>

\* An allocation fails: kh_put gives the end of the table as the place, and
\* rpc_hash_set writes the value there, beyond the array.  What follows is
\* undefined; the model stops.
SetWithoutMemory ==
  /\ pc = "idle"
  /\ n_occupied >= upper_bound
  /\ pc' = "wild"
  /\ UNCHANGED <<hash, counts, flags, slots, resizing>>

------------------------------------------------------------------------------
\* Mutant: a bucket without an entry is looked at again and again.
Skip_Stays ==
  /\ pc = "rehash"
  /\ hand = None
  /\ j < n_buckets
  /\ flags[j] # "live"
  /\ UNCHANGED vars

Skip ==
  /\ pc = "rehash"
  /\ hand = None
  /\ j < n_buckets
  /\ flags[j] # "live"
  /\ j' = j + 1
  /\ UNCHANGED <<hash, counts, flags, slots, pc, arg, new_buckets, new_flags, hand>>

\* The next entry of the old table is taken into the hand.
TakeOut ==
  /\ pc = "rehash"
  /\ hand = None
  /\ j < n_buckets
  /\ flags[j] = "live"
  /\ hand' = slots[j]
  /\ flags' = [flags EXCEPT ![j] = "deleted"]
  /\ slots' = [slots EXCEPT ![j] = None]
  /\ j' = j + 1
  /\ UNCHANGED <<hash, counts, pc, arg, new_buckets, new_flags>>

\* The first bucket on the entry's way that the new table has not used.
Vacant ==
  LET P(s) == Probe(hand.key, new_buckets, s)
  IN P(Min({s \in 0 .. 2 * new_buckets : new_flags[P(s)] = "empty"}))

\* Mutant: what lies in the vacant bucket is overwritten.
PutDown_NoKick ==
  /\ pc = "rehash"
  /\ hand # None
  /\ new_flags' = [new_flags EXCEPT ![Vacant] = "live"]
  /\ slots' = [slots EXCEPT ![Vacant] = hand]
  /\ flags' = IF Vacant \in Buckets THEN [flags EXCEPT ![Vacant] = "deleted"] ELSE flags
  /\ hand' = None
  /\ UNCHANGED <<hash, counts, pc, arg, new_buckets, j>>

\* The entry in the hand is put down; an entry of the old table that lies there
\* is kicked out and is the next to be put down.
PutDown ==
  /\ pc = "rehash"
  /\ hand # None
  /\ new_flags' = [new_flags EXCEPT ![Vacant] = "live"]
  /\ slots' = [slots EXCEPT ![Vacant] = hand]
  /\ IF Vacant \in Buckets /\ flags[Vacant] = "live"
     THEN /\ hand' = slots[Vacant]
          /\ flags' = [flags EXCEPT ![Vacant] = "deleted"]
     ELSE /\ hand' = None
          /\ UNCHANGED flags
  /\ UNCHANGED <<hash, counts, pc, arg, new_buckets, j>>

\* The new table takes the old one's place; there are no tombstones in it.
Swap ==
  /\ pc = "rehash"
  /\ hand = None
  /\ j = n_buckets
  /\ flags' = new_flags
  /\ slots' = [i \in 0 .. new_buckets - 1 |-> slots[i]]
  /\ n_buckets' = new_buckets
  /\ n_occupied' = size
  /\ upper_bound' = UpperBound(new_buckets)
  /\ pc' = "store"
  /\ UNCHANGED <<hash, size, resizing>>

SetAfterResize ==
  /\ pc = "store"
  /\ Store(arg.key, arg.val)
  /\ pc' = "idle"
  /\ arg' = None
  /\ new_buckets' = 0
  /\ new_flags' = Empties(0)
  /\ j' = 0
  /\ UNCHANGED <<hash, hand>>

rpc_hash_set(k, v) ==
  SetWithRoom(k, v) \/ SetResizes(k, v)

------------------------------------------------------------------------------
\* Mutant: the bucket becomes an empty one.
rpc_hash_del_NoTombstone(k) ==
  /\ pc = "idle"
  /\ LET x == kh_get(k)
     IN IF x = n_buckets THEN UNCHANGED <<flags, slots, size>>
        ELSE /\ flags' = [flags EXCEPT ![x] = "empty"]
             /\ slots' = [slots EXCEPT ![x] = None]
             /\ size' = size - 1
  /\ UNCHANGED <<hash, n_buckets, n_occupied, upper_bound, pc, resizing>>

\* Mutant: the place is not looked at before an entry is taken off the count.
rpc_hash_del_Unguarded(k) ==
  /\ pc = "idle"
  /\ LET x == kh_get(k)
     IN /\ flags' = [flags EXCEPT ![x] = "deleted"]
        /\ slots' = [slots EXCEPT ![x] = None]
        /\ size' = size - 1
  /\ UNCHANGED <<hash, n_buckets, n_occupied, upper_bound, pc, resizing>>

rpc_hash_del(k) ==
  /\ pc = "idle"
  /\ LET x == kh_get(k)
     IN IF x = n_buckets THEN UNCHANGED <<flags, slots, size>>
        ELSE /\ flags' = [flags EXCEPT ![x] = "deleted"]
             /\ slots' = [slots EXCEPT ![x] = None]
             /\ size' = size - 1
  /\ UNCHANGED <<hash, n_buckets, n_occupied, upper_bound, pc, resizing>>

\* A table that never had a bucket has no flags and is left alone.
rpc_hash_clear ==
  /\ pc = "idle"
  /\ n_buckets > 0
  /\ flags' = Empties(n_buckets)
  /\ slots' = [i \in Buckets |-> None]
  /\ size' = 0
  /\ n_occupied' = 0
  /\ UNCHANGED <<hash, n_buckets, upper_bound, pc, resizing>>

kh_resize_loop == Skip \/ TakeOut \/ PutDown \/ Swap

Next ==
  \/ \E k \in Keys :
       \/ \E v \in Vals : rpc_hash_set(k, v)
       \/ rpc_hash_del(k)
  \/ rpc_hash_clear
  \/ SetWithoutMemory
  \/ kh_resize_loop
  \/ SetAfterResize

Spec == Init /\ [][Next]_vars

\* kh_resize runs on when it has begun.
FairSpec == Spec /\ WF_vars(kh_resize_loop \/ SetAfterResize)

------------------------------------------------------------------------------
Flag == {"empty", "deleted", "live"}

TypeOK ==
  /\ hash \in [Keys -> Nat]
  /\ n_buckets \in Nat /\ size \in Nat /\ n_occupied \in Nat /\ upper_bound \in Nat
  /\ flags \in [Buckets -> Flag]
  /\ \E n \in {n_buckets, new_buckets} :
       slots \in [0 .. n - 1 -> Entry \cup {None}]
  /\ pc \in {"idle", "rehash", "store", "wild"}
  /\ arg \in Entry \cup {None}
  /\ new_buckets \in Nat
  /\ new_flags \in [0 .. new_buckets - 1 -> {"empty", "live"}]
  /\ j \in 0 .. n_buckets
  /\ hand \in Entry \cup {None}

\* The buckets of either table that hold an entry.  After Swap there is one
\* table, and new_flags is what flags was made of.
Live == {i \in Buckets : flags[i] = "live"}

NewLive ==
  IF pc = "rehash" THEN {i \in DOMAIN new_flags : new_flags[i] = "live"} ELSE {}

Held == {slots[i] : i \in Live \cup NewLive} \cup ({hand} \ {None})

(* While entries are moved through the array the two tables share, none is lost
   and none is there twice: the old table, the new one and the hand hold size
   entries between them, with as many names.  A tombstone taken too early would
   store a name a second time further up its own way.                         *)
KeptOnce ==
  /\ Live \cap NewLive = {}
  /\ Cardinality(Live) + Cardinality(NewLive) + (IF hand = None THEN 0 ELSE 1)
       = size
  /\ Cardinality({e.key : e \in Held}) = size

(* Every walk ends and every rehash fits: between calls size and n_occupied
   count the live and the used buckets, fewer buckets are used than there are,
   and the table a full one asks for holds all its entries.                   *)
CountsTrue ==
  pc = "idle" =>
    /\ size = Cardinality(Live)
    /\ n_occupied = Cardinality({i \in Buckets : flags[i] # "empty"})
    /\ n_occupied <= upper_bound
    /\ n_buckets > 0 => upper_bound < n_buckets
    /\ size < UpperBound(Wanted)

\* What the table stores, read off its buckets.
Contents ==
  [k \in Keys |-> IF \E e \in Held : e.key = k
                  THEN (CHOOSE e \in Held : e.key = k).val
                  ELSE None]

(* Whatever has been set, deleted and rehashed before, the walk of a lookup
   reaches every entry there is, past tombstones and other names' entries, and
   finds nothing else.                                                        *)
LookupsAgree ==
  pc = "idle" =>
    \A k \in Keys : /\ rpc_hash_get(k) = Contents[k]
                    /\ rpc_hash_has(k) <=> Contents[k] # None

(* The table is a registry: each call changes the one name it is about, the
   steps of a rehash change none.                                             *)
Names == INSTANCE Registry WITH map <- Contents, setting <- arg

ImplementsRegistry == Names!Spec

\* A put that makes room comes to an end: what is kicked out is put down, and
\* the loop reaches the last bucket.
SetsEnd == pc \in {"rehash", "store"} ~> pc = "idle"
==============================================================================
