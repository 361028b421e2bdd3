------------------------------ MODULE ByteTable ------------------------------
(***************************************************************************)
(* The child table of a PATCH branch: a cuckoo hash table keyed by one     *)
(* byte, in buckets of two slots.  A byte may lie in the bucket its        *)
(* identity hash names or in the one a random permutation names, both cut  *)
(* to the number of buckets.  An insertion that finds both buckets full    *)
(* displaces entries to their other buckets; when that fails too the table *)
(* doubles, each entry moving at most to its bucket's counterpart in the   *)
(* upper half.  A table of the largest size cannot double: there the       *)
(* search is unlimited and has to succeed.                                 *)
(*                                                                         *)
(* The byte domain is 0..MaxSlots - 1, as 0..255 is for 256 slots.  An     *)
(* entry is its byte: the head it carries is the subject of Patch.         *)
(***************************************************************************)
EXTENDS Integers, Sequences, FiniteSets

LOCAL INSTANCE FiniteSetsExt

CONSTANTS MaxSlots,     \* slots of the largest table, a power of two
          MaxRetries,   \* displacements tried before a smaller table grows
          Permutations  \* the values RANDOM_PERMUTATION_HASH may take

VARIABLES rand,     \* the permutation this process drew at start
          table,    \* the slots, 0..size - 1
          keys,     \* ghost: the bytes the branch has children under
          overflow  \* the growth assertion has failed

byteVars == <<rand, table, keys, overflow>>

Bytes == 0..(MaxSlots - 1)
Empty == -1
BucketSize == 2

Size(t) == Cardinality(DOMAIN t)
Bucket(b) == (BucketSize * b)..(BucketSize * b + BucketSize - 1)

\* compress_hash: the hash modulo the number of buckets.
Compress(size, hash) == hash % (size \div BucketSize)
Cheap(t, k) == Compress(Size(t), k)
Rand(t, k) == Compress(Size(t), rand[k])

\* table_get: the cheap bucket, then the random one.
Get(t, k) == \E s \in Bucket(Cheap(t, k)) \cup Bucket(Rand(t, k)) : t[s] = k

-----------------------------------------------------------------------------

(***************************************************************************)
(* plan_insert: a free slot of the bucket, made by displacement if need    *)
(* be.  The result is <<>>, or the slot with the table in which it is      *)
(* free.  A failed search leaves the table as it was.                      *)
(***************************************************************************)
RECURSIVE Plan(_, _, _, _)
Plan(t, bucket, depth, visited) ==
  LET holes == {s \in Bucket(bucket) : t[s] = Empty}
      Displace(s) ==
        LET key == t[s]
            alt == IF bucket = Cheap(t, key) THEN Rand(t, key) ELSE Cheap(t, key)
            below == Plan(t, alt, depth - 1, visited \cup {key})
        IN IF key \in visited \/ alt = bucket \/ below = <<>> THEN <<>>
           ELSE <<[slot |-> s,
                   table |-> [below[1].table EXCEPT ![below[1].slot] = key,
                                                    ![s] = Empty]]>>
      first == Displace(Min(Bucket(bucket)))
  IN IF holes # {} THEN <<[slot |-> Min(holes), table |-> t]>>
     ELSE IF depth = 0 THEN <<>>
     ELSE IF first # <<>> THEN first
     ELSE Displace(Max(Bucket(bucket)))

\* The number of displacements an insertion may make.
Limit(t) == IF Size(t) = MaxSlots THEN MaxSlots ELSE MaxRetries

\* table_insert: <<>> when the entry is handed back.
Insert(t, k) ==
  LET cheap == Plan(t, Cheap(t, k), Limit(t), {k})
      plan == IF cheap # <<>> THEN cheap ELSE Plan(t, Rand(t, k), Limit(t), {k})
  IN IF plan = <<>> THEN <<>>
     ELSE <<[plan[1].table EXCEPT ![plan[1].slot] = k]>>

\* Mutant of Stays: an entry placed by its random hash is not recognised.
StaysByCheap(size, bucket, k) == bucket = Compress(2 * size, k)

\* An entry keeps its bucket while one of its hashes in the grown table
\* still names it.
Stays(size, bucket, k) ==
  \/ bucket = Compress(2 * size, k)
  \/ bucket = Compress(2 * size, rand[k])

(***************************************************************************)
(* table_grow: of each bucket, the entries that stay and the ones that     *)
(* move to the counterpart fill their destinations from the first slot.    *)
(***************************************************************************)
Grow(t) ==
  LET size == Size(t)
      Entries(b, stay) ==
        SelectSeq([i \in 1..BucketSize |-> t[BucketSize * b + i - 1]],
                  LAMBDA k : k # Empty /\ Stays(size, b, k) = stay)
      At(s) == LET old == s % size
                   into == Entries(old \div BucketSize, s < size)
                   i == (old % BucketSize) + 1
               IN IF i <= Len(into) THEN into[i] ELSE Empty
  IN [s \in 0..(2 * size - 1) |-> At(s)]

\* modify_child's loop: insert, and grow until the entry fits.  A table of
\* the largest size fails the assertion in Branch::grow: <<>>.
RECURSIVE Install(_, _)
Install(t, k) ==
  LET placed == Insert(t, k)
  IN IF placed # <<>> THEN placed
     ELSE IF 2 * Size(t) > MaxSlots THEN <<>>
     ELSE Install(Grow(t), k)

-----------------------------------------------------------------------------

\* Branch::new: two slots, the children in the order given.
Init ==
  /\ rand \in Permutations
  /\ \E l, r \in Bytes :
       /\ l # r
       /\ table = [s \in 0..1 |-> IF s = 0 THEN l ELSE r]
       /\ keys = {l, r}
  /\ overflow = FALSE

\* A child under a byte the branch does not have yet.
Add(k) ==
  /\ ~overflow
  /\ ~Get(table, k)
  /\ LET t == Install(table, k)
     IN /\ table' = IF t = <<>> THEN table ELSE t[1]
        /\ overflow' = (t = <<>>)
  /\ keys' = keys \cup {k}
  /\ UNCHANGED rand

\* table_get_slot and take: the child of a byte is removed.  A branch left
\* with one child collapses and its table is gone.
Take(k) ==
  /\ ~overflow
  /\ Get(table, k)
  /\ Cardinality(keys) > 2
  /\ table' = [s \in DOMAIN table |-> IF table[s] = k THEN Empty ELSE table[s]]
  /\ keys' = keys \ {k}
  /\ UNCHANGED <<rand, overflow>>

Next == \E k \in Bytes : Add(k) \/ Take(k)

Spec == Init /\ [][Next]_byteVars

-----------------------------------------------------------------------------

\* The table has a legal size and holds bytes only.
TypeOK ==
  /\ \E n \in 1..MaxSlots : 2 * n <= MaxSlots /\ DOMAIN table = 0..(2 * n - 1)
  /\ \A s \in DOMAIN table : table[s] \in Bytes \cup {Empty}
  /\ keys \subseteq Bytes

(***************************************************************************)
(* However entries were displaced and however often the table grew, a      *)
(* lookup finds exactly the bytes that were inserted and not removed, and  *)
(* each of them lies in one slot: no displacement or growth loses, parks   *)
(* out of reach or doubles a child (bytetable.rs, plan_insert, table_grow).*)
(* And a table of the largest size never hands an entry back, so the       *)
(* assertion new_size <= 256 of Branch::grow cannot fail: the identity     *)
(* hash gives every byte a place of its own there, and the unlimited       *)
(* search finds a way to it past whatever the random hash has displaced.   *)
(***************************************************************************)
EveryKeyIsFound ==
  /\ ~overflow
  /\ \A k \in Bytes : /\ Get(table, k) <=> k \in keys
                      /\ Cardinality({s \in DOMAIN table : table[s] = k}) <= 1
=============================================================================
