-------------------------------- MODULE Patch --------------------------------
(***************************************************************************)
(* PATCH, the persistent compressed trie every index of the store is kept  *)
(* in.  A head is a leaf or a branch; a branch caches, beside its          *)
(* children, the depth at which its keys part, one leaf below it that      *)
(* stands for the shared prefix, the number of leaves and of segment       *)
(* values below, and the XOR of their hashes.  Every operation walks two   *)
(* tries by these caches alone, so a stale one is a wrong answer.          *)
(*                                                                         *)
(* Keys are in tree order.  A hash is the set of keys it is the XOR of:    *)
(* colliding hashes are left out, stale ones are not.  A leaf's value      *)
(* tells allocations of the same key apart, as pointers do.  The child     *)
(* table is a function here and the table of ByteTable in the code; the    *)
(* order its slots are met in is TableOrder, some order of the bytes.      *)
(* Sharing of branches and its copy-on-write, leaves that live in an       *)
(* archive, and the parallel forms of the set operations are left out.     *)
(***************************************************************************)
EXTENDS Integers, Sequences, FiniteSets, TLC

LOCAL INSTANCE SequencesExt
LOCAL INSTANCE FiniteSetsExt
LOCAL INSTANCE Functions

CONSTANTS KeyLen,      \* bytes of a key
          Segments,    \* the segment each byte of a key belongs to
          TableOrder,  \* the bytes, in the order of the child table's slots
          Uses         \* keys, the values of leaves, and the sides edited

VARIABLES use,    \* the use at hand, one of Uses
          patch,  \* two PATCHes: <<>> or <<root>>
          held    \* ghost: for each, its keys and the values each may have

patchVars == <<use, patch, held>>

Sides == {"left", "right"}
Other(s) == IF s = "left" THEN "right" ELSE "left"

Bytes == ToSet(TableOrder)
InOrder(S) == SelectSeq(TableOrder, LAMBDA b : b \in S)

\* same_segment_tree, on depths counted from 0.
SameSegment(a, b) == Segments[a + 1] = Segments[b + 1]

-----------------------------------------------------------------------------

(***************************************************************************)
(* Heads.  "rep" is childleaf, the representative leaf.                    *)
(***************************************************************************)
NewLeaf(k, v) ==
  [end |-> KeyLen, rep |-> [key |-> k, value |-> v], kids |-> <<>>,
   count |-> 1, segs |-> 1, hash |-> {k}]

IsLeaf(h) == h.end = KeyLen

\* The byte that with_start gives a head hung into a branch of that depth.
ByteAt(h, depth) == h.rep.key[depth + 1]

CountSegment(h, at) ==
  IF IsLeaf(h) \/ ~SameSegment(at, h.end) THEN 1 ELSE h.segs

\* Branch::new: the left child's representative stands for both.
NewBranch(depth, l, r) ==
  [end |-> depth, rep |-> l.rep,
   kids |-> (ByteAt(l, depth) :> l) @@ (ByteAt(r, depth) :> r),
   count |-> l.count + r.count,
   segs |-> CountSegment(l, depth) + CountSegment(r, depth),
   hash |-> SymDiff(l.hash, r.hash)]

\* first_divergence: the depths from start on at which two heads differ.
Divergences(a, b, start) ==
  {d \in start..(Min({a.end, b.end}) - 1) : ByteAt(a, d) # ByteAt(b, d)}

\* Mutant of NewRep: only a removal looks for another representative.
NewRepOnRemoval(b, old, new, rest) ==
  IF old # <<>> /\ old[1].rep = b.rep /\ new = <<>> /\ rest # <<>>
  THEN rest[InOrder(DOMAIN rest)[1]].rep ELSE b.rep

\* The representative after a child is replaced by "new" or removed: it was
\* the old child's, so it becomes the new one's, or that of any child left.
NewRep(b, old, new, rest) ==
  IF old = <<>> \/ old[1].rep # b.rep THEN b.rep
  ELSE IF new # <<>> THEN new[1].rep
  ELSE IF rest # <<>> THEN rest[InOrder(DOMAIN rest)[1]].rep
  ELSE b.rep

(***************************************************************************)
(* modify_child: the child under a byte becomes what "new" says, <<>> for  *)
(* none, and the caches follow from the old and the new child alone.       *)
(***************************************************************************)
SetChild(b, byte, new) ==
  LET old == IF byte \in DOMAIN b.kids THEN <<b.kids[byte]>> ELSE <<>>
      rest == Restrict(b.kids, DOMAIN b.kids \ {byte})
      Change(Of(_)) == (IF new = <<>> THEN 0 ELSE Of(new[1]))
                       - (IF old = <<>> THEN 0 ELSE Of(old[1]))
      Hash(o) == IF o = <<>> THEN {} ELSE o[1].hash
  IN [end |-> b.end,
      rep |-> NewRep(b, old, new, rest),
      kids |-> IF new = <<>> THEN rest ELSE (byte :> new[1]) @@ rest,
      count |-> b.count + Change(LAMBDA h : h.count),
      segs |-> b.segs + Change(LAMBDA h : CountSegment(h, b.end)),
      hash |-> SymDiff(b.hash, SymDiff(Hash(old), Hash(new)))]

\* A branch left with one child gives way to it, one left empty to nothing.
Collapse(b) ==
  CASE Cardinality(DOMAIN b.kids) = 0 -> <<>>
    [] Cardinality(DOMAIN b.kids) = 1 -> <<b.kids[InOrder(DOMAIN b.kids)[1]]>>
    [] OTHER -> <<b>>

\* intersect and difference build their branch from the children that are
\* left, in table order; one alone takes the branch's place.
Rebuild(depth, kids) ==
  CASE Len(kids) = 0 -> <<>>
    [] Len(kids) = 1 -> kids
    [] OTHER -> <<FoldLeft(LAMBDA b, h : SetChild(b, ByteAt(h, depth), <<h>>),
                           NewBranch(depth, kids[1], kids[2]),
                           SubSeq(kids, 3, Len(kids)))>>

-----------------------------------------------------------------------------

(***************************************************************************)
(* Lookups.  A walk compares the part of the prefix that a head's path     *)
(* covers with its representative and goes on below the next byte.         *)
(***************************************************************************)

\* key_ops::has_prefix, for the bytes from depth "at" to "limit".
OnPath(h, at, prefix, limit) ==
  \A d \in at..(limit - 1) : ByteAt(h, d) = prefix[d + 1]

CoveredLen(h, prefix) == Min({Len(prefix), h.end})

\* The child the prefix goes on in.
Below(h, prefix) ==
  IF prefix[h.end + 1] \in DOMAIN h.kids THEN <<h.kids[prefix[h.end + 1]]>>
  ELSE <<>>

RECURSIVE HasPrefix(_, _, _)
HasPrefix(h, at, prefix) ==
  /\ OnPath(h, at, prefix, CoveredLen(h, prefix))
  /\ \/ Len(prefix) <= h.end
     \/ Below(h, prefix) # <<>> /\ HasPrefix(Below(h, prefix)[1], h.end, prefix)

\* get: the value under a key, <<>> for none.
RECURSIVE Get(_, _, _)
Get(h, at, key) ==
  IF ~OnPath(h, at, key, h.end) THEN <<>>
  ELSE IF IsLeaf(h) THEN <<h.rep.value>>
  ELSE IF Below(h, key) = <<>> THEN <<>>
  ELSE Get(Below(h, key)[1], h.end, key)

\* segmented_len: how many values the segment after the prefix takes.
RECURSIVE SegmentedLen(_, _, _)
SegmentedLen(h, at, prefix) ==
  IF ~OnPath(h, at, prefix, CoveredLen(h, prefix)) THEN 0
  ELSE IF Len(prefix) <= h.end
  THEN IF IsLeaf(h) \/ ~SameSegment(Len(prefix), h.end) THEN 1 ELSE h.segs
  ELSE IF Below(h, prefix) = <<>> THEN 0
  ELSE SegmentedLen(Below(h, prefix)[1], h.end, prefix)

RECURSIVE SeqLeq(_, _)
SeqLeq(a, b) ==
  IF a = <<>> THEN TRUE
  ELSE Head(a) < Head(b) \/ (Head(a) = Head(b) /\ SeqLeq(Tail(a), Tail(b)))

InRange(i, lo, hi) == SeqLeq(lo, i) /\ SeqLeq(i, hi)
InfixOf(h, prefix, n) == SubSeq(h.rep.key, Len(prefix) + 1, Len(prefix) + n)

\* The bytes of the infix that a branch's path fixes, and whether they keep
\* the walk on a boundary of the range.
Path(h, prefix) == SubSeq(h.rep.key, Len(prefix) + 1, h.end)
OnBound(h, prefix, bound) == Path(h, prefix) = SubSeq(bound, 1, h.end - Len(prefix))
OutsideRange(h, prefix, lo, hi) ==
  LET n == h.end - Len(prefix)
  IN ~InRange(Path(h, prefix), SubSeq(lo, 1, n), SubSeq(hi, 1, n))

\* The children whose byte the boundaries do not exclude.
Within(h, prefix, lo, hi) ==
  LET i == h.end - Len(prefix) + 1
  IN {b \in DOMAIN h.kids : /\ OnBound(h, prefix, lo) => b >= lo[i]
                            /\ OnBound(h, prefix, hi) => b <= hi[i]}

\* infixes_range: the distinct infixes after the prefix in the range, in the
\* order the callback sees them.
RECURSIVE InfixesRange(_, _, _, _, _)
InfixesRange(h, at, prefix, lo, hi) ==
  LET n == Len(lo)
      kids == InOrder(Within(h, prefix, lo, hi))
  IN IF ~OnPath(h, at, prefix, CoveredLen(h, prefix)) THEN <<>>
     ELSE IF Len(prefix) + n <= h.end
     THEN IF InRange(InfixOf(h, prefix, n), lo, hi)
          THEN <<InfixOf(h, prefix, n)>> ELSE <<>>
     ELSE IF Len(prefix) > h.end
     THEN IF Below(h, prefix) = <<>> THEN <<>>
          ELSE InfixesRange(Below(h, prefix)[1], h.end, prefix, lo, hi)
     ELSE IF OutsideRange(h, prefix, lo, hi) THEN <<>>
     ELSE FlattenSeq([i \in DOMAIN kids |->
                        InfixesRange(h.kids[kids[i]], h.end, prefix, lo, hi)])

\* infixes: the same walk without a range.
RECURSIVE Infixes(_, _, _, _)
Infixes(h, at, prefix, n) ==
  LET kids == InOrder(DOMAIN h.kids)
  IN IF ~OnPath(h, at, prefix, CoveredLen(h, prefix)) THEN <<>>
     ELSE IF Len(prefix) + n <= h.end THEN <<InfixOf(h, prefix, n)>>
     ELSE IF Len(prefix) > h.end
     THEN IF Below(h, prefix) = <<>> THEN <<>>
          ELSE Infixes(Below(h, prefix)[1], h.end, prefix, n)
     ELSE FlattenSeq([i \in DOMAIN kids |->
                        Infixes(h.kids[kids[i]], h.end, prefix, n)])

\* first_infix_range: the bytes of the range in ascending order, and the
\* first child that has an infix in it; <<>> for none.
RECURSIVE FirstInfixRange(_, _, _, _, _)
FirstInfixRange(h, at, prefix, lo, hi) ==
  LET n == Len(lo)
      First(b) == FirstInfixRange(h.kids[b], h.end, prefix, lo, hi)
      found == {b \in Within(h, prefix, lo, hi) : First(b) # <<>>}
  IN IF ~OnPath(h, at, prefix, CoveredLen(h, prefix)) THEN <<>>
     ELSE IF Len(prefix) + n <= h.end
     THEN IF InRange(InfixOf(h, prefix, n), lo, hi)
          THEN <<InfixOf(h, prefix, n)>> ELSE <<>>
     ELSE IF Len(prefix) > h.end
     THEN IF Below(h, prefix) = <<>> THEN <<>>
          ELSE FirstInfixRange(Below(h, prefix)[1], h.end, prefix, lo, hi)
     ELSE IF OutsideRange(h, prefix, lo, hi) \/ found = {} THEN <<>>
     ELSE First(Min(found))

\* A child strictly inside the range is counted by its cache, one on a
\* boundary is walked.
OnEdge(h, prefix, b, lo, hi) ==
  LET i == h.end - Len(prefix) + 1
  IN \/ OnBound(h, prefix, lo) /\ b = lo[i]
     \/ OnBound(h, prefix, hi) /\ b = hi[i]

RECURSIVE CountRange(_, _, _, _, _)
CountRange(h, at, prefix, lo, hi) ==
  LET n == Len(lo)
      Of(b) == IF OnEdge(h, prefix, b, lo, hi)
               THEN CountRange(h.kids[b], h.end, prefix, lo, hi)
               ELSE CountSegment(h.kids[b], h.end)
  IN IF ~OnPath(h, at, prefix, CoveredLen(h, prefix)) THEN 0
     ELSE IF Len(prefix) + n <= h.end
     THEN IF InRange(InfixOf(h, prefix, n), lo, hi) THEN 1 ELSE 0
     ELSE IF Len(prefix) > h.end
     THEN IF Below(h, prefix) = <<>> THEN 0
          ELSE CountRange(Below(h, prefix)[1], h.end, prefix, lo, hi)
     ELSE IF OutsideRange(h, prefix, lo, hi) THEN 0
     ELSE MapThenSumSet(Of, Within(h, prefix, lo, hi))

-----------------------------------------------------------------------------

(***************************************************************************)
(* Single keys.                                                            *)
(***************************************************************************)

\* insert_leaf: a key that is there keeps its leaf.
RECURSIVE InsertLeaf(_, _, _)
InsertLeaf(h, leaf, start) ==
  LET apart == Divergences(h, leaf, start)
      b == ByteAt(leaf, h.end)
  IN IF apart # {} THEN NewBranch(Min(apart), h, leaf)
     ELSE IF IsLeaf(h) THEN h
     ELSE SetChild(h, b, <<IF b \in DOMAIN h.kids
                           THEN InsertLeaf(h.kids[b], leaf, h.end) ELSE leaf>>)

\* replace_leaf: a key that is there gets the new leaf.
RECURSIVE ReplaceLeaf(_, _, _)
ReplaceLeaf(h, leaf, start) ==
  LET apart == Divergences(h, leaf, start)
      b == ByteAt(leaf, h.end)
  IN IF apart # {} THEN NewBranch(Min(apart), h, leaf)
     ELSE IF IsLeaf(h) THEN leaf
     ELSE SetChild(h, b, <<IF b \in DOMAIN h.kids
                           THEN ReplaceLeaf(h.kids[b], leaf, h.end) ELSE leaf>>)

\* try_insert_with: the value is made only for a key that is not there.  A
\* child is entered past its byte, at depth end + 1.
RECURSIVE TryInsertWith(_, _, _)
TryInsertWith(h, leaf, start) ==
  LET split == {d \in start..(h.end - 1) : ByteAt(h, d) # ByteAt(leaf, d)}
      b == ByteAt(leaf, h.end)
  IN IF split # {} THEN NewBranch(Min(split), h, leaf)
     ELSE IF IsLeaf(h) THEN h
     ELSE SetChild(h, b, <<IF b \in DOMAIN h.kids
                           THEN TryInsertWith(h.kids[b], leaf, h.end + 1) ELSE leaf>>)

\* remove_leaf: nothing happens unless the whole key is found first.
RECURSIVE RemoveLeaf(_, _, _)
RemoveLeaf(slot, key, start) ==
  IF slot = <<>> \/ ~HasPrefix(slot[1], start, key) THEN slot
  ELSE IF IsLeaf(slot[1]) THEN <<>>
  ELSE LET h == slot[1]
           b == key[h.end + 1]
       IN Collapse(SetChild(h, b, RemoveLeaf(<<h.kids[b]>>, key, h.end)))

-----------------------------------------------------------------------------

(***************************************************************************)
(* Set operations on two heads.  Equal hashes settle a pair of subtrees    *)
(* without a walk; a divergence makes them disjoint; else the deeper one   *)
(* lies below one child of the other, or both part at the same depth.      *)
(***************************************************************************)

\* The table of the branch the union is gathered in is at least as large.
Larger(a, b) == Cardinality(DOMAIN a.kids) > Cardinality(DOMAIN b.kids)

RECURSIVE Union(_, _, _)
Union(a, b, at) ==
  LET apart == Divergences(a, b, at)
      \* "into" takes "h" in, under the byte h has at its depth.
      Join(into, h) ==
        LET k == ByteAt(h, into.end)
        IN SetChild(into, k, <<IF k \in DOMAIN into.kids
                               THEN Union(into.kids[k], h, into.end) ELSE h>>)
      to == IF Larger(b, a) THEN b ELSE a
      from == IF Larger(b, a) THEN a ELSE b
      kids == InOrder(DOMAIN from.kids)
  IN IF a.hash = b.hash THEN a
     ELSE IF apart # {} THEN NewBranch(Min(apart), a, b)
     ELSE IF a.end < b.end THEN Join(a, b)
     ELSE IF b.end < a.end THEN Join(b, a)
     ELSE FoldLeft(Join, to, [i \in DOMAIN kids |-> from.kids[kids[i]]])

RECURSIVE Intersect(_, _, _)
Intersect(a, b, at) ==
  LET ka == ByteAt(b, a.end)
      kb == ByteAt(a, b.end)
      shared == InOrder(DOMAIN a.kids \cap DOMAIN b.kids)
      kids == [i \in DOMAIN shared |->
                 Intersect(a.kids[shared[i]], b.kids[shared[i]], a.end)]
  IN IF a.hash = b.hash THEN <<a>>
     ELSE IF Divergences(a, b, at) # {} THEN <<>>
     ELSE IF a.end < b.end
     THEN IF ka \in DOMAIN a.kids THEN Intersect(b, a.kids[ka], a.end) ELSE <<>>
     ELSE IF b.end < a.end
     THEN IF kb \in DOMAIN b.kids THEN Intersect(a, b.kids[kb], b.end) ELSE <<>>
     ELSE Rebuild(a.end, FlattenSeq(kids))

RECURSIVE Difference(_, _, _)
Difference(a, b, at) ==
  LET ka == ByteAt(b, a.end)
      kb == ByteAt(a, b.end)
      order == InOrder(DOMAIN a.kids)
      Kid(k) == IF k \in DOMAIN b.kids THEN Difference(a.kids[k], b.kids[k], a.end)
                ELSE <<a.kids[k]>>
      kids == [i \in DOMAIN order |-> Kid(order[i])]
  IN IF a.hash = b.hash THEN <<>>
     ELSE IF Divergences(a, b, at) # {} THEN <<a>>
     ELSE IF a.end < b.end
     THEN Collapse(SetChild(a, ka, IF ka \in DOMAIN a.kids
                                   THEN Difference(a.kids[ka], b, a.end) ELSE <<>>))
     ELSE IF b.end < a.end
     THEN IF kb \in DOMAIN b.kids THEN Difference(a, b.kids[kb], at) ELSE <<a>>
     ELSE Rebuild(a.end, FlattenSeq(kids))

\* meet: the inclusion of two disjoint parts together.
Meet(x, y) ==
  CASE x = "eq" -> y
    [] y = "eq" -> x
    [] x = y -> x
    [] OTHER -> "none"

RECURSIVE Inclusion(_, _, _)
Inclusion(a, b, at) ==
  LET ka == ByteAt(b, a.end)
      kb == ByteAt(a, b.end)
      both == InOrder(DOMAIN a.kids \cup DOMAIN b.kids)
      Of(k) == IF k \notin DOMAIN b.kids THEN "gt"
               ELSE IF k \notin DOMAIN a.kids THEN "lt"
               ELSE Inclusion(a.kids[k], b.kids[k], a.end)
  IN IF a.hash = b.hash THEN "eq"
     ELSE IF Divergences(a, b, at) # {} THEN "none"
     ELSE IF a.end < b.end
     THEN IF ka \in DOMAIN a.kids /\ Inclusion(a.kids[ka], b, at) \in {"eq", "gt"}
          THEN "gt" ELSE "none"
     ELSE IF b.end < a.end
     THEN IF kb \in DOMAIN b.kids /\ Inclusion(a, b.kids[kb], at) \in {"eq", "lt"}
          THEN "lt" ELSE "none"
     ELSE FoldLeft(Meet, "eq", [i \in DOMAIN both |-> Of(both[i])])

-----------------------------------------------------------------------------

Init ==
  /\ use \in Uses
  /\ patch = [s \in Sides |-> <<>>]
  /\ held = [s \in Sides |-> <<>>]

Set(s, root, h) ==
  /\ patch' = [patch EXCEPT ![s] = root]
  /\ held' = [held EXCEPT ![s] = h]
  /\ UNCHANGED use

\* One leaf goes into an empty PATCH as it is.
Place(s, leaf, Op(_, _, _)) ==
  IF patch[s] = <<>> THEN <<leaf>> ELSE <<Op(patch[s][1], leaf, 0)>>

Insert(s, k, v) ==
  Set(s, Place(s, NewLeaf(k, v), InsertLeaf), held[s] @@ (k :> {v}))

TryInsert(s, k, v) ==
  Set(s, Place(s, NewLeaf(k, v), TryInsertWith), held[s] @@ (k :> {v}))

Replace(s, k, v) ==
  Set(s, Place(s, NewLeaf(k, v), ReplaceLeaf), (k :> {v}) @@ held[s])

Removal(s, k) ==
  Set(s, RemoveLeaf(patch[s], k, 0), Restrict(held[s], DOMAIN held[s] \ {k}))

\* Which side's value survives is not specified.
Merged(s, S) ==
  [k \in S |-> (IF k \in DOMAIN held[s] THEN held[s][k] ELSE {})
               \cup (IF k \in DOMAIN held[Other(s)] THEN held[Other(s)][k] ELSE {})]

UnionWith(s) ==
  LET a == patch[s]
      b == patch[Other(s)]
  IN Set(s, IF a = <<>> THEN b ELSE IF b = <<>> THEN a ELSE <<Union(a[1], b[1], 0)>>,
         Merged(s, DOMAIN held[s] \cup DOMAIN held[Other(s)]))

IntersectWith(s) ==
  LET a == patch[s]
      b == patch[Other(s)]
  IN Set(s, IF a = <<>> \/ b = <<>> THEN <<>> ELSE Intersect(a[1], b[1], 0),
         Merged(s, DOMAIN held[s] \cap DOMAIN held[Other(s)]))

DifferenceWith(s) ==
  LET a == patch[s]
      b == patch[Other(s)]
  IN Set(s, IF a = <<>> \/ b = <<>> THEN a ELSE Difference(a[1], b[1], 0),
         Restrict(held[s], DOMAIN held[s] \ DOMAIN held[Other(s)]))

Next ==
  \E s \in use.sides :
    \/ \E k \in use.keys, v \in use.values :
         Insert(s, k, v) \/ TryInsert(s, k, v) \/ Replace(s, k, v)
    \/ \E k \in use.keys : Removal(s, k)
    \/ UnionWith(s) \/ IntersectWith(s) \/ DifferenceWith(s)

Spec == Init /\ [][Next]_patchVars

-----------------------------------------------------------------------------

(***************************************************************************)
(* What the tries should say, from the keys alone.                         *)
(***************************************************************************)
RECURSIVE Leaves(_)
Leaves(h) ==
  IF IsLeaf(h) THEN {h.rep} ELSE UNION {Leaves(h.kids[b]) : b \in DOMAIN h.kids}

KeysOf(h) == {l.key : l \in Leaves(h)}
With(S, prefix) == {k \in S : IsPrefix(prefix, k)}

\* The segment values that follow the first n bytes of keys.
SegmentEnd(n) == Max({d \in (n + 1)..KeyLen : SameSegment(n, d - 1)})
SegmentsAfter(S, n) == {SubSeq(k, n + 1, SegmentEnd(n)) : k \in S}

\* Every branch is where its keys part, and caches what its keys say.
RECURSIVE Exact(_)
Exact(h) ==
  \/ IsLeaf(h)
  \/ LET S == KeysOf(h)
     IN /\ h.end = Len(LongestCommonPrefix(S))
        /\ \A b \in DOMAIN h.kids : /\ ByteAt(h.kids[b], h.end) = b
                                    /\ Exact(h.kids[b])
        /\ Cardinality(DOMAIN h.kids) >= 2
        /\ h.rep \in Leaves(h)
        /\ h.hash = S
        /\ h.count = Cardinality(S)
        /\ h.segs = Cardinality(SegmentsAfter(S, h.end))

\* There are two PATCHes, each empty or with one root.
TypeOK ==
  /\ use \in Uses
  /\ \A s \in Sides : Len(patch[s]) <= 1 /\ DOMAIN held[s] \subseteq use.keys

(***************************************************************************)
(* After any sequence of single-key edits and set operations a PATCH holds *)
(* exactly the keys the same sequence leaves in a set, and for each a      *)
(* value that was put under it: insert and try_insert_with keep the first, *)
(* replace the last, a union or an intersection one of the two             *)
(* (patch.rs, insert_leaf .. difference).                                  *)
(***************************************************************************)
HoldsTheSet ==
  \A s \in Sides :
    LET leaves == IF patch[s] = <<>> THEN {} ELSE Leaves(patch[s][1])
    IN /\ {l.key : l \in leaves} = DOMAIN held[s]
       /\ \A l \in leaves : l.value \in held[s][l.key]

(***************************************************************************)
(* Every branch ever reachable has at least two children, sits at the      *)
(* depth where its keys part and caches the right count, segment count and *)
(* hash and a representative that is a leaf below it: what                 *)
(* debug_check_invariants asserts of one branch, for the whole trie, and   *)
(* so one trie per set of keys, whose root hash compares sets.             *)
(***************************************************************************)
CachesAreExact == \A s \in Sides : patch[s] # <<>> => Exact(patch[s][1])

\* The prefixes queries are asked with: those of the keys, and one that
\* leaves them at its last byte.
Boundary(n) == n = 0 \/ (n < KeyLen /\ ~SameSegment(n - 1, n))
Prefix(n) == {SubSeq(k, 1, n) : k \in use.keys}
             \cup {[SubSeq(k, 1, n) EXCEPT ![n] = Max(Bytes)] : k \in IF n = 0 THEN {} ELSE use.keys}

(***************************************************************************)
(* Lookups, segment counts and range scans of a trie answer from caches    *)
(* and representatives what its set of keys says: no infix is missed,      *)
(* repeated or counted twice, whichever child lies on a boundary of the    *)
(* range (branch.rs, infixes .. segmented_len).                            *)
(***************************************************************************)
LookupsAgree ==
  \A s \in Sides : patch[s] # <<>> =>
    LET h == patch[s][1]
        S == KeysOf(h)
    IN /\ \A k \in use.keys : Get(h, 0, k) # <<>> <=> k \in S
       /\ \A n \in 0..KeyLen : \A p \in Prefix(n) :
            HasPrefix(h, 0, p) <=> With(S, p) # {}
       /\ \A n \in {m \in 0..(KeyLen - 1) : Boundary(m)} : \A p \in Prefix(n) :
            LET after == SegmentsAfter(With(S, p), n)
                len == SegmentEnd(n) - n
                seen == Infixes(h, 0, p, len)
                bounds == SegmentsAfter(use.keys, n)
            IN /\ SegmentedLen(h, 0, p) = Cardinality(after)
               /\ ToSet(seen) = after /\ Len(seen) = Cardinality(after)
               /\ \A lo, hi \in bounds :
                    LET want == {i \in after : InRange(i, lo, hi)}
                        got == InfixesRange(h, 0, p, lo, hi)
                        first == FirstInfixRange(h, 0, p, lo, hi)
                    IN SeqLeq(lo, hi) =>
                         /\ ToSet(got) = want /\ Len(got) = Cardinality(want)
                         /\ CountRange(h, 0, p, lo, hi) = Cardinality(want)
                         /\ (first = <<>>) <=> (want = {})
                         /\ first # <<>> => /\ first[1] \in want
                                            /\ \A i \in want : SeqLeq(first[1], i)

(***************************************************************************)
(* partial_cmp decides inclusion of the two key sets in both directions,   *)
(* and the root hashes are equal exactly when the sets are (patch.rs,      *)
(* inclusion, PartialEq).                                                  *)
(***************************************************************************)
InclusionIsExact ==
  LET a == patch["left"]
      b == patch["right"]
      A == DOMAIN held["left"]
      B == DOMAIN held["right"]
  IN a # <<>> /\ b # <<>> =>
       /\ Inclusion(a[1], b[1], 0) = (IF A = B THEN "eq" ELSE IF A \subseteq B THEN "lt"
                                      ELSE IF B \subseteq A THEN "gt" ELSE "none")
       /\ a[1].hash = b[1].hash <=> A = B
=============================================================================
