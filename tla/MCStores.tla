------------------------------ MODULE MCStores ------------------------------
(* What a node keeps its data in: the tiers of a Yard, a trie, and the child  *)
(* table of one of its branches.  One of them is used in each behaviour; the  *)
(* others rest, the yard as it was found, the tries empty and the table new.  *)
EXTENDS MCYard

CONSTANT TrieUses

VARIABLES part, edits, patch, held, rand, table, keys, overflow

Trie == INSTANCE MCPatch WITH
  use <- edits, Uses <- TrieUses,
  KeyLen <- 4, Segments <- <<1, 2, 2, 3>>, TableOrder <- <<1, 0, 2>>
Cases == INSTANCE MCPatch WITH
  use <- edits, Uses <- {},
  KeyLen <- 4, Segments <- <<1, 2, 2, 3>>, TableOrder <- <<1, 0, 2>>
MCTrieUses == Cases!MCUses

Shuffled == {<<5, 2, 7, 0, 3, 6, 1, 4>>, <<2, 4, 6, 7, 5, 1, 0, 3>>}
Slots == INSTANCE ByteTable WITH
  MaxSlots <- 8, MaxRetries <- 1,
  Permutations <- {[k \in 0..7 |-> s[k + 1]] : s \in Shuffled}

trieVars == <<edits, patch, held>>
slotsVars == <<rand, table, keys, overflow>>
storesVars == <<part, vars, trieVars, slotsVars>>

(* Where a part rests, the first of its initial states stands for all. *)
StoresInit ==
  /\ part \in {"yard", "trie", "slots"}
  /\ Init /\ (part # "yard" => use.budget = 1)
  /\ Trie!Init /\ (part # "trie" => edits.values # {1})
  /\ Slots!Init /\ (part # "slots" => rand[0] = 5 /\ table[0] = 0 /\ table[1] = 1)

Tiers == part = "yard" /\ Next /\ UNCHANGED <<part, trieVars, slotsVars>>
Editing == part = "trie" /\ Trie!Next /\ UNCHANGED <<part, vars, slotsVars>>
Filling == part = "slots" /\ Slots!Next /\ UNCHANGED <<part, vars, trieVars>>

StoresSpec == StoresInit /\ [][Tiers \/ Editing \/ Filling]_storesVars

-----------------------------------------------------------------------------
(* The properties of Yard are checked as they stand, those of Patch and       *)
(* ByteTable under these names.                                               *)

(* After any edits and set operations a PATCH holds the keys the same edits   *)
(* leave in a set, every branch caches what its keys say, and lookups, range  *)
(* scans and comparisons answer from those caches what the set says (the      *)
(* invariants of Patch; patch.rs, branch.rs).                                 *)
TrieIsExact ==
  part = "trie" =>
    /\ Trie!TypeOK /\ Trie!HoldsTheSet /\ Trie!CachesAreExact
    /\ Trie!LookupsAgree /\ Trie!InclusionIsExact

(* A byte that was given a child is found in the child table of its branch,   *)
(* once, however the table was rearranged, and it always fits (ByteTable's    *)
(* invariants; bytetable.rs, branch.rs, grow).                                *)
EveryKeyIsFound == Slots!TypeOK /\ Slots!EveryKeyIsFound
=============================================================================
