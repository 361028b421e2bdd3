------------------------------- MODULE MCPatch -------------------------------
EXTENDS Patch

MCUses ==
  { \* one trie, for the shapes its edits and lookups meet
    [keys |-> {<<0,0,0,0>>, <<0,0,0,1>>, <<0,0,2,0>>, <<0,1,0,0>>, <<0,1,2,0>>, <<1,0,0,1>>},
     values |-> {1}, sides |-> {"left"}],
    \* two tries, for the set operations
    [keys |-> {<<0,0,0,0>>, <<0,0,0,1>>, <<0,0,2,0>>, <<1,0,0,1>>},
     values |-> {1}, sides |-> Sides],
    [keys |-> {<<0,0,0,0>>, <<0,1,0,0>>, <<0,1,1,0>>, <<0,2,0,0>>},
     values |-> {1}, sides |-> Sides],
    \* two tries whose leaves differ in value
    [keys |-> {<<0,0,0,0>>, <<0,0,1,1>>}, values |-> {1, 2}, sides |-> Sides] }

MCSegments == <<1, 2, 2, 3>>
MCTableOrder == <<1, 0, 2>>
=============================================================================
