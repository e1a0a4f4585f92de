------------------------------ MODULE MCRecords ------------------------------
EXTENDS Records, TLC

CONSTANTS ana, ben, admin, hana, ivo, qwen, key1, key2, star, lobby, attic, cellar,
          greeting, style

MCPeople == {ana, ben}
MCHumans == {hana, ivo}
MCKeys == {key1, key2}
MCPaths == {greeting, style}
MCRooms == {lobby, attic, cellar}
Symmetry == Permutations(MCPeople) \cup Permutations(MCHumans) \cup Permutations(MCKeys) \cup Permutations(MCRooms)
=============================================================================
