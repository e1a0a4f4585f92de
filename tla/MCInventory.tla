---------------------------- MODULE MCInventory -----------------------------
EXTENDS Inventory, TLC

CONSTANTS t1, t2, note

ContainerOrder == <<Rooms, Agents, Mcps, Internal>>
OfferedVersions == {1}
SomePatterns == {{note, Look}, {t1, t2}}
Make(kind, parent, name, slot) ==
  [kind |-> kind, parent |-> parent, name |-> name, slot |-> slot]
SomeThings == {Make("data", Agent, note, None), Make("tool", Agent, t1, Hook),
               Make("tool", Lobby, t1, None)}
Symmetry == Permutations(Clients)
=============================================================================
